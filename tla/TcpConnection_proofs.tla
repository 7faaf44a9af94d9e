------------------------- MODULE TcpConnection_proofs -------------------------
(***************************************************************************)
(* Theorems about TcpConnection, for any lengths of requests, replies and  *)
(* buffers.                                                                *)
(*                                                                         *)
(* The bytes read are those of the replies counted and those in the buffer *)
(* (BufferInv), wherever the reads have cut the stream: the parsers find   *)
(* the ends of replies where the server has put them (ConsumeWhole).  The  *)
(* server answers no request that the thread does not count (ServerInv),   *)
(* so that every reply counted finds a transmit time, its own.             *)
(***************************************************************************)
EXTENDS TcpConnection, FiniteSetTheorems, WellFoundedInduction, TLAPS

\* Length of the k-th reply, requests written or taken to be, and the replies
\* that every parser but that of HTTP takes at once.
Size(k) == EndOf(k) - EndOf(k - 1)
Done == IF left > 0 THEN issued - 1 ELSE issued
OneByOne == proto = "http" /\ mode # "latency"

\* Every reply takes the bytes after those of the one before, and its last line
\* ends with it.
StreamInv ==
  \A k \in 1..Len(replies) :
    /\ replies[k] \subseteq EndOf(k - 1) + 1 .. EndOf(k)
    /\ EndOf(k) \in replies[k] /\ Size(k) <= BufferBytes
    /\ proto = "ascii" /\ Cardinality(replies[k]) = 3 => Size(k) >= StoredBytes

\* What the server has written is in the socket, in OpenSSL or read.
WireInv ==
  /\ Sum(wire) <= ReceiveRoom /\ Sum(wire) + held <= emitted
  /\ mode # "tls" => held = 0

\* The server has answered the requests it has read, and those were sent.
ServerInv ==
  /\ \E r \in 0..RequestBytes - 1 : srvRead = Len(replies) * RequestBytes + r
  /\ peerOpen => written + left = issued * RequestBytes
  /\ Len(replies) <= Done

\* A request is being written, or has been and is counted.
RequestInv ==
  /\ left > 0 => issued > 0 /\ pc \in {"send", "ended", "aborted"}
  /\ pc = "send" => left > 0 /\ pending < MaxPending
  /\ pending = IF mode = "latency" THEN 0 ELSE Done - answered
  /\ pushed = IF Timed THEN Done ELSE 0
  /\ consumed = IF Timed THEN answered ELSE 0
  /\ \A i \in consumed..pushed - 1 : slot[i % MaxPending] = i + 1

\* A latency agent has at most one request on its way.
LatencyInv ==
  mode = "latency" =>
    /\ pc = "loop" /\ ~closed => answered = issued
    /\ pc \in {"send", "recv"} => answered + 1 = issued

\* The buffer holds the beginning of what has not been counted.
BufferInv ==
  pc # "aborted" =>
    /\ got = EndOf(answered) + bidx
    /\ ~OneByOne /\ answered < Len(replies) => bidx < Size(answered + 1)
    /\ proto = "ascii" => \A i \in 1..bidx : buf[i] = ByteAt(EndOf(answered) + i)

AbortInv == pc = "aborted" => proto = "ascii" \/ mode = "tls"

IInv == /\ TypeOK /\ StreamInv /\ WireInv /\ ServerInv /\ RequestInv
        /\ LatencyInv /\ BufferInv /\ AbortInv /\ SamplesTimely

-----------------------------------------------------------------------------
(* Numbers and sums.                                                       *)

\* A set of numbers that is not empty has a least member, and one below a
\* bound has a greatest.
LEMMA LeastMember ==
  ASSUME NEW S, S \subseteq Nat, S # {}
  PROVE  \E x \in S : \A y \in S : x <= y
  <1>1. PICK x \in S : \A y \in S : <<y, x>> \notin OpToRel(<, Nat)
    BY NatLessThanWellFounded, WFMin
  <1>2. ASSUME NEW y \in S PROVE x <= y
    <2>1. <<y, x>> \notin {ss \in Nat \X Nat : ss[1] < ss[2]}
      BY <1>1 DEF OpToRel
    <2>. QED BY <2>1
  <1>. QED BY <1>2

LEMMA Least ==
  ASSUME NEW S, S \subseteq Nat, S # {}
  PROVE  Min(S) \in S /\ \A y \in S : Min(S) <= y
  BY LeastMember DEF Min

LEMMA Greatest ==
  ASSUME NEW n \in Nat, NEW S, S \subseteq 0..n, S # {}
  PROVE  Max(S) \in S /\ \A y \in S : y <= Max(S)
  <1>. DEFINE D == {d \in 0..n : n - d \in S}
  <1>1. D # {}
    <2>1. PICK x \in S : TRUE
      OBVIOUS
    <2>2. x \in 0..n /\ n - x \in 0..n /\ n - (n - x) = x
      BY <2>1
    <2>. QED BY <2>1, <2>2
  <1>2. PICK d \in D : \A y \in D : d <= y
    <2>1. D \subseteq Nat
      OBVIOUS
    <2>. HIDE DEF D
    <2>. QED BY <1>1, <2>1, LeastMember
  <1>3. ASSUME NEW y \in S PROVE y <= n - d
    <2>1. y \in 0..n /\ n - y \in 0..n /\ n - (n - y) = y
      OBVIOUS
    <2>2. n - y \in D /\ d \in 0..n
      BY <2>1
    <2>3. d <= n - y
      BY <1>2, <2>2
    <2>. QED BY <2>1, <2>2, <2>3
  <1>4. n - d \in S
    OBVIOUS
  <1>. QED BY <1>3, <1>4 DEF Max

LEMMA NumbersAreNat ==
  ASSUME NEW n \in Nat, NEW s \in Seq(1..n)
  PROVE  s \in Seq(Nat)
  OBVIOUS

\* The recursion of SumUpTo: its first n steps define a function.
Adds(f, s, n) == f = [k \in 0..n |-> IF k = 0 THEN 0 ELSE f[k - 1] + s[k]]

LEMMA SumsOfPieces ==
  ASSUME NEW s \in Seq(Nat)
  PROVE  \A n \in 0..Len(s) : \E f \in [0..n -> Nat] : Adds(f, s, n)
  <1>. DEFINE Bad == {n \in 0..Len(s) : ~ \E f \in [0..n -> Nat] : Adds(f, s, n)}
  <1>1. SUFFICES ASSUME Bad # {} PROVE FALSE
    OBVIOUS
  <1>2. PICK n \in Bad : \A m \in Bad : n <= m
    <2>1. Bad \subseteq Nat
      OBVIOUS
    <2>. HIDE DEF Bad
    <2>. QED BY <1>1, <2>1, LeastMember
  <1>3. CASE n = 0
    <2>. DEFINE f == [k \in 0..0 |-> 0]
    <2>1. f \in [0..0 -> Nat] /\ Adds(f, s, 0)
      BY DEF Adds
    <2>. QED BY <1>3, <2>1
  <1>4. CASE n # 0
    <2>1. n \in 1..Len(s) /\ n - 1 \in 0..Len(s) /\ ~(n <= n - 1)
      BY <1>4
    <2>2. PICK g \in [0..n - 1 -> Nat] : Adds(g, s, n - 1)
      BY <1>2, <2>1
    <2>. DEFINE f == [k \in 0..n |-> IF k = n THEN g[n - 1] + s[n] ELSE g[k]]
    <2>3. s[n] \in Nat /\ g[n - 1] \in Nat
      <3>1. s[n] \in Nat /\ n - 1 \in 0..n - 1
        BY <2>1
      <3>. QED BY <3>1
    <2>4. f \in [0..n -> Nat]
      BY <2>1, <2>3
    <2>5. \A k \in 0..n - 1 : g[k] = IF k = 0 THEN 0 ELSE g[k - 1] + s[k]
      BY <2>2 DEF Adds
    <2>6. ASSUME NEW k \in 0..n PROVE f[k] = IF k = 0 THEN 0 ELSE f[k - 1] + s[k]
      <3>1. CASE k = n
        <4>1. n # 0 /\ n - 1 \in 0..n /\ n - 1 # n
          BY <2>1
        <4>. QED BY <3>1, <4>1
      <3>2. CASE k # n
        <4>1. k \in 0..n - 1 /\ (k # 0 => k - 1 \in 0..n - 1 /\ k - 1 # n)
          BY <2>1, <3>2
        <4>2. f[k] = g[k] /\ (k # 0 => f[k - 1] = g[k - 1])
          BY <4>1
        <4>. HIDE DEF f
        <4>. QED BY <2>5, <4>1, <4>2
      <3>. QED BY <3>1, <3>2
    <2>. HIDE DEF f
    <2>7. Adds(f, s, n)
      BY <2>4, <2>6 DEF Adds
    <2>. QED BY <2>4, <2>7
  <1>. QED BY <1>3, <1>4

LEMMA SumSteps ==
  ASSUME NEW s \in Seq(Nat)
  PROVE  /\ SumUpTo(s) \in [0..Len(s) -> Nat] /\ SumUpTo(s)[0] = 0
         /\ \A k \in 1..Len(s) : SumUpTo(s)[k] = SumUpTo(s)[k - 1] + s[k]
  <1>. DEFINE n == Len(s)
              b == SumUpTo(s)
  <1>1. b = CHOOSE f : Adds(f, s, n)
    BY DEF SumUpTo, Adds
  <1>2. n \in Nat /\ \E f : Adds(f, s, n)
    BY SumsOfPieces
  <1>3. Adds(b, s, n)
    BY ONLY <1>1, <1>2
  <1>. HIDE DEF n, b
  <1>4. PICK f \in [0..n -> Nat] : Adds(f, s, n)
    BY SumsOfPieces DEF n
  <1>5. \A k \in 0..n : b[k] = IF k = 0 THEN 0 ELSE b[k - 1] + s[k]
    BY <1>3 DEF Adds
  <1>6. \A k \in 0..n : f[k] = IF k = 0 THEN 0 ELSE f[k - 1] + s[k]
    BY <1>4 DEF Adds
  <1>. DEFINE Bad == {k \in 0..n : b[k] # f[k]}
  <1>7. Bad = {}
    <2>1. SUFFICES ASSUME Bad # {} PROVE FALSE
      OBVIOUS
    <2>2. PICK k \in Bad : \A m \in Bad : k <= m
      <3>1. Bad \subseteq Nat
        BY <1>2
      <3>. HIDE DEF Bad
      <3>. QED BY <2>1, <3>1, LeastMember
    <2>3. k # 0 /\ k - 1 \in 0..n /\ ~(k <= k - 1)
      BY <1>2, <1>5, <1>6
    <2>4. b[k - 1] = f[k - 1]
      BY <2>2, <2>3
    <2>. QED BY <1>5, <1>6, <2>3, <2>4
  <1>8. b \in [0..n -> Nat]
    BY <1>3, <1>4, <1>7 DEF Adds
  <1>9. b[0] = 0 /\ \A k \in 1..n : b[k] = b[k - 1] + s[k]
    BY <1>2, <1>5
  <1>. QED BY <1>8, <1>9 DEF n, b

\* Two sums of the same numbers, one ahead by x.
LEMMA SameSums ==
  ASSUME NEW n \in Nat, NEW x \in Nat, NEW f \in [0..n -> Nat], NEW g \in [0..n -> Nat],
         f[0] = g[0] + x,
         \A k \in 1..n : \E y \in Nat : f[k] = f[k - 1] + y /\ g[k] = g[k - 1] + y
  PROVE  f[n] = g[n] + x
  <1>. DEFINE Bad == {k \in 0..n : f[k] # g[k] + x}
  <1>1. Bad \subseteq Nat
    OBVIOUS
  <1>2. ASSUME NEW k \in 0..n, f[k] # g[k] + x, \A m \in 0..n : f[m] # g[m] + x => k <= m
        PROVE  FALSE
    <2>1. k # 0
      BY <1>2
    <2>2. k \in 1..n /\ k - 1 \in 0..n /\ ~(k <= k - 1)
      BY <2>1
    <2>3. f[k - 1] = g[k - 1] + x
      BY <1>2, <2>2
    <2>4. f[k] \in Nat /\ f[k - 1] \in Nat /\ g[k] \in Nat /\ g[k - 1] \in Nat
      BY <2>2
    <2>5. PICK y \in Nat : f[k] = f[k - 1] + y /\ g[k] = g[k - 1] + y
      BY <2>2
    <2>6. f[k] = (g[k - 1] + x) + y
      BY <2>3, <2>5
    <2>7. (g[k - 1] + x) + y = (g[k - 1] + y) + x
      <3>1. \A a, b \in Nat : (a + x) + b = (a + b) + x
        OBVIOUS
      <3>. QED BY ONLY <2>4, <2>5, <3>1, y \in Nat
    <2>8. f[k] = (g[k - 1] + y) + x
      BY ONLY <2>6, <2>7, Zenon
    <2>. QED BY ONLY <1>2, <2>5, <2>8
  <1>3. CASE Bad # {}
    <2>1. \E k \in Bad : \A m \in Bad : k <= m
      <3>. HIDE DEF Bad
      <3>. QED BY <1>1, <1>3, LeastMember
    <2>. QED BY <1>2, <2>1
  <1>4. CASE Bad = {}
    <2>1. n \in 0..n
      OBVIOUS
    <2>. QED BY <1>4, <2>1
  <1>. QED BY <1>3, <1>4

LEMMA SumIsNat ==
  ASSUME NEW s \in Seq(Nat)
  PROVE  Sum(s) \in Nat
  <1>1. Len(s) \in 0..Len(s)
    OBVIOUS
  <1>. QED BY <1>1, SumSteps DEF Sum

LEMMA SumOfNone == Sum(<<>>) = 0
  <1>1. <<>> \in Seq(Nat) /\ Len(<<>>) = 0
    OBVIOUS
  <1>. QED BY <1>1, SumSteps DEF Sum

LEMMA SumOfOne ==
  ASSUME NEW x \in Nat
  PROVE  Sum(<<x>>) = x
  <1>. DEFINE s == <<x>>
              f == SumUpTo(s)
  <1>1. s \in Seq(Nat) /\ Len(s) = 1 /\ s[1] = x /\ 1 - 1 = 0 /\ 1 \in 1..1
    OBVIOUS
  <1>. HIDE DEF s
  <1>2. f[0] = 0 /\ f[1] = f[0] + s[1]
    BY <1>1, SumSteps
  <1>. HIDE DEF f
  <1>3. f[1] = x
    BY <1>1, <1>2
  <1>. QED BY <1>1, <1>3 DEF Sum, f, s

LEMMA SumOfAppend ==
  ASSUME NEW s \in Seq(Nat), NEW x \in Nat
  PROVE  Sum(Append(s, x)) = Sum(s) + x
  <1>. DEFINE t == Append(s, x)
              n == Len(s)
              f == SumUpTo(s)
              g == SumUpTo(t)
  <1>1. /\ t \in Seq(Nat) /\ Len(t) = n + 1 /\ t[n + 1] = x /\ n \in Nat
        /\ \A k \in 1..n : t[k] = s[k]
    OBVIOUS
  <1>. HIDE DEF t, n
  <1>2. f \in [0..n -> Nat] /\ f[0] = 0 /\ \A k \in 1..n : f[k] = f[k - 1] + s[k]
    BY SumSteps DEF n
  <1>3. g \in [0..n + 1 -> Nat] /\ g[0] = 0 /\ \A k \in 1..n + 1 : g[k] = g[k - 1] + t[k]
    BY <1>1, SumSteps
  <1>. HIDE DEF f, g
  <1>. DEFINE h == [k \in 0..n |-> g[k]]
  <1>4. h[n] = f[n] + 0
    <2>1. h \in [0..n -> Nat] /\ h[0] = f[0] + 0
      BY <1>1, <1>2, <1>3
    <2>2. ASSUME NEW k \in 1..n
          PROVE  \E y \in Nat : h[k] = h[k - 1] + y /\ f[k] = f[k - 1] + y
      <3>1. k \in 1..n + 1 /\ k - 1 \in 0..n /\ k \in 0..n /\ k - 1 \in 0..n + 1
        BY <1>1
      <3>2. g[k] = g[k - 1] + s[k] /\ f[k] = f[k - 1] + s[k] /\ s[k] \in Nat
        BY <1>1, <1>2, <1>3, <3>1, SMTT(30) DEF n
      <3>3. g[k - 1] \in Nat /\ f[k - 1] \in Nat
        BY <1>2, <1>3, <3>1
      <3>4. h[k] = g[k] /\ h[k - 1] = g[k - 1]
        BY <3>1
      <3>. HIDE DEF h
      <3>. QED BY <3>2, <3>3, <3>4
    <2>. HIDE DEF h
    <2>. QED BY ONLY <1>1, <1>2, <2>1, <2>2, SameSums, x \in Nat, ZenonT(60)
  <1>5. g[n + 1] = g[n] + x /\ h[n] = g[n] /\ f[n] \in Nat
    <2>1. n + 1 \in 1..n + 1 /\ (n + 1) - 1 = n /\ n \in 0..n
      BY <1>1
    <2>. QED BY <1>1, <1>2, <1>3, <2>1
  <1>. HIDE DEF h
  <1>6. g[n + 1] = f[n] + x
    BY <1>4, <1>5
  <1>. QED BY <1>1, <1>6 DEF Sum, f, g, n, t

LEMMA SumOfTail ==
  ASSUME NEW s \in Seq(Nat), s # <<>>
  PROVE  Sum(s) = Head(s) + Sum(Tail(s)) /\ Tail(s) \in Seq(Nat) /\ Head(s) \in Nat
  <1>. DEFINE t == Tail(s)
              n == Len(t)
              f == SumUpTo(s)
              g == SumUpTo(t)
  <1>1. /\ t \in Seq(Nat) /\ Len(s) = n + 1 /\ Head(s) = s[1] /\ n \in Nat
        /\ \A k \in 1..n : t[k] = s[k + 1]
        /\ Head(s) \in Nat
    OBVIOUS
  <1>. HIDE DEF t, n
  <1>2. g \in [0..n -> Nat] /\ g[0] = 0 /\ \A k \in 1..n : g[k] = g[k - 1] + t[k]
    BY <1>1, SumSteps DEF n
  <1>3. f \in [0..n + 1 -> Nat] /\ f[0] = 0 /\ \A k \in 1..n + 1 : f[k] = f[k - 1] + s[k]
    BY <1>1, SumSteps
  <1>. HIDE DEF f, g
  <1>. DEFINE h == [k \in 0..n |-> f[k + 1]]
  <1>4. h[n] = g[n] + s[1]
    <2>1. h \in [0..n -> Nat] /\ h[0] = g[0] + s[1] /\ s[1] \in Nat
      <3>1. 1 \in 1..n + 1 /\ 1 - 1 = 0 /\ 0 \in 0..n /\ 0 + 1 = 1
        BY <1>1
      <3>2. f[1] = 0 + s[1] /\ s[1] \in Nat
        BY <1>1, <1>3, <3>1
      <3>3. \A k \in 0..n : f[k + 1] \in Nat
        BY <1>1, <1>3
      <3>. QED BY <1>2, <3>1, <3>2, <3>3
    <2>2. ASSUME NEW k \in 1..n
          PROVE  \E y \in Nat : h[k] = h[k - 1] + y /\ g[k] = g[k - 1] + y
      <3>1. /\ k + 1 \in 1..n + 1 /\ k - 1 \in 0..n /\ (k + 1) - 1 = k /\ (k - 1) + 1 = k
            /\ k \in 0..n + 1 /\ k \in 0..n
        BY <1>1
      <3>2. f[k + 1] = f[k] + t[k] /\ g[k] = g[k - 1] + t[k]
        BY <1>1, <1>2, <1>3, <3>1
      <3>3. t[k] \in Nat
        BY <1>1, SMTT(30) DEF n
      <3>4. g[k - 1] \in Nat /\ f[k] \in Nat
        BY <1>2, <1>3, <3>1
      <3>5. h[k] = f[k + 1] /\ h[k - 1] = f[k]
        BY <3>1
      <3>. HIDE DEF h
      <3>. QED BY <3>2, <3>3, <3>4, <3>5
    <2>. HIDE DEF h
    <2>. QED BY ONLY <1>1, <1>2, <2>1, <2>2, SameSums, ZenonT(60)
  <1>5. g[n] \in Nat /\ f[n + 1] = s[1] + g[n]
    <2>1. n \in 0..n
      BY <1>1
    <2>2. g[n] \in Nat /\ h[n] = f[n + 1]
      BY <1>2, <2>1
    <2>. HIDE DEF h
    <2>. QED BY <1>1, <1>4, <2>2
  <1>. QED BY <1>1, <1>5 DEF Sum, f, g, n, t

\* A socket with something in it holds at least a byte.
LEMMA SumIsPositive ==
  ASSUME NEW n \in Nat, NEW s \in Seq(1..n), s # <<>>
  PROVE  Sum(s) \in Nat /\ Sum(s) > 0 /\ Head(s) \in 1..n /\ Head(s) <= Sum(s)
         /\ Tail(s) \in Seq(1..n) /\ Sum(Tail(s)) = Sum(s) - Head(s)
  <1>1. s \in Seq(Nat) /\ Head(s) \in 1..n /\ Tail(s) \in Seq(1..n)
    BY NumbersAreNat
  <1>2. Sum(s) = Head(s) + Sum(Tail(s)) /\ Sum(Tail(s)) \in Nat
    BY <1>1, SumOfTail, SumIsNat
  <1>. QED BY <1>1, <1>2

-----------------------------------------------------------------------------
(* The stream of replies.                                                  *)

LEMMA Constants ==
  /\ MaxPending \in Nat /\ MaxPending > 0 /\ RequestBytes \in Nat /\ RequestBytes > 0
  /\ BufferBytes \in Nat /\ BufferBytes > 0 /\ SendRoom \in Nat /\ SendRoom > 0
  /\ ReceiveRoom \in Nat /\ ReceiveRoom > 0 /\ StoredBytes \in Nat /\ MaxRequests \in Nat
  BY TcpAssumption

Stream == replies \in Seq(SUBSET Nat) /\ StreamInv

LEMMA Ends ==
  ASSUME Stream
  PROVE  /\ Len(replies) \in Nat /\ EndOf(0) = 0
         /\ \A k \in 0..Len(replies) : EndOf(k) \in Nat
         /\ \A k \in 1..Len(replies) :
              /\ EndOf(k) = EndOf(k - 1) + Size(k)
              /\ Size(k) \in Nat /\ Size(k) > 0 /\ Size(k) <= BufferBytes
              /\ EndOf(k - 1) < EndOf(k) /\ EndOf(k) \in replies[k]
              /\ replies[k] \subseteq EndOf(k - 1) + 1 .. EndOf(k)
  <1>1. Len(replies) \in Nat /\ EndOf(0) = 0
    BY DEF Stream, EndOf
  <1>2. ASSUME NEW k \in 1..Len(replies) PROVE EndOf(k) \in Nat
    <2>1. replies[k] \in SUBSET Nat /\ EndOf(k) \in replies[k]
      BY DEF Stream, StreamInv
    <2>. QED BY <2>1
  <1>3. \A k \in 0..Len(replies) : EndOf(k) \in Nat
    <2>. SUFFICES ASSUME NEW k \in 0..Len(replies) PROVE EndOf(k) \in Nat
      OBVIOUS
    <2>1. CASE k = 0
      BY <1>1, <2>1
    <2>2. CASE k # 0
      <3>1. k \in 1..Len(replies)
        BY <1>1, <2>2
      <3>. QED BY <1>2, <3>1
    <2>. QED BY <2>1, <2>2
  <1>4. ASSUME NEW k \in 1..Len(replies)
        PROVE  /\ EndOf(k) = EndOf(k - 1) + Size(k)
               /\ Size(k) \in Nat /\ Size(k) > 0 /\ Size(k) <= BufferBytes
               /\ EndOf(k - 1) < EndOf(k) /\ EndOf(k) \in replies[k]
               /\ replies[k] \subseteq EndOf(k - 1) + 1 .. EndOf(k)
    <2>1. k \in 0..Len(replies) /\ k - 1 \in 0..Len(replies)
      BY <1>1
    <2>2. EndOf(k) \in Nat /\ EndOf(k - 1) \in Nat
      BY <1>3, <2>1
    <2>3. /\ replies[k] \subseteq EndOf(k - 1) + 1 .. EndOf(k)
          /\ EndOf(k) \in replies[k] /\ Size(k) <= BufferBytes
      BY DEF Stream, StreamInv
    <2>4. EndOf(k) \in EndOf(k - 1) + 1 .. EndOf(k) /\ Size(k) = EndOf(k) - EndOf(k - 1)
      BY <2>3 DEF Size
    <2>5. \A a, b \in Nat : a \in b + 1 .. a => a - b \in Nat /\ a - b > 0 /\ a = b + (a - b) /\ b < a
      OBVIOUS
    <2>. QED BY ONLY <2>2, <2>3, <2>4, <2>5
  <1>. QED BY <1>1, <1>3, <1>4

LEMMA Increasing ==
  ASSUME Stream, NEW j \in 0..Len(replies), NEW k \in 0..Len(replies), j < k
  PROVE  EndOf(j) < EndOf(k)
  <1>. DEFINE Bad == {l \in 0..Len(replies) : j < l /\ ~(EndOf(j) < EndOf(l))}
  <1>1. SUFFICES ASSUME Bad # {} PROVE FALSE
    OBVIOUS
  <1>2. PICK l \in Bad : \A m \in Bad : l <= m
    <2>1. Bad \subseteq Nat
      OBVIOUS
    <2>. HIDE DEF Bad
    <2>. QED BY <1>1, <2>1, LeastMember
  <1>3. l \in 1..Len(replies) /\ l - 1 \in 0..Len(replies) /\ ~(l <= l - 1) /\ ~(EndOf(j) < EndOf(l))
    BY Ends
  <1>4. EndOf(l - 1) < EndOf(l) /\ EndOf(l - 1) \in Nat /\ EndOf(l) \in Nat /\ EndOf(j) \in Nat
    BY <1>3, Ends
  <1>5. j = l - 1 \/ EndOf(j) < EndOf(l - 1)
    <2>1. l - 1 \notin Bad
      BY <1>2, <1>3
    <2>2. j < l - 1 \/ j = l - 1
      BY Ends
    <2>. QED BY <1>3, <2>1, <2>2
  <1>. HIDE DEF Bad
  <1>6. EndOf(j) < EndOf(l)
    BY <1>4, <1>5
  <1>. QED BY <1>3, <1>6

LEMMA NotDecreasing ==
  ASSUME Stream, NEW j \in 0..Len(replies), NEW k \in 0..Len(replies), j <= k
  PROVE  EndOf(j) <= EndOf(k)
  <1>1. j = k \/ j < k
    BY Ends
  <1>2. EndOf(j) \in Nat /\ EndOf(k) \in Nat
    BY Ends
  <1>. QED BY <1>1, <1>2, Increasing

\* A line ends where the reply that the byte belongs to ends one.
LEMMA BytesOfReply ==
  ASSUME Stream, NEW k \in 1..Len(replies), NEW i \in EndOf(k - 1) + 1 .. EndOf(k)
  PROVE  /\ ByteAt(i) \in {"newline", "other"}
         /\ ByteAt(i) = "newline" <=> i \in replies[k]
  <1>1. ASSUME NEW l \in 1..Len(replies), i \in replies[l] PROVE l = k
    <2>1. i \in EndOf(l - 1) + 1 .. EndOf(l)
      BY <1>1, Ends
    <2>2. /\ l \in 0..Len(replies) /\ k \in 0..Len(replies)
          /\ l - 1 \in 0..Len(replies) /\ k - 1 \in 0..Len(replies)
          /\ l < k \/ k < l \/ l = k
          /\ l < k => l <= k - 1
          /\ k < l => k <= l - 1
      BY Ends
    <2>3. /\ EndOf(l) \in Nat /\ EndOf(k) \in Nat /\ EndOf(l - 1) \in Nat /\ EndOf(k - 1) \in Nat
          /\ i \in Nat
      BY <2>2, Ends
    <2>4. CASE l < k
      <3>1. EndOf(l) <= EndOf(k - 1)
        BY <2>2, <2>4, NotDecreasing
      <3>. QED BY <2>1, <2>3, <3>1
    <2>5. CASE k < l
      <3>1. EndOf(k) <= EndOf(l - 1)
        BY <2>2, <2>5, NotDecreasing
      <3>. QED BY <2>1, <2>3, <3>1
    <2>. QED BY <2>2, <2>4, <2>5
  <1>. QED BY <1>1 DEF ByteAt

-----------------------------------------------------------------------------
(* The parsers.                                                            *)

Buffers == [1..BufferBytes -> {"nul", "newline", "other"}]

LEMMA CountedIn ==
  ASSUME NEW S, NEW T, IsFiniteSet(T), NEW f \in [S -> T],
         \A x, y \in S : f[x] = f[y] => x = y
  PROVE  /\ IsFiniteSet(S) /\ Cardinality(S) \in Nat /\ Cardinality(S) <= Cardinality(T)
         /\ (\A y \in T : \E x \in S : f[x] = y) => Cardinality(S) = Cardinality(T)
  <1>1. f \in Injection(S, T)
    BY DEF Injection, IsInjective
  <1>2. (\A y \in T : \E x \in S : f[x] = y) => f \in Surjection(S, T)
    BY DEF Surjection
  <1>. QED BY <1>1, <1>2, FS_Injection, FS_CardinalityType

\* strchnth finds the end of a value that is whole, and never takes one that is
\* not for a reply that ends where it has been received.
LEMMA ThirdLineOfReply ==
  ASSUME Stream, NEW k \in 1..Len(replies), Cardinality(replies[k]) = 3,
         NEW b \in Buffers, NEW p \in Nat, NEW n \in Nat, p < n, n <= BufferBytes,
         \A i \in p + 1 .. n : i <= p + Size(k) => b[i] = ByteAt(EndOf(k - 1) + (i - p))
  PROVE  /\ ThirdLine(b, p) \in Nat
         /\ p + Size(k) <= n => ThirdLine(b, p) = Size(k)
         /\ n < p + Size(k) => ThirdLine(b, p) = 0 \/ p + ThirdLine(b, p) > n
  <1>. DEFINE e == EndOf(k - 1)
              z == p + Size(k)
              ends == {i \in p + 1 .. BufferBytes :
                         b[i] = "newline" /\ \A j \in p + 1 .. i : b[j] # "nul"}
              upto(i) == {j \in ends : j <= i}
              third == {i \in ends : Cardinality(upto(i)) = 3}
              R == replies[k]
  <1>1. /\ BufferBytes \in Nat /\ e \in Nat /\ Size(k) \in Nat /\ Size(k) > 0 /\ z \in Nat
        /\ EndOf(k) = e + Size(k) /\ EndOf(k) \in R /\ R \subseteq e + 1 .. e + Size(k)
    <2>1. k - 1 \in 0..Len(replies)
      BY Ends
    <2>. QED BY <2>1, Constants, Ends
  <1>2. ThirdLine(b, p) = IF third = {} THEN 0 ELSE Max(third) - p
    BY DEF ThirdLine
  <1>3. IsFiniteSet(ends) /\ \A i : IsFiniteSet(upto(i)) /\ Cardinality(upto(i)) \in Nat
    <2>1. IsFiniteSet(p + 1 .. BufferBytes)
      BY <1>1, FS_Interval
    <2>2. ends \in SUBSET (p + 1 .. BufferBytes) /\ \A i : upto(i) \in SUBSET ends
      OBVIOUS
    <2>. HIDE DEF ends, upto
    <2>. QED BY <2>1, <2>2, FS_Subset, FS_CardinalityType
  <1>4. IsFiniteSet(R) /\ Cardinality(R) = 3
    <2>1. IsFiniteSet(e + 1 .. e + Size(k))
      BY <1>1, FS_Interval, SMTT(30)
    <2>. HIDE DEF R, e
    <2>2. R \in SUBSET (e + 1 .. e + Size(k))
      BY <1>1
    <2>3. Cardinality(R) = 3
      BY DEF R
    <2>. QED BY <2>1, <2>2, <2>3, FS_Subset
  <1>5. ASSUME NEW i \in p + 1 .. n, i <= z
        PROVE  /\ b[i] # "nul" /\ e + (i - p) \in e + 1 .. e + Size(k)
               /\ b[i] = "newline" <=> e + (i - p) \in R
    <2>1. e + (i - p) \in e + 1 .. e + Size(k)
      BY <1>1, <1>5, SMTT(30)
    <2>2. b[i] = ByteAt(e + (i - p))
      BY <1>5
    <2>. HIDE DEF e
    <2>3. /\ ByteAt(e + (i - p)) \in {"newline", "other"}
          /\ ByteAt(e + (i - p)) = "newline" <=> e + (i - p) \in replies[k]
      BY <1>1, <2>1, BytesOfReply DEF e
    <2>. QED BY <2>1, <2>2, <2>3
  <1>6. ASSUME NEW i \in p + 1 .. n, i <= z PROVE i \in ends <=> e + (i - p) \in R
    <2>1. i \in p + 1 .. BufferBytes
      BY <1>1
    <2>2. \A j \in p + 1 .. i : j \in p + 1 .. n /\ j <= z
      BY <1>1, <1>6, SMTT(30)
    <2>. HIDE DEF e, z, R
    <2>. QED BY <1>5, <1>6, <2>1, <2>2
  <1>7. \A i, j : i \in ends /\ j \in upto(i) => j \in ends /\ j <= i /\ j \in p + 1 .. BufferBytes
    OBVIOUS
  <1>8. third \subseteq ends /\ \A i \in third : Cardinality(upto(i)) = 3
    OBVIOUS
  <1>9. \A i, j : j \in upto(i) <=> j \in ends /\ j <= i
    OBVIOUS
  <1>10. ends \subseteq p + 1 .. BufferBytes
    OBVIOUS
  <1>11. \A i : i \in ends /\ Cardinality(upto(i)) = 3 => i \in third
    OBVIOUS
  <1>. HIDE DEF e, z, ends, upto, third, R
  <1>12. third # {} => Max(third) \in third
    <2>1. third \subseteq 0..BufferBytes
      BY <1>1, <1>8, <1>10
    <2>. QED BY <1>1, <2>1, Greatest
  <1>13. ASSUME NEW i \in ends
         PROVE  /\ i \in Nat /\ i > p /\ i <= BufferBytes
                /\ \A j \in upto(i) : j \in ends /\ j \in Nat /\ j <= i /\ j > p
    <2>1. \A j \in ends : j \in Nat /\ j > p /\ j <= BufferBytes
      <3>1. \A j \in p + 1 .. BufferBytes : j \in Nat /\ j > p /\ j <= BufferBytes
        BY <1>1
      <3>. QED BY <1>10, <3>1
    <2>2. \A j \in upto(i) : j \in ends /\ j <= i
      BY <1>9
    <2>. QED BY <2>1, <2>2
  <1>14. ASSUME NEW S, S \subseteq ends, \A j \in S : j <= n /\ j <= z
         PROVE  /\ [j \in S |-> e + (j - p)] \in [S -> R]
                /\ \A x, y \in S : e + (x - p) = e + (y - p) => x = y
    <2>1. \A j \in S : j \in ends /\ j \in p + 1 .. n /\ j \in Nat
      BY <1>1, <1>10, <1>14
    <2>2. \A j \in S : e + (j - p) \in R
      BY <1>6, <1>14, <2>1
    <2>3. \A x, y \in Nat : e + (x - p) = e + (y - p) => x = y
      BY <1>1
    <2>. QED BY <2>1, <2>2, <2>3
  <1>15. CASE z <= n
    <2>1. z \in p + 1 .. n /\ e + (z - p) = EndOf(k) /\ z <= z
      BY <1>1, <1>15 DEF z
    <2>2. z \in ends
      BY <1>1, <1>6, <2>1
    <2>3. Cardinality(upto(z)) = 3
      <3>. DEFINE f == [j \in upto(z) |-> e + (j - p)]
      <3>1. upto(z) \subseteq ends /\ \A j \in upto(z) : j <= n /\ j <= z
        BY <1>1, <1>9, <1>13, <1>15, <2>2
      <3>2. f \in [upto(z) -> R] /\ \A x, y \in upto(z) : f[x] = f[y] => x = y
        BY <1>14, <3>1
      <3>3. ASSUME NEW y \in R PROVE \E x \in upto(z) : f[x] = y
        <4>1. /\ y \in e + 1 .. e + Size(k) /\ (y - e) + p \in p + 1 .. n
              /\ (y - e) + p <= z /\ e + (((y - e) + p) - p) = y
          <5>1. y \in e + 1 .. e + Size(k)
            BY <1>1
          <5>. QED BY <1>1, <1>15, <5>1 DEF z
        <4>2. (y - e) + p \in upto(z)
          BY <1>6, <1>9, <4>1
        <4>. QED BY <4>1, <4>2
      <3>. HIDE DEF f
      <3>. QED BY <1>4, <3>2, <3>3, CountedIn
    <2>4. ASSUME NEW i \in third PROVE i = z
      <3>1. i \in ends /\ Cardinality(upto(i)) = 3 /\ i \in Nat /\ z \in Nat
        BY <1>1, <1>8, <1>13
      <3>2. CASE i < z
        <4>1. z \in upto(z) /\ upto(i) \in SUBSET (upto(z) \ {z})
          BY <1>9, <1>13, <2>1, <2>2, <3>1, <3>2
        <4>2. Cardinality(upto(z) \ {z}) = 2 /\ IsFiniteSet(upto(z) \ {z})
          BY <1>3, <2>3, <4>1, FS_RemoveElement
        <4>3. Cardinality(upto(i)) <= 2
          BY <4>1, <4>2, FS_Subset
        <4>. QED BY <3>1, <4>3
      <3>3. CASE z < i
        <4>1. i \notin upto(z) /\ upto(z) \cup {i} \in SUBSET upto(i)
          <5>1. i \notin upto(z)
            BY <1>9, <3>1, <3>3
          <5>2. i \in upto(i)
            BY <1>9, <3>1
          <5>3. ASSUME NEW j \in upto(z) PROVE j \in upto(i)
            <6>1. j \in ends /\ j \in Nat /\ j <= z
              BY <1>13, <2>2
            <6>2. j <= i
              BY <3>1, <3>3, <6>1
            <6>. QED BY <1>9, <6>1, <6>2
          <5>. QED BY <5>1, <5>2, <5>3
        <4>2. Cardinality(upto(z) \cup {i}) = 4
          <5>1. IsFiniteSet(upto(z))
            BY <1>3
          <5>2. Cardinality(upto(z) \cup {i}) = Cardinality(upto(z)) + 1
            BY <4>1, <5>1, FS_AddElement
          <5>. QED BY <2>3, <5>2
        <4>3. 4 <= Cardinality(upto(i))
          BY <1>3, <4>1, <4>2, FS_Subset
        <4>. QED BY <3>1, <4>3
      <3>. QED BY <3>1, <3>2, <3>3
    <2>5. z \in third
      BY <1>11, <2>2, <2>3
    <2>6. Max(third) = z /\ third # {}
      BY <1>12, <2>4, <2>5
    <2>7. ThirdLine(b, p) = Size(k)
      BY <1>1, <1>2, <2>6 DEF z
    <2>. QED BY <1>1, <1>15, <2>7 DEF z
  <1>16. CASE n < z
    <2>1. ASSUME NEW i \in third, i <= n PROVE FALSE
      <3>. DEFINE S == upto(i)
                  T == R \ {EndOf(k)}
                  f == [j \in S |-> e + (j - p)]
      <3>1. i \in ends /\ Cardinality(S) = 3
        BY <1>8
      <3>2. \A j \in S : j \in ends /\ j \in Nat /\ j <= n /\ j <= z /\ j < z /\ j > p
        BY <1>1, <1>13, <1>16, <2>1, <3>1
      <3>3. f \in [S -> R] /\ \A x, y \in S : f[x] = f[y] => x = y
        BY <1>14, <3>2
      <3>4. \A j \in S : e + (j - p) # EndOf(k)
        BY <1>1, <3>2 DEF z
      <3>5. f \in [S -> T]
        BY <3>3, <3>4
      <3>6. IsFiniteSet(T) /\ Cardinality(T) = 2
        <4>1. Cardinality(R \ {EndOf(k)}) = Cardinality(R) - 1 /\ IsFiniteSet(R \ {EndOf(k)})
          BY <1>1, <1>4, FS_RemoveElement
        <4>. QED BY <1>4, <4>1
      <3>. HIDE DEF f, S, T
      <3>7. Cardinality(S) <= 2
        BY <3>3, <3>5, <3>6, CountedIn
      <3>. QED BY <3>1, <3>7
    <2>2. CASE third = {}
      BY <1>1, <1>2, <1>16, <2>2 DEF z
    <2>3. CASE third # {}
      <3>1. Max(third) \in ends /\ ~(Max(third) <= n) /\ Max(third) \in Nat /\ Max(third) > p
        BY <1>8, <1>12, <1>13, <2>1, <2>3
      <3>2. ThirdLine(b, p) = Max(third) - p
        BY <1>2, <2>3
      <3>3. ThirdLine(b, p) \in Nat /\ p + ThirdLine(b, p) > n
        BY <3>1, <3>2
      <3>. QED BY <1>1, <1>16, <3>3 DEF z
    <2>. QED BY <2>2, <2>3
  <1>. QED BY <1>1, <1>15, <1>16

\* The first n bytes of b are those that follow the replies counted.
Given(b, n) ==
  /\ Stream /\ answered \in 0..Len(replies) /\ proto \in {"counted", "http", "ascii"}
  /\ b \in Buffers /\ n \in 1..BufferBytes
  /\ EndOf(answered) + n <= EndOf(Len(replies))
  /\ proto = "ascii" => \A i \in 1..n : b[i] = ByteAt(EndOf(answered) + i)

\* Where the i-th of the replies in the buffer ends.
Off(i) == EndOf(answered + i) - EndOf(answered)

LEMMA Parsed ==
  ASSUME NEW b, NEW n, Given(b, n)
  PROVE  /\ Parses \in Nat /\ answered + Parses <= Len(replies) /\ answered < Len(replies)
         /\ proto = "http" => Parses = 1
         /\ proto # "http" => answered + Parses = Len(replies)
         /\ answered \in Nat /\ n \in Nat /\ n > 0 /\ n <= BufferBytes /\ BufferBytes \in Nat
  <1>1. /\ answered \in 0..Len(replies) /\ n \in 1..BufferBytes /\ BufferBytes \in Nat
        /\ EndOf(answered) + n <= EndOf(Len(replies)) /\ Stream
    BY Constants DEF Given
  <1>2. Len(replies) \in Nat /\ EndOf(answered) \in Nat
    BY <1>1, Ends
  <1>3. answered # Len(replies)
    BY <1>1, <1>2
  <1>4. answered < Len(replies) /\ answered + 1 <= Len(replies)
    BY <1>1, <1>2, <1>3
  <1>. QED BY <1>1, <1>2, <1>4 DEF Parses

LEMMA Offsets ==
  ASSUME NEW b, NEW n, Given(b, n)
  PROVE  /\ Off(0) = 0
         /\ \A i \in 0..Parses : Off(i) \in Nat
         /\ \A i \in 1..Parses : /\ i - 1 \in 0..Parses /\ answered + i \in 1..Len(replies)
                                 /\ Size(answered + i) \in Nat /\ Size(answered + i) > 0
                                 /\ Off(i) = Off(i - 1) + Size(answered + i)
                                 /\ EndOf((answered + i) - 1) = EndOf(answered) + Off(i - 1)
  <1>1. /\ Parses \in Nat /\ answered + Parses <= Len(replies) /\ answered \in Nat /\ Stream
        /\ Len(replies) \in Nat
    BY Parsed, Ends DEF Given
  <1>2. ASSUME NEW i \in 0..Parses PROVE Off(i) \in Nat /\ EndOf(answered + i) = EndOf(answered) + Off(i)
    <2>1. answered + i \in 0..Len(replies) /\ answered \in 0..Len(replies) /\ answered <= answered + i
      BY <1>1
    <2>2. EndOf(answered) \in Nat /\ EndOf(answered + i) \in Nat /\ EndOf(answered) <= EndOf(answered + i)
      BY <1>1, <2>1, Ends, NotDecreasing
    <2>3. \A x, y \in Nat : x <= y => y - x \in Nat /\ y = x + (y - x)
      OBVIOUS
    <2>. QED BY ONLY <2>2, <2>3 DEF Off
  <1>3. Off(0) = 0
    <2>1. 0 \in 0..Parses /\ answered + 0 = answered /\ answered \in 0..Len(replies)
      BY <1>1
    <2>2. EndOf(answered) \in Nat
      BY <1>1, <2>1, Ends
    <2>. QED BY <2>1, <2>2 DEF Off
  <1>4. ASSUME NEW i \in 1..Parses
        PROVE  /\ i - 1 \in 0..Parses /\ answered + i \in 1..Len(replies)
               /\ Size(answered + i) \in Nat /\ Size(answered + i) > 0
               /\ Off(i) = Off(i - 1) + Size(answered + i)
               /\ EndOf((answered + i) - 1) = EndOf(answered) + Off(i - 1)
    <2>1. /\ i - 1 \in 0..Parses /\ i \in 0..Parses /\ answered + i \in 1..Len(replies)
          /\ (answered + i) - 1 = answered + (i - 1) /\ answered \in 0..Len(replies)
      BY <1>1
    <2>2. /\ Size(answered + i) \in Nat /\ Size(answered + i) > 0
          /\ EndOf(answered + i) = EndOf((answered + i) - 1) + Size(answered + i)
      BY <1>1, <2>1, Ends
    <2>3. /\ EndOf(answered + i) = EndOf(answered) + Off(i) /\ Off(i) \in Nat
          /\ EndOf(answered + (i - 1)) = EndOf(answered) + Off(i - 1) /\ Off(i - 1) \in Nat
      BY <1>2, <2>1
    <2>4. EndOf(answered) \in Nat
      BY <1>1, <2>1, Ends
    <2>5. EndOf((answered + i) - 1) = EndOf(answered) + Off(i - 1)
      BY <2>1, <2>3
    <2>6. EndOf(answered) + Off(i) = (EndOf(answered) + Off(i - 1)) + Size(answered + i)
      BY <2>2, <2>3, <2>5
    <2>7. \A w, x, y, z \in Nat : w + x = (w + y) + z => x = y + z
      OBVIOUS
    <2>8. Off(i) = Off(i - 1) + Size(answered + i)
      BY ONLY <2>2, <2>3, <2>4, <2>6, <2>7
    <2>. QED BY <2>1, <2>2, <2>5, <2>8
  <1>. QED BY <1>2, <1>3, <1>4

\* A parser takes a reply for as long as it is, or for none when it is not
\* whole; or the text parser takes more bytes than have come.
LEMMA LengthOfReply ==
  ASSUME NEW b, NEW n, Given(b, n), NEW i \in 1..Parses, Off(i - 1) < n
  PROVE  LET p == Off(i - 1)
             k == answered + i
             l == ReplyLength(b, p, n - p, k)
         IN  \/ l = Size(k) /\ p + Size(k) <= n
             \/ l = 0 /\ n < p + Size(k)
             \/ proto = "ascii" /\ l \in Nat /\ l > 0 /\ p + l > n
  <1>. DEFINE p == Off(i - 1)
              k == answered + i
              l == ReplyLength(b, p, n - p, k)
  <1>1. /\ Stream /\ k \in 1..Len(replies) /\ Size(k) \in Nat /\ Size(k) > 0
        /\ p \in Nat /\ n \in Nat /\ p < n /\ n <= BufferBytes /\ BufferBytes \in Nat
        /\ EndOf(k - 1) = EndOf(answered) + p /\ b \in Buffers /\ EndOf(answered) \in Nat
    <2>1. EndOf(answered) \in Nat /\ Stream
      BY Ends DEF Given
    <2>. QED BY <2>1, Offsets, Parsed DEF Given
  <1>2. EndOf(k) - EndOf(k - 1) = Size(k)
    BY DEF Size
  <1>3. CASE ~(proto = "ascii" /\ Cardinality(replies[k]) = 3)
    <2>1. l = IF n - p < Size(k) THEN 0 ELSE Size(k)
      BY <1>2, <1>3 DEF ReplyLength
    <2>. HIDE DEF p, k, l
    <2>2. \/ l = Size(k) /\ p + Size(k) <= n
          \/ l = 0 /\ n < p + Size(k)
      BY <1>1, <2>1
    <2>. QED BY <2>2 DEF p, k, l
  <1>4. CASE proto = "ascii" /\ Cardinality(replies[k]) = 3
    <2>1. l = IF n - p < StoredBytes THEN 0 ELSE ThirdLine(b, p)
      BY <1>4 DEF ReplyLength
    <2>2. StoredBytes \in Nat /\ StoredBytes <= Size(k)
      BY <1>1, <1>4, Constants DEF Stream, StreamInv
    <2>3. \A j \in p + 1 .. n : j <= p + Size(k) => b[j] = ByteAt(EndOf(k - 1) + (j - p))
      <3>. HIDE DEF k
      <3>1. ASSUME NEW j \in p + 1 .. n PROVE b[j] = ByteAt(EndOf(k - 1) + (j - p))
        <4>1. j \in 1..n /\ EndOf(k - 1) + (j - p) = EndOf(answered) + j
          <5>. HIDE DEF p
          <5>. QED BY <1>1
        <4>2. b[j] = ByteAt(EndOf(answered) + j)
          BY <1>4, <4>1 DEF Given
        <4>. QED BY <4>1, <4>2
      <3>. QED BY <3>1
    <2>. HIDE DEF p, k, l
    <2>4. /\ ThirdLine(b, p) \in Nat
          /\ p + Size(k) <= n => ThirdLine(b, p) = Size(k)
          /\ n < p + Size(k) => ThirdLine(b, p) = 0 \/ p + ThirdLine(b, p) > n
      BY <1>1, <1>4, <2>3, ThirdLineOfReply
    <2>5. \/ l = Size(k) /\ p + Size(k) <= n
          \/ l = 0 /\ n < p + Size(k)
          \/ proto = "ascii" /\ l \in Nat /\ l > 0 /\ p + l > n
      <3>1. CASE p + Size(k) <= n
        BY <1>1, <2>1, <2>2, <2>4, <3>1
      <3>2. CASE n < p + Size(k)
        BY <1>1, <1>4, <2>1, <2>2, <2>4, <3>2
      <3>. QED BY <1>1, <3>1, <3>2
    <2>. QED BY <2>5 DEF p, k, l
  <1>. QED BY <1>3, <1>4

\* The recursion of Position: its first m steps define a function.
Finds(f, b, n, m) ==
  f = [i \in 0..m |->
         IF i = 0 THEN 0
         ELSE LET p == f[i - 1]
              IN  IF p >= n THEN p ELSE p + ReplyLength(b, p, n - p, answered + i)]

LEMMA FindsAreFunctions ==
  ASSUME NEW b, NEW n, NEW e \in Nat
  PROVE  \E f : Finds(f, b, n, e)
  <1>. DEFINE Next1(p, i) == IF p >= n THEN p ELSE p + ReplyLength(b, p, n - p, answered + i)
              Bad == {m \in 0..e : ~ \E f : Finds(f, b, n, m)}
  <1>1. \A f, m : Finds(f, b, n, m) <=>
                    f = [i \in 0..m |-> IF i = 0 THEN 0 ELSE Next1(f[i - 1], i)]
    BY DEF Finds
  <1>. HIDE DEF Next1
  <1>2. CASE Bad = {}
    BY <1>2
  <1>3. CASE Bad # {}
    <2>1. PICK m \in Bad : \A k \in Bad : m <= k
      <3>1. Bad \subseteq Nat
        OBVIOUS
      <3>. HIDE DEF Bad
      <3>. QED BY <1>3, <3>1, LeastMember
    <2>2. CASE m = 0
      <3>. DEFINE f == [i \in 0..0 |-> 0]
      <3>1. f = [i \in 0..0 |-> IF i = 0 THEN 0 ELSE Next1(f[i - 1], i)]
        OBVIOUS
      <3>. QED BY <1>1, <2>2, <3>1
    <2>3. CASE m # 0
      <3>1. m \in 1..e /\ m - 1 \in 0..e /\ ~(m <= m - 1)
        BY <2>3
      <3>2. PICK g : Finds(g, b, n, m - 1)
        BY <2>1, <3>1
      <3>3. g = [i \in 0..m - 1 |-> IF i = 0 THEN 0 ELSE Next1(g[i - 1], i)]
        BY <1>1, <3>2
      <3>. DEFINE f == [i \in 0..m |-> IF i = m THEN Next1(g[m - 1], m) ELSE g[i]]
      <3>4. ASSUME NEW i \in 0..m PROVE f[i] = IF i = 0 THEN 0 ELSE Next1(f[i - 1], i)
        <4>1. CASE i = m
          <5>1. i # 0 /\ i - 1 \in 0..m /\ i - 1 # m
            BY <3>1, <4>1
          <5>2. f[i - 1] = g[m - 1] /\ f[i] = Next1(g[m - 1], m)
            BY <4>1, <5>1
          <5>. HIDE DEF f
          <5>. QED BY <4>1, <5>1, <5>2
        <4>2. CASE i # m
          <5>1. i \in 0..m - 1 /\ (i # 0 => i - 1 \in 0..m /\ i - 1 # m)
            BY <3>1, <4>2
          <5>2. f[i] = g[i] /\ (i # 0 => f[i - 1] = g[i - 1])
            BY <4>2, <5>1
          <5>3. g[i] = IF i = 0 THEN 0 ELSE Next1(g[i - 1], i)
            BY <3>3, <5>1
          <5>. HIDE DEF f
          <5>. QED BY <5>2, <5>3
        <4>. QED BY <4>1, <4>2
      <3>5. f = [i \in 0..m |-> f[i]]
        OBVIOUS
      <3>. HIDE DEF f
      <3>6. f = [i \in 0..m |-> IF i = 0 THEN 0 ELSE Next1(f[i - 1], i)]
        BY <3>4, <3>5
      <3>. QED BY <1>1, <3>6
    <2>. QED BY <2>2, <2>3
  <1>. QED BY <1>2, <1>3

LEMMA Positions ==
  ASSUME NEW b, NEW n, Parses \in Nat
  PROVE  /\ Position(b, n)[0] = 0
         /\ \A i \in 1..Parses :
              Position(b, n)[i] =
                LET p == Position(b, n)[i - 1]
                IN  IF p >= n THEN p ELSE p + ReplyLength(b, p, n - p, answered + i)
  <1>. DEFINE pos == Position(b, n)
              e == Parses
  <1>1. pos = CHOOSE f : Finds(f, b, n, e)
    BY DEF Position, Finds
  <1>2. \E f : Finds(f, b, n, e)
    <2>1. e \in Nat
      OBVIOUS
    <2>. HIDE DEF e
    <2>. QED BY <2>1, FindsAreFunctions
  <1>3. Finds(pos, b, n, e)
    <2>. HIDE DEF pos, e
    <2>. QED BY ONLY <1>1, <1>2, Zenon
  <1>4. 0 \in 0..e /\ \A i \in 1..e : i \in 0..e /\ i # 0
    OBVIOUS
  <1>. HIDE DEF pos, e
  <1>5. /\ pos[0] = 0
        /\ \A i \in 1..e :
             pos[i] = LET p == pos[i - 1]
                      IN  IF p >= n THEN p ELSE p + ReplyLength(b, p, n - p, answered + i)
    BY <1>3, <1>4 DEF Finds
  <1>. QED BY <1>5 DEF pos, e

\* The i-th position is where the i-th reply ends, or past what has come.
InStep(pos, n, i) ==
  /\ \/ pos[i] = Off(i) /\ Off(i) <= n
     \/ proto = "ascii" /\ pos[i] \in Nat /\ pos[i] > n
  /\ i > 0 => pos[i] > pos[i - 1]

LEMMA PositionsInStep ==
  ASSUME NEW b, NEW n, Given(b, n), NEW e \in 0..Parses,
         \A j \in 1..e : \/ Position(b, n)[j] # Position(b, n)[j - 1]
                         \/ Position(b, n)[j] > Position(b, n)[j - 1]
  PROVE  \A i \in 0..e : InStep(Position(b, n), n, i)
  <1>. DEFINE pos == Position(b, n)
              Bad == {i \in 0..e : ~InStep(pos, n, i)}
  <1>1. /\ Parses \in Nat /\ e \in Nat /\ n \in Nat /\ n > 0 /\ \A i \in 1..e : i \in 1..Parses
        /\ \A i \in 0..e : i \in 0..Parses
    BY Parsed
  <1>2. /\ pos[0] = 0
        /\ \A i \in 1..Parses :
             pos[i] = LET p == pos[i - 1]
                      IN  IF p >= n THEN p ELSE p + ReplyLength(b, p, n - p, answered + i)
    BY <1>1, Positions
  <1>3. \A j \in 1..e : pos[j] # pos[j - 1] \/ pos[j] > pos[j - 1]
    OBVIOUS
  <1>. HIDE DEF pos
  <1>4. CASE Bad = {}
    BY <1>4 DEF pos
  <1>5. CASE Bad # {}
    <2>1. PICK i \in 0..e : ~InStep(pos, n, i) /\ \A k \in 0..e : ~InStep(pos, n, k) => i <= k
      <3>1. Bad \subseteq Nat
        BY <1>1
      <3>2. \E i \in Bad : \A k \in Bad : i <= k
        <4>. HIDE DEF Bad
        <4>. QED BY <1>5, <3>1, LeastMember
      <3>. QED BY <3>2
    <2>2. CASE i = 0
      <3>1. pos[i] = Off(i) /\ Off(i) <= n /\ ~(i > 0)
        BY <1>1, <1>2, <2>2, Offsets
      <3>. QED BY <2>1, <3>1 DEF InStep
    <2>3. CASE i # 0
      <3>1. i \in 1..e /\ i - 1 \in 0..e /\ ~(i <= i - 1)
        BY <1>1, <2>3
      <3>2. InStep(pos, n, i - 1)
        BY <2>1, <3>1
      <3>3. Off(i - 1) \in Nat /\ Off(i) = Off(i - 1) + Size(answered + i) /\ Size(answered + i) \in Nat
        BY <1>1, <3>1, Offsets
      <3>4. pos[i - 1] \in Nat /\ (pos[i - 1] < n => pos[i - 1] = Off(i - 1))
        BY <1>1, <3>2, <3>3 DEF InStep
      <3>5. pos[i] = IF pos[i - 1] >= n THEN pos[i - 1]
                     ELSE pos[i - 1] + ReplyLength(b, pos[i - 1], n - pos[i - 1], answered + i)
        BY <1>1, <1>2, <3>1
      <3>6. pos[i] # pos[i - 1]
        BY <1>3, <3>1, <3>4
      <3>7. pos[i - 1] < n /\ pos[i - 1] = Off(i - 1)
        BY <1>1, <3>4, <3>5, <3>6
      <3>. DEFINE p == Off(i - 1)
                  l == ReplyLength(b, p, n - p, answered + i)
                  s == Size(answered + i)
      <3>8. pos[i] = p + l /\ pos[i - 1] = p /\ p \in Nat /\ p < n
        BY <1>1, <3>3, <3>5, <3>7
      <3>9. \/ l = s /\ p + s <= n
            \/ l = 0 /\ n < p + s
            \/ proto = "ascii" /\ l \in Nat /\ l > 0 /\ p + l > n
        BY <1>1, <3>1, <3>8, LengthOfReply
      <3>10. Off(i) = p + s /\ s \in Nat /\ s > 0
        BY <1>1, <3>1, <3>3, Offsets
      <3>. HIDE DEF p, l, s
      <3>11. \/ pos[i] = Off(i) /\ Off(i) <= n /\ pos[i] > pos[i - 1]
             \/ proto = "ascii" /\ pos[i] \in Nat /\ pos[i] > n /\ pos[i] > pos[i - 1]
        BY <1>1, <3>6, <3>8, <3>9, <3>10
      <3>. QED BY <2>1, <3>11 DEF InStep
    <2>. QED BY <2>2, <2>3
  <1>. QED BY <1>4, <1>5

\* What consume_response takes: whole replies, and all of those that are in the
\* buffer if it takes more than one at a time; or more bytes than there are.
LEMMA ConsumeWhole ==
  ASSUME NEW b, NEW n, Given(b, n)
  PROVE  LET res == Consume(b, n)
         IN  /\ res.reqs \in 0..Parses /\ res.bytes \in Nat
             /\ \/ /\ res.bytes = Off(res.reqs) /\ res.bytes <= n
                   /\ answered + res.reqs < Len(replies) /\ (proto # "http" \/ res.reqs = 0) =>
                        n - res.bytes < Size((answered + res.reqs) + 1)
                \/ proto = "ascii" /\ res.bytes > n
  <1>. DEFINE pos == Position(b, n)
              Stops(i) == i = Parses \/ pos[i + 1] = pos[i]
              Last(i) == (\A j \in 1..i : pos[j] > pos[j - 1]) /\ Stops(i)
              last == CHOOSE i \in 0..Parses : Last(i)
  <1>1. Consume(b, n) = [bytes |-> pos[last], reqs |-> last]
    BY DEF Consume
  <1>2. /\ Parses \in Nat /\ answered + Parses <= Len(replies) /\ answered \in Nat
        /\ n \in Nat /\ n > 0 /\ Len(replies) \in Nat
        /\ proto = "http" => Parses = 1
        /\ proto # "http" => answered + Parses = Len(replies)
    BY Parsed, Ends DEF Given
  <1>3. ASSUME NEW e \in 0..Parses,
               \A j \in 1..e : pos[j] # pos[j - 1] \/ pos[j] > pos[j - 1]
        PROVE  \A i \in 0..e : InStep(pos, n, i)
    BY <1>3, PositionsInStep
  <1>4. last \in 0..Parses /\ Last(last)
    <2>. DEFINE S == {i \in 0..Parses : Stops(i)}
    <2>1. Parses \in S
      BY <1>2
    <2>2. PICK i \in 0..Parses : Stops(i) /\ \A k \in 0..Parses : Stops(k) => i <= k
      <3>1. S \subseteq Nat
        BY <1>2
      <3>2. \E i \in S : \A k \in S : i <= k
        <4>. HIDE DEF S
        <4>. QED BY <2>1, <3>1, LeastMember
      <3>. QED BY <3>2
    <2>3. ASSUME NEW j \in 1..i PROVE pos[j] # pos[j - 1]
      <3>1. j - 1 \in 0..Parses /\ ~(i <= j - 1) /\ (j - 1) + 1 = j
        BY <1>2
      <3>. QED BY <2>2, <3>1
    <2>4. \A j \in 0..i : InStep(pos, n, j)
      BY <1>3, <2>3
    <2>5. \A j \in 1..i : pos[j] > pos[j - 1]
      BY <1>2, <2>4 DEF InStep
    <2>6. Last(i)
      BY <2>2, <2>5
    <2>. HIDE DEF Last
    <2>. QED BY <2>6
  <1>. HIDE DEF last
  <1>5. InStep(pos, n, last)
    <2>1. last \in 0..last
      BY <1>2, <1>4
    <2>2. \A i \in 0..last : InStep(pos, n, i)
      BY <1>3, <1>4
    <2>. QED BY <2>1, <2>2
  <1>. HIDE DEF pos
  <1>6. Off(last) \in Nat
    BY <1>4, Offsets
  <1>7. CASE proto = "ascii" /\ pos[last] \in Nat /\ pos[last] > n
    BY <1>1, <1>4, <1>7
  <1>8. CASE pos[last] = Off(last) /\ Off(last) <= n
    <2>1. ASSUME answered + last < Len(replies), proto # "http" \/ last = 0
          PROVE  n - pos[last] < Size((answered + last) + 1)
      <3>1. last # Parses /\ last + 1 \in 1..Parses /\ (last + 1) - 1 = last
            /\ answered + (last + 1) = (answered + last) + 1
        BY <1>2, <1>4, <2>1
      <3>2. pos[last + 1] = pos[last]
        BY <1>4, <3>1
      <3>. DEFINE p == Off(last)
                  l == ReplyLength(b, p, n - p, answered + (last + 1))
                  s == Size(answered + (last + 1))
      <3>3. s \in Nat /\ s > 0
        BY <3>1, Offsets
      <3>4. CASE p >= n
        <4>. HIDE DEF p, s
        <4>1. n - p < s
          BY <1>2, <1>6, <1>8, <3>3, <3>4 DEF p
        <4>. QED BY <1>8, <3>1, <4>1 DEF p, s
      <3>5. CASE p < n
        <4>1. pos[last + 1] = IF pos[last] >= n THEN pos[last]
                              ELSE pos[last] + ReplyLength(b, pos[last], n - pos[last], answered + (last + 1))
          BY <1>2, <3>1, Positions DEF pos
        <4>2. p = p + l
          BY <1>2, <1>6, <1>8, <3>2, <3>5, <4>1
        <4>3. \/ l = s /\ p + s <= n
              \/ l = 0 /\ n < p + s
              \/ proto = "ascii" /\ l \in Nat /\ l > 0 /\ p + l > n
          BY <3>1, <3>5, LengthOfReply
        <4>. HIDE DEF p, l, s
        <4>4. n < p + s
          BY <1>2, <1>6, <3>3, <4>2, <4>3 DEF p
        <4>5. n - p < s
          BY <1>2, <1>6, <3>3, <4>4 DEF p
        <4>. QED BY <1>8, <3>1, <4>5 DEF p, s
      <3>. QED BY <1>2, <1>6, <3>4, <3>5
    <2>. QED BY <1>1, <1>4, <1>6, <1>8, <2>1
  <1>. QED BY <1>5, <1>7, <1>8 DEF InStep

-----------------------------------------------------------------------------
(* What an action leaves alone.                                            *)

LEMMA SameEnds ==
  ASSUME replies' = replies
  PROVE  \A k : EndOf(k)' = EndOf(k) /\ Size(k)' = Size(k)
  BY DEF EndOf, Size

LEMMA SameStream ==
  ASSUME UNCHANGED <<replies, proto>>, StreamInv
  PROVE  StreamInv'
  BY DEF StreamInv, EndOf, Size

LEMMA SameWire ==
  ASSUME UNCHANGED <<wire, held, emitted, mode>>, WireInv
  PROVE  WireInv'
  BY DEF WireInv, Sum, SumUpTo

LEMMA SameServer ==
  ASSUME UNCHANGED <<srvRead, replies, issued, written, left>>, peerOpen' => peerOpen, ServerInv
  PROVE  ServerInv'
  BY DEF ServerInv, Done

LEMMA SameBuffer ==
  ASSUME UNCHANGED <<emitted, wire, held, answered, bidx, buf, replies, proto, mode>>,
         pc' # "aborted" => pc # "aborted", BufferInv
  PROVE  BufferInv'
  BY DEF BufferInv, got, Sum, SumUpTo, EndOf, Size, OneByOne, ByteAt

-----------------------------------------------------------------------------
(* The invariant holds at first.                                           *)

LEMMA InitIInv == Init => IInv
  <1>. SUFFICES ASSUME Init PROVE IInv
    OBVIOUS
  <1>. USE DEF Init
  <1>1. replies = <<>> /\ Len(replies) = 0 /\ replies \in Seq(SUBSET Nat)
    OBVIOUS
  <1>2. Sum(wire) = 0 /\ got = 0 /\ EndOf(0) = 0 /\ EndOf(Len(replies)) = 0
    BY <1>1, SumOfNone DEF got, EndOf
  <1>3. TypeOK
    <2>1. /\ left \in 0..RequestBytes /\ pending \in 0..MaxPending /\ bidx \in 0..BufferBytes
          /\ bidx < BufferBytes /\ issued \in 0..MaxRequests /\ held \in 0..ReceiveRoom
          /\ written - srvRead <= SendRoom /\ srvRead \in 0..written
      BY Constants
    <2>2. /\ buf \in [1..BufferBytes -> {"nul", "newline", "other"}]
          /\ slot \in [Ring -> 0..issued] /\ consumed \in 0..pushed /\ pushed \in 0..issued
      OBVIOUS
    <2>3. /\ sample \in [reply : 0..answered, request : 0..issued, timely : BOOLEAN]
          /\ answered \in 0..Len(replies) /\ emitted \in 0..EndOf(Len(replies))
          /\ wire \in Seq(1..ReceiveRoom)
      BY <1>1, <1>2
    <2>. QED BY <1>1, <2>1, <2>2, <2>3 DEF TypeOK
  <1>4. StreamInv
    BY <1>1 DEF StreamInv
  <1>5. WireInv
    BY <1>2, Constants DEF WireInv
  <1>6. ServerInv
    <2>1. 0 \in 0..RequestBytes - 1 /\ 0 = 0 * RequestBytes + 0 /\ 0 + 0 = 0 * RequestBytes
      BY Constants
    <2>. QED BY <1>1, <2>1 DEF ServerInv, Done
  <1>7. RequestInv /\ LatencyInv /\ AbortInv /\ SamplesTimely
    BY Constants DEF RequestInv, Done, LatencyInv, AbortInv, SamplesTimely
  <1>8. BufferInv
    BY <1>1, <1>2 DEF BufferInv
  <1>. QED BY <1>3, <1>4, <1>5, <1>6, <1>7, <1>8 DEF IInv

-----------------------------------------------------------------------------
(* Writing a request keeps it.                                             *)

\* The counters, with their ranges.
LEMMA Counters ==
  ASSUME TypeOK
  PROVE  /\ left \in Nat /\ left <= RequestBytes /\ pending \in Nat /\ pending <= MaxPending
         /\ bidx \in Nat /\ bidx <= BufferBytes /\ consumed \in Nat /\ pushed \in Nat
         /\ consumed <= pushed /\ pushed <= issued /\ issued \in Nat /\ issued <= MaxRequests
         /\ answered \in Nat /\ Len(replies) \in Nat /\ answered <= Len(replies)
         /\ written \in Nat /\ srvRead \in Nat /\ srvRead <= written
         /\ written - srvRead <= SendRoom /\ held \in Nat /\ held <= ReceiveRoom
  <1>1. Len(replies) \in Nat /\ answered \in 0..Len(replies)
    BY DEF TypeOK
  <1>2. /\ left \in 0..RequestBytes /\ pending \in 0..MaxPending /\ bidx \in 0..BufferBytes
        /\ consumed \in 0..pushed /\ pushed \in 0..issued /\ issued \in 0..MaxRequests
        /\ srvRead \in 0..written /\ written - srvRead <= SendRoom /\ held \in 0..ReceiveRoom
    BY DEF TypeOK
  <1>3. written \in Nat
    BY DEF TypeOK
  <1>. QED BY <1>1, <1>2, <1>3, Constants

LEMMA StartRequestKeeps ==
  ASSUME IInv, StartRequest
  PROVE  IInv'
  <1>1. /\ pc = "loop" /\ pending < MaxPending /\ ~closed /\ issued < MaxRequests
        /\ pc' = "send" /\ left' = RequestBytes /\ issued' = issued + 1
    BY DEF StartRequest, Pickable
  <1>2. UNCHANGED <<mode, proto, pending, closed, bidx, buf, pushed, consumed, slot,
                    sample, answered, written, srvRead, replies, emitted, wire, held,
                    peerOpen>>
    BY DEF StartRequest, network
  <1>3. TypeOK /\ RequestInv /\ left = 0
    BY <1>1, Counters DEF IInv, RequestInv
  <1>4. Done = issued /\ Done' = issued
    <2>1. issued \in Nat
      BY <1>3, Counters
    <2>2. RequestBytes \in Nat /\ RequestBytes > 0
      BY Constants
    <2>3. left' > 0 /\ ~(left > 0)
      <3>1. left' = RequestBytes /\ left = 0
        BY <1>1, <1>3
      <3>. QED BY ONLY <2>2, <3>1
    <2>. QED BY <1>1, <2>1, <2>3 DEF Done
  <1>5. TypeOK'
    <2>1. left' \in 0..RequestBytes /\ issued' \in 0..MaxRequests
      BY <1>1, <1>3, Constants, Counters, SMTT(30)
    <2>2. slot' \in [Ring -> 0..issued'] /\ pushed' \in 0..issued'
      BY <1>1, <1>2, <1>3, Counters DEF TypeOK
    <2>3. sample' \in [reply : 0..answered', request : 0..issued', timely : BOOLEAN]
      BY <1>1, <1>2, <1>3, Counters DEF TypeOK
    <2>4. (emitted \in 0..EndOf(Len(replies)))'
      BY <1>2, <1>3 DEF TypeOK, EndOf
    <2>. QED BY <1>1, <1>2, <1>3, <2>1, <2>2, <2>3, <2>4 DEF TypeOK
  <1>6. ServerInv'
    <2>1. written + RequestBytes = (issued + 1) * RequestBytes \/ ~peerOpen
      <3>1. written + 0 = issued * RequestBytes \/ ~peerOpen
        BY <1>3 DEF IInv, ServerInv
      <3>2. (issued + 1) * RequestBytes = issued * RequestBytes + RequestBytes
        BY <1>3, Constants, Counters, SMTT(30)
      <3>. QED BY <1>3, <3>1, <3>2, Constants, Counters
    <2>. QED BY <1>1, <1>2, <1>4, <2>1 DEF IInv, ServerInv
  <1>7. RequestInv'
    BY <1>1, <1>2, <1>3, <1>4, Constants, Counters DEF RequestInv, Timed
  <1>8. LatencyInv'
    BY <1>1, <1>2 DEF IInv, LatencyInv
  <1>9. StreamInv' /\ WireInv' /\ BufferInv'
    BY <1>1, <1>2, SameStream, SameWire, SameBuffer DEF IInv
  <1>10. AbortInv' /\ SamplesTimely'
    BY <1>1, <1>2 DEF IInv, AbortInv, SamplesTimely
  <1>. QED BY <1>5, <1>6, <1>7, <1>8, <1>9, <1>10 DEF IInv

\* Positions less than a turn of the ring apart have different slots.
LEMMA SlotsDiffer ==
  ASSUME NEW i \in Nat, NEW j \in Nat, i < j, j - i < MaxPending
  PROVE  (i % MaxPending) # (j % MaxPending)
  <1>. DEFINE M == MaxPending
              qi == i \div M
              qj == j \div M
  <1>1. /\ i = M * qi + (i % M) /\ j = M * qj + (j % M)
        /\ qi \in Nat /\ qj \in Nat /\ M \in Nat /\ M > 0
        /\ i % M \in Nat /\ j % M \in Nat
    BY Constants
  <1>2. SUFFICES ASSUME (i % M) = (j % M) PROVE FALSE
    OBVIOUS
  <1>. HIDE DEF M, qi, qj
  <1>3. j - i = M * (qj - qi) /\ j - i > 0 /\ j - i < M
    <2>1. j - i = M * qj - M * qi
      BY <1>1, <1>2
    <2>. QED BY <1>1, <2>1 DEF M
  <1>4. CASE qj - qi <= 0
    <2>1. M * (qj - qi) <= 0
      BY <1>1, <1>4
    <2>. QED BY <1>1, <1>3, <2>1
  <1>5. CASE qj - qi >= 1
    <2>1. M * (qj - qi) >= M
      BY <1>1, <1>5
    <2>. QED BY <1>1, <1>3, <2>1
  <1>. QED BY <1>1, <1>4, <1>5

LEMMA SlotInRing ==
  ASSUME NEW i \in Nat
  PROVE  i % MaxPending \in Ring
  BY Constants DEF Ring

\* A request that has been written, or is taken to be.
LEMMA RequestSentKeeps ==
  ASSUME IInv, pc = "send", RequestSent,
         UNCHANGED <<mode, proto, srvRead, replies, emitted, wire, held, peerOpen>>,
         written' \in Nat, srvRead <= written', written' - srvRead <= SendRoom,
         peerOpen => written' = issued * RequestBytes
  PROVE  IInv'
  <1>1. /\ pc' \in {"loop", "recv"} /\ left' = 0 /\ (pc' = "loop" <=> mode # "latency")
        /\ pending' = IF mode = "latency" THEN pending ELSE pending + 1
        /\ pushed' = IF Timed THEN pushed + 1 ELSE pushed
        /\ slot' = IF Timed THEN [slot EXCEPT ![pushed % MaxPending] = issued] ELSE slot
        /\ UNCHANGED <<closed, bidx, buf, consumed, sample, issued, answered>>
    BY DEF RequestSent, Looping
  <1>2. TypeOK /\ RequestInv /\ left > 0 /\ pending < MaxPending /\ issued > 0
    BY DEF IInv, RequestInv
  <1>3. Done = issued - 1 /\ Done' = issued
    BY <1>1, <1>2 DEF Done
  <1>4. /\ issued \in Nat /\ pushed \in Nat /\ consumed \in Nat /\ pending \in Nat
        /\ answered \in Nat /\ MaxPending \in Nat /\ MaxPending > 0 /\ RequestBytes \in Nat
    BY <1>2, Constants, Counters
  <1>5. /\ pending = IF mode = "latency" THEN 0 ELSE Done - answered
        /\ pushed = IF Timed THEN Done ELSE 0
        /\ consumed = IF Timed THEN answered ELSE 0
        /\ \A i \in consumed..pushed - 1 : slot[i % MaxPending] = i + 1
    BY <1>2 DEF RequestInv
  <1>6. /\ pushed' = IF Timed THEN issued ELSE 0
        /\ consumed' = IF Timed THEN answered ELSE 0
        /\ pending' = IF mode = "latency" THEN 0 ELSE issued - answered
        /\ Timed' = Timed /\ pending' \in 0..MaxPending /\ pushed' \in 0..issued
        /\ consumed' \in 0..pushed'
    <2>1. Timed => mode # "latency"
      BY DEF Timed
    <2>2. /\ pushed' = IF Timed THEN issued ELSE 0
          /\ consumed' = IF Timed THEN answered ELSE 0
          /\ pending' = IF mode = "latency" THEN 0 ELSE issued - answered
          /\ pending' \in 0..MaxPending
      BY <1>1, <1>2, <1>3, <1>4, <1>5
    <2>3. pushed' \in 0..issued /\ consumed' \in 0..pushed'
      <3>1. consumed <= pushed
        BY <1>2, Counters
      <3>. QED BY <1>1, <1>4, <2>2, <3>1
    <2>. QED BY <2>2, <2>3 DEF Timed
  <1>7. slot \in [Ring -> 0..issued] /\ slot' \in [Ring -> 0..issued]
    <2>1. slot \in [Ring -> 0..issued] /\ issued \in 0..issued
      BY <1>2, <1>4 DEF TypeOK
    <2>. QED BY <1>1, <2>1
  <1>8. ASSUME NEW i \in consumed'..pushed' - 1 PROVE slot'[i % MaxPending] = i + 1
    <2>1. Timed /\ i \in Nat /\ consumed <= i /\ i <= pushed /\ pushed' = pushed + 1
      BY <1>1, <1>4, <1>6
    <2>2. pushed % MaxPending \in Ring /\ i % MaxPending \in Ring
      BY <1>4, <2>1, SlotInRing
    <2>3. slot' = [slot EXCEPT ![pushed % MaxPending] = issued]
      BY <1>1, <2>1
    <2>4. pushed = issued - 1
      BY <1>3, <1>5, <2>1
    <2>5. CASE i = pushed
      BY <1>4, <1>7, <2>2, <2>3, <2>4, <2>5
    <2>6. CASE i < pushed
      <3>1. pushed - i < MaxPending
        <4>1. mode # "latency"
          BY <2>1 DEF Timed
        <4>2. pushed - consumed = pending
          BY <1>4, <1>5, <2>1, <4>1
        <4>. QED BY <1>2, <1>4, <2>1, <4>2
      <3>2. (i % MaxPending) # (pushed % MaxPending)
        BY <1>4, <2>1, <2>6, <3>1, SlotsDiffer
      <3>3. slot'[i % MaxPending] = slot[i % MaxPending]
        BY <1>7, <2>2, <2>3, <3>2
      <3>4. i \in consumed..pushed - 1
        BY <1>4, <2>1, <2>6
      <3>. QED BY <1>5, <3>3, <3>4
    <2>. QED BY <1>4, <2>1, <2>5, <2>6
  <1>9. TypeOK'
    <2>1. left' \in 0..RequestBytes /\ srvRead' \in 0..written'
      BY <1>1, <1>2, <1>4, Counters
    <2>2. (emitted \in 0..EndOf(Len(replies)))'
      BY <1>2 DEF TypeOK, EndOf
    <2>3. /\ mode' \in Modes /\ proto' \in DOMAIN Forms
          /\ pc' \in {"loop", "send", "recv", "ended", "aborted"}
          /\ closed' \in BOOLEAN /\ (bidx \in 0..BufferBytes)' /\ (pc' # "aborted" => bidx' < BufferBytes)
          /\ (buf \in [1..BufferBytes -> {"nul", "newline", "other"}])'
          /\ (sample \in [reply : 0..answered, request : 0..issued, timely : BOOLEAN])'
          /\ (issued \in 0..MaxRequests)' /\ (answered \in 0..Len(replies))'
          /\ (replies \in Seq(SUBSET Nat))' /\ (wire \in Seq(1..ReceiveRoom))'
          /\ (held \in 0..ReceiveRoom)' /\ peerOpen' \in BOOLEAN
      BY <1>1, <1>2 DEF TypeOK
    <2>4. slot' \in [Ring -> 0..issued'] /\ pushed' \in 0..issued'
      BY <1>1, <1>6, <1>7
    <2>5. /\ (left \in 0..RequestBytes)' /\ (pending \in 0..MaxPending)' /\ (consumed \in 0..pushed)'
          /\ (srvRead \in 0..written)' /\ (written - srvRead <= SendRoom)'
      BY <1>6, <2>1
    <2>. QED BY <2>2, <2>3, <2>4, <2>5 DEF TypeOK
  <1>10. ServerInv'
    <2>1. /\ \E r \in 0..RequestBytes - 1 : srvRead = Len(replies) * RequestBytes + r
          /\ Len(replies) <= Done
      BY DEF IInv, ServerInv
    <2>2. Len(replies') <= Done'
      BY <1>2, <1>3, <1>4, <2>1, Counters
    <2>3. peerOpen' => written' + left' = issued' * RequestBytes
      <3>1. \A w \in Nat : w + 0 = w
        BY ONLY TRUE
      <3>2. written' + 0 = written'
        BY <3>1
      <3>. QED BY <1>1, <3>2
    <2>. QED BY <2>1, <2>2, <2>3 DEF ServerInv
  <1>11. RequestInv'
    <2>1. ~(left' > 0) /\ pc' # "send"
      BY <1>1
    <2>. QED BY <1>1, <1>3, <1>6, <1>8, <2>1 DEF RequestInv
  <1>12. LatencyInv'
    <2>1. mode = "latency" => answered + 1 = issued
      BY DEF IInv, LatencyInv
    <2>. QED BY <1>1, <2>1 DEF LatencyInv
  <1>13. StreamInv' /\ WireInv' /\ BufferInv'
    BY <1>1, SameStream, SameWire, SameBuffer DEF IInv
  <1>14. AbortInv' /\ SamplesTimely'
    BY <1>1 DEF IInv, AbortInv, SamplesTimely
  <1>. QED BY <1>9, <1>10, <1>11, <1>12, <1>13, <1>14 DEF IInv

LEMMA WriteKeeps ==
  ASSUME IInv, Write
  PROVE  IInv'
  <1>. DEFINE n == Min({left, SendRoom - (written - srvRead)})
  <1>1. TypeOK /\ RequestInv /\ pc = "send" /\ left > 0 /\ mode # "tls"
    BY DEF IInv, RequestInv, Write
  <1>2. /\ left \in Nat /\ left <= RequestBytes /\ written \in Nat /\ srvRead \in Nat
        /\ SendRoom \in Nat /\ srvRead <= written /\ written - srvRead < SendRoom
    BY <1>1, Constants, Counters DEF Write
  <1>3. n \in Nat /\ n > 0 /\ n <= left /\ n <= SendRoom - (written - srvRead)
    <2>. DEFINE room == SendRoom - (written - srvRead)
    <2>1. room \in Nat /\ room > 0
      BY <1>2
    <2>2. {left, room} \subseteq Nat /\ {left, room} # {}
      BY <1>2, <2>1
    <2>3. n \in {left, room} /\ n <= left /\ n <= room
      <3>. HIDE DEF room
      <3>. QED BY <2>2, Least DEF room
    <2>. QED BY <1>1, <1>2, <2>1, <2>3
  <1>4. /\ written' = written + n
        /\ UNCHANGED <<mode, proto, srvRead, replies, emitted, wire, held, peerOpen>>
        /\ IF n = left THEN RequestSent
           ELSE /\ left' = left - n
                /\ UNCHANGED <<pc, pending, closed, bidx, buf, pushed, consumed,
                               slot, sample, issued, answered>>
    BY DEF Write
  <1>. HIDE DEF n
  <1>5. /\ written' \in Nat /\ srvRead <= written' /\ written' - srvRead <= SendRoom
    BY <1>2, <1>3, <1>4
  <1>6. peerOpen => written + left = issued * RequestBytes
    BY DEF IInv, ServerInv
  <1>7. CASE n = left
    <2>1. peerOpen => written' = issued * RequestBytes
      BY <1>4, <1>6, <1>7
    <2>. QED BY <1>1, <1>4, <1>5, <1>7, <2>1, RequestSentKeeps
  <1>8. CASE n # left
    <2>1. /\ left' = left - n /\ left' \in Nat /\ left' > 0 /\ left' <= RequestBytes
          /\ UNCHANGED <<pc, pending, closed, bidx, buf, pushed, consumed, slot,
                         sample, issued, answered>>
      BY <1>2, <1>3, <1>4, <1>8, Constants
    <2>2. Done' = Done
      BY <1>1, <2>1 DEF Done
    <2>3. TypeOK'
      <3>1. (emitted \in 0..EndOf(Len(replies)))'
        BY <1>1, <1>4 DEF TypeOK, EndOf
      <3>2. (left \in 0..RequestBytes)' /\ (srvRead \in 0..written)'
        BY <1>2, <1>4, <1>5, <2>1, Constants
      <3>. QED BY <1>1, <1>4, <1>5, <2>1, <3>1, <3>2 DEF TypeOK
    <2>4. ServerInv'
      <3>1. written' + left' = written + left
        BY <1>2, <1>3, <1>4, <2>1
      <3>. QED BY <1>4, <2>1, <2>2, <3>1 DEF IInv, ServerInv
    <2>5. RequestInv'
      BY <1>1, <1>4, <2>1, <2>2 DEF RequestInv, Timed
    <2>6. StreamInv' /\ WireInv' /\ BufferInv'
      BY <1>4, <2>1, SameStream, SameWire, SameBuffer DEF IInv
    <2>7. LatencyInv' /\ AbortInv' /\ SamplesTimely'
      BY <1>4, <2>1 DEF IInv, LatencyInv, AbortInv, SamplesTimely
    <2>. QED BY <2>3, <2>4, <2>5, <2>6, <2>7 DEF IInv
  <1>. QED BY <1>7, <1>8

\* The thread stops, or closes the connection, and nothing else happens.
LEMMA StopKeeps ==
  ASSUME IInv,
         UNCHANGED <<mode, proto, left, pending, bidx, buf, pushed, consumed, slot,
                     sample, issued, answered, network>>,
         \/ pc' \in {"loop", "ended"} /\ pc \in {"loop", "recv"} /\ closed' = TRUE
         \/ pc' = "ended" /\ pc # "aborted" /\ closed' = closed
         \/ pc' = "aborted" /\ mode = "tls" /\ closed' = closed
         \/ pc' = pc /\ closed' = closed
  PROVE  IInv'
  <1>1. TypeOK /\ RequestInv /\ AbortInv
    BY DEF IInv
  <1>2. /\ pc' \in {"loop", "send", "recv", "ended", "aborted"} /\ closed' \in BOOLEAN
        /\ pc' # "aborted" => pc # "aborted"
        /\ left > 0 => pc' \in {"send", "ended", "aborted"}
        /\ pc' = "send" => pc = "send"
        /\ pc' = "aborted" => proto = "ascii" \/ mode = "tls"
    BY <1>1 DEF TypeOK, RequestInv, AbortInv
  <1>3. UNCHANGED <<written, srvRead, replies, emitted, wire, held, peerOpen>>
    BY DEF network
  <1>4. TypeOK'
    <2>1. (emitted \in 0..EndOf(Len(replies)))'
      BY <1>1, <1>3 DEF TypeOK, EndOf
    <2>2. (pc # "aborted" => bidx < BufferBytes)' /\ pc' \in {"loop", "send", "recv", "ended", "aborted"}
          /\ closed' \in BOOLEAN
      BY <1>1, <1>2 DEF TypeOK
    <2>. QED BY <1>1, <1>3, <2>1, <2>2 DEF TypeOK
  <1>5. RequestInv'
    BY <1>1, <1>2 DEF RequestInv, Done, Timed
  <1>6. LatencyInv'
    BY DEF IInv, LatencyInv
  <1>7. StreamInv' /\ WireInv' /\ BufferInv' /\ ServerInv'
    BY <1>2, <1>3, SameStream, SameWire, SameBuffer, SameServer DEF IInv
  <1>8. AbortInv' /\ SamplesTimely'
    BY <1>2 DEF IInv, AbortInv, SamplesTimely
  <1>. QED BY <1>4, <1>5, <1>6, <1>7, <1>8 DEF IInv

LEMMA WriteRecordKeeps ==
  ASSUME IInv, WriteRecord
  PROVE  IInv'
  <1>1. /\ pc = "send" /\ mode = "tls" /\ TypeOK
        /\ UNCHANGED <<mode, proto, srvRead, replies, emitted, wire, held, peerOpen>>
    BY DEF IInv, WriteRecord
  <1>2. CASE left <= SendRoom - (written - srvRead)
    <2>1. written' = written + left /\ RequestSent
      BY <1>2 DEF WriteRecord
    <2>2. /\ left \in Nat /\ written \in Nat /\ srvRead \in Nat /\ SendRoom \in Nat
          /\ srvRead <= written
      BY <1>1, Constants, Counters
    <2>3. written' \in Nat /\ srvRead <= written' /\ written' - srvRead <= SendRoom
      BY <1>2, <2>1, <2>2
    <2>4. peerOpen => written' = issued * RequestBytes
      BY <2>1 DEF IInv, ServerInv
    <2>. QED BY <1>1, <2>1, <2>3, <2>4, RequestSentKeeps
  <1>3. CASE ~(left <= SendRoom - (written - srvRead))
    <2>1. /\ pc' = "aborted"
          /\ UNCHANGED <<written, left, pending, closed, bidx, buf, pushed, consumed,
                         slot, sample, issued, answered>>
      BY <1>3 DEF WriteRecord
    <2>. QED BY <1>1, <2>1, StopKeeps DEF network
  <1>. QED BY <1>2, <1>3

LEMMA WriteFailsKeeps ==
  ASSUME IInv, WriteFails
  PROVE  IInv'
  <1>1. pc = "send" /\ ~peerOpen /\ UNCHANGED <<mode, proto, network>> /\ TypeOK
    BY DEF IInv, WriteFails
  <1>2. CASE mode = "symmetric"
    <2>1. RequestSent /\ written' = written
      BY <1>2 DEF WriteFails, network
    <2>2. written \in Nat /\ srvRead <= written /\ written - srvRead <= SendRoom
      BY <1>1, Counters
    <2>. QED BY <1>1, <2>1, <2>2, RequestSentKeeps DEF network
  <1>3. CASE mode # "symmetric"
    <2>1. /\ pc' = IF mode = "tls" THEN "aborted" ELSE "ended"
          /\ UNCHANGED <<left, pending, closed, bidx, buf, pushed, consumed, slot,
                         sample, issued, answered>>
      BY <1>3 DEF WriteFails
    <2>. QED BY <1>1, <2>1, StopKeeps
  <1>. QED BY <1>2, <1>3

-----------------------------------------------------------------------------
(* Closing keeps it.                                                       *)

LEMMA ReadNothingKeeps ==
  ASSUME IInv, ReadNothing
  PROVE  IInv'
  <1>1. pc \in {"loop", "recv"} /\ pc' \in {"loop", "ended"} /\ closed' = TRUE
    BY DEF ReadNothing, Looping
  <1>2. UNCHANGED <<mode, proto, left, pending, bidx, buf, pushed, consumed, slot,
                    sample, issued, answered, network>>
    BY DEF ReadNothing
  <1>. QED BY <1>1, <1>2, StopKeeps

LEMMA ReadFailsKeeps ==
  ASSUME IInv, ReadFails
  PROVE  IInv'
  <1>1. pc' = "ended" /\ pc # "aborted" /\ closed' = closed
    BY DEF ReadFails, Looping
  <1>2. UNCHANGED <<mode, proto, left, pending, bidx, buf, pushed, consumed, slot,
                    sample, issued, answered, network>>
    BY DEF ReadFails
  <1>. QED BY <1>1, <1>2, StopKeeps

LEMMA ServerClosesKeeps ==
  ASSUME IInv, ServerCloses
  PROVE  IInv'
  <1>1. UNCHANGED <<mode, proto, thread, written, srvRead, replies, emitted, wire, held>>
        /\ peerOpen /\ peerOpen' = FALSE
    BY DEF ServerCloses
  <1>2. UNCHANGED <<pc, left, pending, closed, bidx, buf, pushed, consumed, slot, sample,
                    issued, answered>>
    BY <1>1 DEF thread
  <1>3. TypeOK'
    <2>1. (emitted \in 0..EndOf(Len(replies)))'
      BY <1>1 DEF IInv, TypeOK, EndOf
    <2>. QED BY <1>1, <1>2, <2>1 DEF IInv, TypeOK
  <1>4. RequestInv' /\ LatencyInv'
    BY <1>1, <1>2 DEF IInv, RequestInv, Done, Timed, LatencyInv
  <1>5. StreamInv' /\ WireInv' /\ BufferInv' /\ ServerInv'
    BY <1>1, <1>2, SameStream, SameWire, SameBuffer, SameServer DEF IInv
  <1>6. AbortInv' /\ SamplesTimely'
    BY <1>1, <1>2 DEF IInv, AbortInv, SamplesTimely
  <1>. QED BY <1>3, <1>4, <1>5, <1>6 DEF IInv

-----------------------------------------------------------------------------
(* The server and the network keep it.                                     *)

LEMMA SameBytes ==
  ASSUME UNCHANGED <<answered, bidx, buf, replies, proto, mode, pc>>, got' = got, BufferInv
  PROVE  BufferInv'
  BY DEF BufferInv, EndOf, Size, OneByOne, ByteAt

\* The bytes in the socket and what has been read, with their ranges.
LEMMA Bytes ==
  ASSUME IInv
  PROVE  /\ Stream /\ emitted \in Nat /\ Sum(wire) \in Nat /\ held \in Nat
         /\ EndOf(Len(replies)) \in Nat /\ emitted <= EndOf(Len(replies))
         /\ Sum(wire) + held <= emitted /\ Sum(wire) <= ReceiveRoom
         /\ EndOf(answered) \in Nat /\ EndOf(answered) <= EndOf(Len(replies))
         /\ got \in Nat /\ got + (Sum(wire) + held) = emitted
         /\ wire \in Seq(Nat) /\ wire \in Seq(1..ReceiveRoom)
  <1>1. TypeOK /\ Stream
    BY DEF IInv, TypeOK, Stream
  <1>2. wire \in Seq(Nat) /\ Sum(wire) \in Nat /\ wire \in Seq(1..ReceiveRoom)
    <2>1. wire \in Seq(1..ReceiveRoom)
      BY <1>1 DEF TypeOK
    <2>2. wire \in Seq(Nat)
      BY <2>1, Constants, NumbersAreNat
    <2>. QED BY <2>1, <2>2, SumIsNat
  <1>3. /\ answered \in 0..Len(replies) /\ Len(replies) \in 0..Len(replies)
        /\ answered <= Len(replies)
    BY <1>1, Counters
  <1>4. /\ EndOf(Len(replies)) \in Nat /\ EndOf(answered) \in Nat
        /\ EndOf(answered) <= EndOf(Len(replies))
    BY <1>1, <1>3, Ends, NotDecreasing
  <1>5. emitted \in Nat /\ emitted <= EndOf(Len(replies)) /\ held \in Nat
    <2>1. emitted \in 0..EndOf(Len(replies))
      BY <1>1 DEF TypeOK
    <2>. QED BY <1>1, <1>4, <2>1, Counters
  <1>6. Sum(wire) + held <= emitted /\ Sum(wire) <= ReceiveRoom
    BY DEF IInv, WireInv
  <1>7. got \in Nat /\ got + (Sum(wire) + held) = emitted
    BY <1>2, <1>5, <1>6 DEF got
  <1>. QED BY <1>1, <1>2, <1>4, <1>5, <1>6, <1>7

LEMMA ServerWritesKeeps ==
  ASSUME IInv, ServerWrites
  PROVE  IInv'
  <1>. DEFINE rest == EndOf(Len(replies)) - emitted
              room == ReceiveRoom - Sum(wire)
  <1>1. PICK n \in 1..Min({rest, room}) :
          /\ emitted' = emitted + n
          /\ wire' = IF mode = "tls" THEN Append(wire, n) ELSE <<Sum(wire) + n>>
    BY DEF ServerWrites
  <1>2. UNCHANGED <<mode, proto, thread, written, srvRead, replies, held, peerOpen>>
    BY DEF ServerWrites
  <1>3. /\ rest \in Nat /\ room \in Nat /\ emitted \in Nat /\ Sum(wire) \in Nat
        /\ ReceiveRoom \in Nat /\ wire \in Seq(Nat) /\ wire \in Seq(1..ReceiveRoom)
        /\ Sum(wire) + held <= emitted /\ held \in Nat
        /\ EndOf(Len(replies)) \in Nat
    <2>1. /\ emitted \in Nat /\ Sum(wire) \in Nat /\ held \in Nat /\ ReceiveRoom \in Nat
          /\ EndOf(Len(replies)) \in Nat /\ emitted <= EndOf(Len(replies))
          /\ Sum(wire) + held <= emitted /\ Sum(wire) <= ReceiveRoom
      BY Bytes, Constants
    <2>. QED BY <2>1, Bytes, SMTT(30)
  <1>4. n \in Nat /\ n > 0 /\ n <= rest /\ n <= room
    <2>1. {rest, room} \subseteq Nat /\ {rest, room} # {}
      BY <1>3
    <2>2. Min({rest, room}) \in Nat /\ Min({rest, room}) <= rest /\ Min({rest, room}) <= room
      <3>. HIDE DEF rest, room
      <3>. QED BY <1>3, <2>1, Least
    <2>. HIDE DEF rest, room
    <2>. QED BY <1>3, <2>2
  <1>5. UNCHANGED <<pc, left, pending, closed, bidx, buf, pushed, consumed, slot, sample,
                    issued, answered>>
    BY <1>2 DEF thread
  <1>6. Sum(wire') = Sum(wire) + n /\ wire' \in Seq(1..ReceiveRoom)
    <2>1. n \in 1..ReceiveRoom /\ Sum(wire) + n \in 1..ReceiveRoom
      BY <1>3, <1>4
    <2>2. CASE mode = "tls"
      BY <1>1, <1>3, <1>4, <2>1, <2>2, SumOfAppend
    <2>3. CASE mode # "tls"
      BY <1>1, <1>3, <1>4, <2>1, <2>3, SumOfOne
    <2>. QED BY <2>2, <2>3
  <1>7. /\ got' = got /\ Sum(wire') <= ReceiveRoom /\ Sum(wire') + held' <= emitted'
        /\ emitted' \in 0..EndOf(Len(replies))
    <2>1. got' = emitted' - Sum(wire') - held' /\ held' = held
      BY <1>2 DEF got, Sum, SumUpTo
    <2>2. got = emitted - Sum(wire) - held
      BY DEF got
    <2>3. /\ emitted' = emitted + n /\ held' = held /\ n <= EndOf(Len(replies)) - emitted
          /\ n <= ReceiveRoom - Sum(wire) /\ n \in Nat
      BY <1>1, <1>2, <1>4
    <2>. HIDE DEF rest, room
    <2>4. got' = got
      BY <1>3, <1>6, <2>1, <2>2, <2>3
    <2>5. Sum(wire') <= ReceiveRoom /\ Sum(wire') + held' <= emitted'
      BY <1>3, <1>6, <2>3
    <2>6. emitted' \in 0..EndOf(Len(replies))
      BY <1>3, <2>3
    <2>. QED BY <2>4, <2>5, <2>6
  <1>8. TypeOK'
    <2>1. (emitted \in 0..EndOf(Len(replies)))'
      BY <1>2, <1>7 DEF EndOf
    <2>. QED BY <1>2, <1>5, <1>6, <2>1 DEF IInv, TypeOK
  <1>9. WireInv'
    <2>1. Sum(wire)' = Sum(wire')
      BY DEF Sum, SumUpTo
    <2>. QED BY <1>2, <1>7, <2>1 DEF IInv, WireInv
  <1>10. RequestInv' /\ LatencyInv'
    BY <1>2, <1>5 DEF IInv, RequestInv, Done, Timed, LatencyInv
  <1>11. StreamInv' /\ BufferInv' /\ ServerInv'
    BY <1>2, <1>5, <1>7, SameStream, SameBytes, SameServer DEF IInv
  <1>12. AbortInv' /\ SamplesTimely'
    BY <1>2, <1>5 DEF IInv, AbortInv, SamplesTimely
  <1>. QED BY <1>8, <1>9, <1>10, <1>11, <1>12 DEF IInv

LEMMA Remainder ==
  ASSUME NEW m \in Nat, m > 0, NEW q \in Nat, NEW r \in Nat, r < m
  PROVE  (q * m + r) % m = r
  <1>. DEFINE x == q * m + r
              d == x \div m
              e == x % m
  <1>1. x \in Nat
    OBVIOUS
  <1>2. d \in Nat /\ e \in Nat /\ e < m /\ x = m * d + e
    <2>. HIDE DEF x
    <2>. QED BY <1>1
  <1>. HIDE DEF d, e
  <1>3. m * (d - q) = r - e
    BY <1>2
  <1>4. CASE d - q >= 1
    <2>1. m * (d - q) >= m
      BY <1>2, <1>4
    <2>. QED BY <1>2, <1>3, <2>1
  <1>5. CASE d - q <= -1
    <2>1. m * (d - q) <= -m
      BY <1>2, <1>5
    <2>. QED BY <1>2, <1>3, <2>1
  <1>6. CASE d - q = 0
    <2>1. m * (d - q) = 0
      BY <1>2, <1>6
    <2>. QED BY <1>2, <1>3, <2>1 DEF e
  <1>. QED BY <1>2, <1>4, <1>5, <1>6

LEMMA CancelFactor ==
  ASSUME NEW m \in Nat, m > 0, NEW a \in Nat, NEW b \in Nat, a * m <= b * m
  PROVE  a <= b /\ (a * m < b * m => a < b)
  <1>1. (b - a) * m = b * m - a * m
    OBVIOUS
  <1>2. CASE b - a <= -1
    <2>1. (b - a) * m <= -m
      BY <1>2
    <2>. QED BY <1>1, <2>1
  <1>3. CASE b - a >= 0
    <2>1. a = b => a * m = b * m
      OBVIOUS
    <2>2. a * m \in Nat /\ b * m \in Nat
      OBVIOUS
    <2>. QED BY <1>3, <2>1, <2>2
  <1>. QED BY <1>2, <1>3

\* A reply of the server: it lies behind the ones before, as long as it is.
LEMMA Appended ==
  ASSUME NEW e \in Nat, NEW p \in DOMAIN Forms, NEW r \in Forms[p]
  PROVE  LET S == {e + i : i \in r}
         IN  /\ S \in SUBSET Nat /\ Max(S) \in S /\ S \subseteq e + 1 .. Max(S)
             /\ Max(S) \in Nat /\ Max(S) > e /\ Max(S) - e <= BufferBytes
             /\ p = "ascii" /\ Cardinality(S) = 3 => Max(S) - e >= StoredBytes
  <1>. DEFINE S == {e + i : i \in r}
              f == [i \in r |-> e + i]
  <1>1. /\ r # {} /\ r \subseteq 1..BufferBytes /\ BufferBytes \in Nat
        /\ p = "ascii" /\ Cardinality(r) = 3 => Max(r) >= StoredBytes
    BY TcpAssumption, Constants
  <1>2. Max(r) \in r /\ \A i \in r : i <= Max(r)
    <2>1. r \subseteq 0..BufferBytes
      BY <1>1
    <2>. QED BY <1>1, <2>1, Greatest
  <1>3. Max(S) \in S /\ \A j \in S : j <= Max(S)
    <2>1. \A i \in 1..BufferBytes : e + i \in 0..e + BufferBytes
      BY <1>1
    <2>2. S \subseteq 0..e + BufferBytes /\ S # {} /\ e + BufferBytes \in Nat
      <3>1. S # {}
        BY <1>1, Zenon
      <3>2. ASSUME NEW i \in r PROVE e + i \in 0..e + BufferBytes
        BY <1>1, <2>1
      <3>3. S \subseteq 0..e + BufferBytes
        BY <3>2, Zenon
      <3>4. e + BufferBytes \in Nat
        BY <1>1
      <3>. QED BY <3>1, <3>3, <3>4
    <2>. HIDE DEF S
    <2>. QED BY <2>2, Greatest
  <1>4. Max(S) = e + Max(r)
    <2>1. PICK i \in r : Max(S) = e + i
      BY <1>3
    <2>2. e + Max(r) <= Max(S)
      BY <1>2, <1>3
    <2>3. i \in Nat /\ Max(r) \in Nat /\ i <= Max(r)
      <3>1. i \in 1..BufferBytes /\ Max(r) \in 1..BufferBytes
        BY <1>1, <1>2
      <3>. QED BY <1>2, <3>1
    <2>. HIDE DEF S
    <2>. QED BY <2>1, <2>2, <2>3
  <1>5. Max(r) \in 1..BufferBytes
    BY <1>1, <1>2
  <1>6. S \in SUBSET Nat /\ S \subseteq e + 1 .. Max(S)
    <2>1. \A i \in r : i \in Nat /\ e + i \in Nat /\ e + i >= e + 1
      BY <1>1
    <2>2. \A j \in S : j \in Nat /\ j >= e + 1 /\ j <= Max(S)
      BY <1>3, <2>1
    <2>. HIDE DEF S
    <2>3. Max(S) \in Nat
      BY <1>4, <1>5
    <2>. QED BY <2>2, <2>3
  <1>7. Cardinality(S) = Cardinality(r)
    <2>1. IsFiniteSet(r)
      <3>1. IsFiniteSet(1..BufferBytes) /\ r \in SUBSET (1..BufferBytes)
        BY <1>1, FS_Interval
      <3>. QED BY <3>1, FS_Subset
    <2>2. ExistsBijection(r, S)
      <3>1. f \in [r -> S] /\ \A s \in S : \E i \in r : f[i] = s
        OBVIOUS
      <3>2. \A i, j \in r : f[i] = f[j] => i = j
        BY <1>1
      <3>. HIDE DEF f, S
      <3>. QED BY <3>1, <3>2 DEF ExistsBijection, Bijection, Injection, Surjection, IsInjective
    <2>. HIDE DEF f, S
    <2>. QED BY <2>1, <2>2, FS_Bijection
  <1>. HIDE DEF S
  <1>8. Max(S) \in Nat /\ Max(S) > e /\ Max(S) - e <= BufferBytes /\ Max(S) - e = Max(r)
    BY <1>1, <1>4, <1>5
  <1>9. p = "ascii" /\ Cardinality(S) = 3 => Max(S) - e >= StoredBytes
    BY <1>1, <1>7, <1>8
  <1>. QED BY <1>3, <1>6, <1>8, <1>9 DEF S

\* What a reply that is appended leaves of the stream, and what it adds.
LEMMA StreamGrows ==
  ASSUME IInv, UNCHANGED proto, NEW r \in Forms[proto], NEW L \in Nat, L = Len(replies),
         NEW e \in Nat, e = EndOf(L), replies' = Append(replies, {e + i : i \in r})
  PROVE  /\ replies' \in Seq(SUBSET Nat) /\ Len(replies') = L + 1
         /\ \A k \in 0..L : EndOf(k)' = EndOf(k)
         /\ \A k \in 1..L : Size(k)' = Size(k)
         /\ EndOf(L + 1)' \in Nat /\ EndOf(L + 1)' > e /\ Size(L + 1)' > 0
         /\ \A i \in 1..e : ByteAt(i)' = ByteAt(i)
         /\ StreamInv'
  <1>. DEFINE S == {e + i : i \in r}
  <1>1. Stream /\ replies \in Seq(SUBSET Nat) /\ proto \in DOMAIN Forms
    BY Bytes DEF IInv, TypeOK
  <1>2. /\ S \in SUBSET Nat /\ Max(S) \in S /\ S \subseteq e + 1 .. Max(S)
        /\ Max(S) \in Nat /\ Max(S) > e /\ Max(S) - e <= BufferBytes
        /\ proto = "ascii" /\ Cardinality(S) = 3 => Max(S) - e >= StoredBytes
    BY <1>1, Appended
  <1>3. replies' = Append(replies, S)
    OBVIOUS
  <1>. HIDE DEF S
  <1>4. /\ replies' \in Seq(SUBSET Nat) /\ Len(replies') = L + 1 /\ replies'[L + 1] = S
        /\ \A k \in 1..L : replies'[k] = replies[k]
    <2>1. ASSUME NEW T, NEW s \in Seq(T), NEW x \in T
          PROVE  /\ Append(s, x) \in Seq(T) /\ Len(Append(s, x)) = Len(s) + 1
                 /\ Append(s, x)[Len(s) + 1] = x
                 /\ \A k \in 1..Len(s) : Append(s, x)[k] = s[k]
      OBVIOUS
    <2>2. S \in SUBSET Nat
      BY <1>2
    <2>3. /\ Append(replies, S) \in Seq(SUBSET Nat) /\ Len(Append(replies, S)) = Len(replies) + 1
          /\ Append(replies, S)[Len(replies) + 1] = S
          /\ \A k \in 1..Len(replies) : Append(replies, S)[k] = replies[k]
      BY ONLY <1>1, <2>1, <2>2
    <2>. QED BY ONLY <1>3, <2>3, L = Len(replies)
  <1>5. ASSUME NEW k \in 0..L PROVE EndOf(k)' = EndOf(k)
    <2>1. EndOf(k)' = IF k = 0 THEN 0 ELSE Max(replies'[k])
      BY DEF EndOf
    <2>2. k # 0 => replies'[k] = replies[k]
      BY <1>4
    <2>. QED BY <2>1, <2>2 DEF EndOf
  <1>6. EndOf(L + 1)' = Max(S)
    <2>1. EndOf(L + 1)' = IF L + 1 = 0 THEN 0 ELSE Max(replies'[L + 1])
      BY DEF EndOf
    <2>2. L + 1 # 0
      OBVIOUS
    <2>. QED BY <1>4, <2>1, <2>2
  <1>7. ASSUME NEW k \in 1..L PROVE Size(k)' = Size(k)
    <2>1. k \in 0..L /\ k - 1 \in 0..L
      OBVIOUS
    <2>2. Size(k)' = EndOf(k)' - EndOf(k - 1)'
      BY DEF Size
    <2>. QED BY <1>5, <2>1, <2>2 DEF Size
  <1>8. Size(L + 1)' = Max(S) - e /\ EndOf((L + 1) - 1)' = e
    <2>1. Size(L + 1)' = EndOf(L + 1)' - EndOf((L + 1) - 1)'
      BY DEF Size
    <2>2. (L + 1) - 1 = L /\ L \in 0..L
      OBVIOUS
    <2>3. EndOf(L)' = EndOf(L)
      BY <1>5, <2>2
    <2>4. EndOf((L + 1) - 1)' = EndOf(L)'
      BY <2>2 DEF EndOf
    <2>. QED BY <1>6, <2>1, <2>3, <2>4
  <1>9. ASSUME NEW i \in 1..e PROVE ByteAt(i)' = ByteAt(i)
    <2>1. ByteAt(i)' = IF \E k \in 1..Len(replies') : i \in replies'[k]
                       THEN "newline" ELSE "other"
      BY DEF ByteAt
    <2>2. i \notin S
      BY <1>2
    <2>3. (\E k \in 1..L + 1 : i \in replies'[k]) <=> (\E k \in 1..L : i \in replies[k])
      <3>1. \A k \in 1..L + 1 : k \in 1..L \/ k = L + 1
        OBVIOUS
      <3>2. \A k \in 1..L : k \in 1..L + 1
        OBVIOUS
      <3>. QED BY <1>4, <2>2, <3>1, <3>2
    <2>. QED BY <1>4, <2>1, <2>3 DEF ByteAt
  <1>10. ASSUME NEW k \in 1..L + 1
         PROVE  /\ replies'[k] \subseteq EndOf(k - 1)' + 1 .. EndOf(k)'
                /\ EndOf(k)' \in replies'[k] /\ Size(k)' <= BufferBytes
                /\ proto' = "ascii" /\ Cardinality(replies'[k]) = 3 => Size(k)' >= StoredBytes
    <2>1. CASE k = L + 1
      <3>1. k = L + 1 => EndOf(k - 1)' = EndOf((L + 1) - 1)' /\ EndOf(k)' = EndOf(L + 1)'
                         /\ Size(k)' = Size(L + 1)'
        BY Zenon
      <3>2. /\ EndOf(k - 1)' = e /\ EndOf(k)' = Max(S) /\ replies'[k] = S
            /\ Size(k)' = Max(S) - e
        BY <1>4, <1>6, <1>8, <2>1, <3>1
      <3>. QED BY ONLY <1>2, <3>2, proto' = proto
    <2>2. CASE k # L + 1
      <3>1. k \in 1..L /\ k \in 0..L /\ k - 1 \in 0..L
        BY <2>2
      <3>2. /\ EndOf(k - 1)' = EndOf(k - 1) /\ EndOf(k)' = EndOf(k)
            /\ Size(k)' = Size(k) /\ replies'[k] = replies[k]
        BY <1>4, <1>5, <1>7, <3>1
      <3>3. /\ replies[k] \subseteq EndOf(k - 1) + 1 .. EndOf(k)
            /\ EndOf(k) \in replies[k] /\ Size(k) <= BufferBytes
            /\ proto = "ascii" /\ Cardinality(replies[k]) = 3 => Size(k) >= StoredBytes
        BY <3>1 DEF IInv, StreamInv
      <3>. QED BY ONLY <3>2, <3>3, proto' = proto
    <2>. QED BY <2>1, <2>2
  <1>11. StreamInv'
    BY <1>4, <1>10 DEF StreamInv
  <1>. QED BY <1>2, <1>4, <1>5, <1>6, <1>7, <1>8, <1>9, <1>11

\* The end of a request is read only after its last byte has been written, so
\* that the request is one of those that are counted.
LEMMA AnswersWhatWasSent ==
  ASSUME IInv, peerOpen, NEW q \in Nat, q * RequestBytes <= written
  PROVE  q <= Done
  <1>1. /\ TypeOK /\ RequestInv /\ written + left = issued * RequestBytes
        /\ RequestBytes \in Nat /\ RequestBytes > 0
    BY Constants DEF IInv, ServerInv
  <1>2. left \in Nat /\ issued \in Nat /\ written \in Nat
    BY <1>1, Counters
  <1>3. q * RequestBytes \in Nat /\ issued * RequestBytes \in Nat
    BY <1>1, <1>2
  <1>. DEFINE a == q * RequestBytes
              c == issued * RequestBytes
  <1>4. a \in Nat /\ c \in Nat /\ written + left = c /\ a <= written
    BY <1>1, <1>3
  <1>. HIDE DEF a, c
  <1>5. a <= c /\ (left > 0 => a < c)
    BY <1>2, <1>4
  <1>6. q <= issued /\ (left > 0 => q < issued)
    BY <1>1, <1>2, <1>5, CancelFactor DEF a, c
  <1>. QED BY <1>2, <1>6 DEF Done

LEMMA ServerReadsKeeps ==
  ASSUME IInv, ServerReads
  PROVE  IInv'
  <1>. DEFINE M == RequestBytes
  <1>1. PICK L \in Nat : L = Len(replies)
    BY Counters DEF IInv
  <1>2. PICK e \in Nat : e = EndOf(L)
    BY <1>1, Bytes
  <1>3. PICK s \in 0..M - 1 : srvRead = L * M + s
    BY <1>1 DEF IInv, ServerInv
  <1>4. /\ peerOpen /\ srvRead < written /\ emitted = e
        /\ UNCHANGED <<mode, proto, written, emitted, wire, held, peerOpen>>
        /\ UNCHANGED <<pc, left, pending, closed, bidx, buf, pushed, consumed, slot, sample,
                       issued, answered>>
    BY <1>1, <1>2 DEF ServerReads, thread
  <1>5. /\ M \in Nat /\ M > 0 /\ s \in Nat /\ s < M /\ srvRead \in Nat /\ written \in Nat
        /\ L * M \in Nat /\ TypeOK
    BY <1>1, Constants, Counters DEF IInv
  <1>6. srvRead % M = s
    <2>. HIDE DEF M
    <2>. QED BY <1>3, <1>5, Remainder
  <1>7. PICK n \in Nat : /\ n > 0 /\ n <= M - s /\ n <= written - srvRead
                         /\ srvRead' = srvRead + n
                         /\ IF n = M - s
                            THEN \E r \in Forms[proto] :
                                   replies' = Append(replies, {e + i : i \in r})
                            ELSE UNCHANGED replies
    <2>. DEFINE toEnd == M - s
                rest == written - srvRead
                n == Min({toEnd, rest})
    <2>1. /\ srvRead' = srvRead + n
          /\ IF n = toEnd
             THEN \E r \in Forms[proto] : replies' = Append(replies, {e + i : i \in r})
             ELSE UNCHANGED replies
      BY <1>1, <1>2, <1>6 DEF ServerReads
    <2>2. toEnd \in Nat /\ rest \in Nat /\ toEnd > 0 /\ rest > 0
      BY <1>4, <1>5
    <2>3. n \in Nat /\ n > 0 /\ n <= toEnd /\ n <= rest
      <3>1. {toEnd, rest} \subseteq Nat /\ {toEnd, rest} # {}
        BY <2>2
      <3>2. n \in {toEnd, rest} /\ n <= toEnd /\ n <= rest
        <4>. HIDE DEF toEnd, rest
        <4>. QED BY <3>1, Least DEF n
      <3>. HIDE DEF toEnd, rest, n
      <3>. QED BY <2>2, <3>2
    <2>. HIDE DEF n
    <2>. QED BY <2>1, <2>3
  <1>8. srvRead' \in 0..written' /\ written' \in Nat /\ written' - srvRead' <= SendRoom
    <2>1. written - srvRead <= SendRoom /\ SendRoom \in Nat
      BY <1>5, Constants, Counters
    <2>. QED BY <1>4, <1>5, <1>7, <2>1
  <1>9. WireInv'
    BY <1>4, SameWire DEF IInv
  <1>10. RequestInv' /\ LatencyInv' /\ Done' = Done
    BY <1>4 DEF IInv, RequestInv, Done, Timed, LatencyInv
  <1>11. AbortInv' /\ SamplesTimely' /\ got' = got
    BY <1>4 DEF IInv, AbortInv, SamplesTimely, got, Sum, SumUpTo
  <1>12. written' + left' = issued' * RequestBytes
    BY <1>4 DEF IInv, ServerInv
  <1>13. CASE n # M - s
    <2>1. UNCHANGED replies
      BY <1>7, <1>13
    <2>2. TypeOK'
      <3>1. (emitted \in 0..EndOf(Len(replies)))'
        BY <1>4, <1>5, <2>1 DEF TypeOK, EndOf
      <3>. QED BY <1>4, <1>5, <1>8, <2>1, <3>1 DEF TypeOK
    <2>3. ServerInv'
      <3>1. s + n \in 0..M - 1 /\ srvRead' = L * M + (s + n)
        BY <1>3, <1>5, <1>7, <1>13
      <3>2. Len(replies) <= Done
        BY DEF IInv, ServerInv
      <3>. QED BY <1>1, <1>10, <1>12, <2>1, <3>1, <3>2 DEF ServerInv
    <2>4. StreamInv' /\ BufferInv'
      BY <1>4, <1>11, <2>1, SameStream, SameBytes DEF IInv
    <2>. QED BY <1>9, <1>10, <1>11, <2>2, <2>3, <2>4 DEF IInv
  <1>14. CASE n = M - s
    <2>1. PICK r \in Forms[proto] : replies' = Append(replies, {e + i : i \in r})
      BY <1>7, <1>14
    <2>2. /\ replies' \in Seq(SUBSET Nat) /\ Len(replies') = L + 1
          /\ \A k \in 0..L : EndOf(k)' = EndOf(k)
          /\ \A k \in 1..L : Size(k)' = Size(k)
          /\ EndOf(L + 1)' \in Nat /\ EndOf(L + 1)' > e /\ Size(L + 1)' > 0
          /\ \A i \in 1..e : ByteAt(i)' = ByteAt(i)
          /\ StreamInv'
      BY <1>1, <1>2, <1>4, <2>1, StreamGrows
    <2>3. ServerInv'
      <3>1. srvRead' = (L + 1) * M + 0 /\ (L + 1) * M <= written /\ 0 \in 0..M - 1
        <4>1. srvRead' = L * M + M
          <5>. DEFINE a == L * M
          <5>1. srvRead = a + s /\ a \in Nat
            BY <1>3, <1>5
          <5>. HIDE DEF a
          <5>2. srvRead' = a + M
            BY <1>5, <1>7, <1>14, <5>1
          <5>. QED BY <5>2 DEF a
        <4>2. (L + 1) * M = L * M + M
          BY <1>5
        <4>3. srvRead' <= written
          BY <1>5, <1>7
        <4>4. srvRead' = (L + 1) * M /\ srvRead' \in Nat
          BY <1>5, <1>7, <4>1, <4>2
        <4>. QED BY <1>5, <4>3, <4>4
      <3>2. L + 1 <= Done
        BY <1>4, <3>1, AnswersWhatWasSent
      <3>. QED BY <1>10, <1>12, <2>2, <3>1, <3>2 DEF ServerInv
    <2>4. answered \in Nat /\ answered <= L /\ answered \in 0..L
      <3>1. answered \in Nat /\ answered <= Len(replies)
        BY <1>5, Counters
      <3>. QED BY <1>1, <3>1
    <2>5. TypeOK'
      <3>1. (emitted \in 0..EndOf(Len(replies)))'
        <4>1. EndOf(Len(replies))' = EndOf(L + 1)'
          BY <2>2 DEF EndOf
        <4>. QED BY <1>4, <2>2, <4>1
      <3>2. (answered \in 0..Len(replies))'
        BY <1>4, <2>2, <2>4
      <3>. QED BY <1>4, <1>5, <1>8, <2>2, <3>1, <3>2 DEF TypeOK
    <2>6. BufferInv'
      <3>. SUFFICES ASSUME pc # "aborted" PROVE BufferInv'
        BY <1>4 DEF BufferInv
      <3>1. /\ got = EndOf(answered) + bidx
            /\ ~OneByOne /\ answered < Len(replies) => bidx < Size(answered + 1)
            /\ proto = "ascii" => \A i \in 1..bidx : buf[i] = ByteAt(EndOf(answered) + i)
        BY DEF IInv, BufferInv
      <3>2. PICK a \in 0..L : a = answered
        BY <2>4
      <3>3. /\ EndOf(answered)' = EndOf(a)' /\ EndOf(a)' = EndOf(a) /\ EndOf(a) = EndOf(answered)
        BY <1>4, <2>2, <3>2 DEF EndOf
      <3>4. /\ EndOf(answered) \in Nat /\ bidx \in Nat /\ got \in Nat /\ got <= e
        <4>1. /\ EndOf(answered) \in Nat /\ got \in Nat /\ got + (Sum(wire) + held) = emitted
              /\ Sum(wire) \in Nat /\ held \in Nat
          BY Bytes
        <4>2. bidx \in Nat
          BY <1>5, Counters
        <4>. QED BY <1>4, <4>1, <4>2
      <3>5. (got = EndOf(answered) + bidx)'
        BY <1>4, <1>11, <3>1, <3>3
      <3>6. ASSUME ~OneByOne', answered' < Len(replies')
            PROVE  bidx' < Size(answered + 1)'
        <4>1. Size(answered + 1)' = Size(a + 1)'
          BY <1>4, <3>2 DEF Size, EndOf
        <4>2. CASE a < L
          <5>1. a + 1 \in 1..L /\ a < Len(replies)
            BY <1>1, <4>2
          <5>2. ~OneByOne
            BY <1>4, <3>6 DEF OneByOne
          <5>3. bidx < Size(a + 1)
            BY <3>1, <3>2, <5>1, <5>2
          <5>. QED BY <1>4, <2>2, <4>1, <5>1, <5>3
        <4>3. CASE a = L
          <5>1. bidx = 0
            BY <1>2, <3>1, <3>2, <3>4, <4>3
          <5>2. Size(a + 1)' = Size(L + 1)'
            BY <4>3
          <5>. QED BY <1>4, <2>2, <4>1, <5>1, <5>2
        <4>. QED BY <3>2, <4>2, <4>3
      <3>7. ASSUME proto' = "ascii", NEW i \in 1..bidx
            PROVE  buf'[i] = ByteAt(EndOf(answered) + i)'
        <4>1. PICK j \in Nat : j = EndOf(answered) + i
          BY <3>4
        <4>2. j \in 1..e
          BY <3>1, <3>4, <4>1
        <4>3. buf[i] = ByteAt(j)
          BY <1>4, <3>1, <3>7, <4>1
        <4>4. ByteAt(EndOf(answered) + i)' = ByteAt(j)'
          <5>1. EndOf(answered)' + i = j
            BY <3>3, <4>1
          <5>. QED BY <5>1 DEF ByteAt
        <4>. QED BY <1>4, <2>2, <4>2, <4>3, <4>4
      <3>. QED BY <1>4, <3>5, <3>6, <3>7 DEF BufferInv
    <2>. QED BY <1>9, <1>10, <1>11, <2>2, <2>3, <2>5, <2>6 DEF IInv
  <1>. QED BY <1>13, <1>14

-----------------------------------------------------------------------------
(* Reading keeps it.                                                       *)

\* What a read returns, and what it leaves in the socket and in OpenSSL.
LEMMA ReadMoves ==
  ASSUME IInv, Read
  PROVE  /\ Readable \in Nat /\ Readable > 0 /\ bidx + Readable <= BufferBytes
         /\ got + Readable <= emitted /\ got' = got + Readable
         /\ wire' \in Seq(1..ReceiveRoom) /\ held' \in 0..ReceiveRoom /\ WireInv'
  <1>. DEFINE x == IF mode = "tls" THEN Record ELSE Sum(wire)
              y == BufferBytes - bidx
              n == Readable
  <1>1. /\ wire # <<>> /\ bidx < BufferBytes /\ UNCHANGED <<mode, emitted>>
        /\ IF mode = "tls"
           THEN /\ held' = Record - n
                /\ wire' = IF held > 0 THEN wire ELSE Tail(wire)
           ELSE /\ wire' = IF n = Sum(wire) THEN <<>> ELSE <<Sum(wire) - n>>
                /\ UNCHANGED held
    BY DEF Read
  <1>2. /\ bidx \in Nat /\ BufferBytes \in Nat /\ held \in Nat /\ held <= ReceiveRoom
        /\ ReceiveRoom \in Nat /\ TypeOK
    BY Constants, Counters DEF IInv
  <1>3. /\ wire \in Seq(1..ReceiveRoom) /\ Sum(wire) \in Nat /\ Sum(wire) <= ReceiveRoom
        /\ Sum(wire) + held <= emitted /\ emitted \in Nat
        /\ got \in Nat /\ got + (Sum(wire) + held) = emitted
    BY Bytes
  <1>4. /\ Sum(wire) > 0 /\ Head(wire) \in 1..ReceiveRoom /\ Head(wire) <= Sum(wire)
        /\ Tail(wire) \in Seq(1..ReceiveRoom) /\ Sum(Tail(wire)) = Sum(wire) - Head(wire)
    BY <1>1, <1>2, <1>3, SumIsPositive
  <1>5. /\ Record \in Nat /\ Record > 0 /\ Record <= ReceiveRoom
        /\ held > 0 => Record = held
        /\ held = 0 => Record = Head(wire)
    BY <1>2, <1>4 DEF Record
  <1>6. x \in Nat /\ x > 0 /\ y \in Nat /\ y > 0 /\ (mode = "tls" => x = Record)
        /\ (mode # "tls" => x = Sum(wire))
    BY <1>1, <1>2, <1>3, <1>4, <1>5
  <1>7. n \in Nat /\ n > 0 /\ n <= x /\ n <= y
    <2>1. n = Min({x, y})
      BY DEF Readable
    <2>2. {x, y} \subseteq Nat /\ {x, y} # {}
      BY <1>6
    <2>3. n \in {x, y} /\ n <= x /\ n <= y
      <3>. HIDE DEF x, y, n
      <3>. QED BY <2>1, <2>2, Least
    <2>. HIDE DEF x, y, n
    <2>. QED BY <1>6, <2>3
  <1>8. bidx + n <= BufferBytes
    <2>1. n <= BufferBytes - bidx
      BY <1>7
    <2>. HIDE DEF n
    <2>. QED BY <1>2, <1>7, <2>1
  <1>9. /\ wire' \in Seq(1..ReceiveRoom) /\ held' \in Nat /\ held' <= ReceiveRoom
        /\ Sum(wire') \in Nat /\ Sum(wire') <= ReceiveRoom
        /\ Sum(wire') + held' = (Sum(wire) + held) - n
        /\ mode # "tls" => held' = 0
    <2>. HIDE DEF x, y, n
    <2>1. CASE mode = "tls"
      <3>1. held' = Record - n /\ n <= Record
        BY <1>1, <1>6, <1>7, <2>1
      <3>2. CASE held > 0
        <4>1. wire' = wire /\ Record = held
          BY <1>1, <1>5, <2>1, <3>2
        <4>. QED BY <1>2, <1>3, <1>7, <2>1, <3>1, <4>1
      <3>3. CASE held = 0
        <4>1. wire' = Tail(wire) /\ Record = Head(wire)
          BY <1>1, <1>5, <2>1, <3>3
        <4>2. Sum(wire') = Sum(wire) - Head(wire) /\ Head(wire) \in Nat
          BY <1>4, <4>1
        <4>3. /\ held' \in Nat /\ held' <= ReceiveRoom
              /\ Sum(wire') \in Nat /\ Sum(wire') <= ReceiveRoom
              /\ Sum(wire') + held' = (Sum(wire) + held) - n
          <5>1. \A a, h, k, m, c \in Nat :
                  a <= c /\ h <= a /\ h <= c /\ m <= h =>
                    /\ h - m \in Nat /\ h - m <= c /\ a - h \in Nat /\ a - h <= c
                    /\ (a - h) + (h - m) = (a + 0) - m
            BY ONLY TRUE
          <5>2. Head(wire) <= ReceiveRoom /\ n <= Head(wire)
            BY <1>4, <1>5, <3>1, <4>1
          <5>3. Sum(wire') = Sum(wire) - Head(wire) /\ held' = Head(wire) - n
            BY <3>1, <4>1, <4>2
          <5>4. /\ held = 0 /\ Head(wire) \in Nat /\ Sum(wire) \in Nat /\ n \in Nat
                /\ ReceiveRoom \in Nat /\ Sum(wire) <= ReceiveRoom /\ Head(wire) <= Sum(wire)
            BY <1>2, <1>3, <1>4, <1>7, <3>3, <4>2
          <5>5. LET a == Sum(wire)
                    h == Head(wire)
                IN  /\ h - n \in Nat /\ h - n <= ReceiveRoom /\ a - h \in Nat /\ a - h <= ReceiveRoom
                    /\ (a - h) + (h - n) = (a + 0) - n
            BY ONLY <5>1, <5>2, <5>4
          <5>. QED BY ONLY <5>3, <5>4, <5>5
        <4>. QED BY <1>4, <2>1, <4>1, <4>3
      <3>. QED BY <1>2, <3>2, <3>3
    <2>2. CASE mode # "tls"
      <3>1. held' = held /\ held = 0 /\ n <= Sum(wire)
        BY <1>1, <1>6, <1>7, <2>2 DEF IInv, WireInv
      <3>2. CASE n = Sum(wire)
        <4>1. wire' = <<>>
          BY <1>1, <2>2, <3>2
        <4>2. Sum(wire') = 0 /\ wire' \in Seq(1..ReceiveRoom)
          BY <4>1, SumOfNone
        <4>. QED BY <1>2, <1>3, <1>7, <3>1, <3>2, <4>2
      <3>3. CASE n # Sum(wire)
        <4>1. wire' = <<Sum(wire) - n>>
          BY <1>1, <2>2, <3>3
        <4>2. Sum(wire) - n \in 1..ReceiveRoom /\ Sum(wire) - n \in Nat
          BY <1>2, <1>3, <1>7, <3>1, <3>3
        <4>3. Sum(wire') = Sum(wire) - n /\ wire' \in Seq(1..ReceiveRoom)
          BY <4>1, <4>2, SumOfOne
        <4>. QED BY <1>2, <1>3, <1>7, <3>1, <4>2, <4>3
      <3>. QED BY <3>2, <3>3
    <2>. QED BY <2>1, <2>2
  <1>10. got + n <= emitted
    <2>1. n <= Sum(wire) + held
      <3>. HIDE DEF n
      <3>. QED BY <1>2, <1>3, <1>7, <1>9
    <2>. HIDE DEF n
    <2>. QED BY <1>2, <1>3, <1>7, <2>1
  <1>11. got' = emitted' - Sum(wire') - held' /\ Sum(wire)' = Sum(wire')
    BY DEF got, Sum, SumUpTo
  <1>. HIDE DEF n
  <1>12. got' = got + n /\ Sum(wire') + held' <= emitted'
    <2>. DEFINE a == Sum(wire)
                c == Sum(wire')
    <2>1. /\ a \in Nat /\ c \in Nat /\ n \in Nat /\ held \in Nat /\ held' \in Nat /\ got \in Nat
          /\ c + held' = (a + held) - n /\ got + (a + held) = emitted /\ emitted' = emitted
          /\ got' = emitted' - c - held' /\ emitted \in Nat
      BY <1>1, <1>2, <1>3, <1>7, <1>9, <1>11
    <2>. HIDE DEF a, c
    <2>2. \A u, v, z, m, g \in Nat : u + v = z - m =>
                                  /\ ((g + z) - u) - v = g + m /\ u + v <= g + z
      BY ONLY TRUE
    <2>3. PICK t \in Nat : t = a + held
      BY ONLY <2>1
    <2>4. c + held' = t - n
      BY ONLY <2>1, <2>3
    <2>5. ((got + t) - c) - held' = got + n /\ c + held' <= got + t
      BY ONLY <2>1, <2>2, <2>4, t \in Nat, ZenonT(60)
    <2>6. got + t = emitted /\ got' = (emitted - c) - held' /\ emitted' = emitted
      BY ONLY <2>1, <2>3
    <2>. QED BY ONLY <2>5, <2>6 DEF c
  <1>13. WireInv'
    BY <1>1, <1>9, <1>11, <1>12 DEF WireInv
  <1>14. held' \in 0..ReceiveRoom
    BY <1>2, <1>9
  <1>. QED BY <1>7, <1>8, <1>9, <1>10, <1>12, <1>13, <1>14 DEF n

\* The buffer then holds the beginning of what has not been counted.
LEMMA ReceivedIsGiven ==
  ASSUME IInv, Read
  PROVE  Given(Received(Readable), bidx + Readable)
  <1>. DEFINE r == Readable
              n == bidx + r
              b == Received(r)
              e == EndOf(answered)
  <1>1. /\ r \in Nat /\ r > 0 /\ n <= BufferBytes /\ got + r <= emitted
        /\ bidx \in Nat /\ BufferBytes \in Nat /\ TypeOK
    BY ReadMoves, Constants, Counters DEF IInv
  <1>2. /\ Stream /\ emitted \in Nat /\ EndOf(Len(replies)) \in Nat
        /\ emitted <= EndOf(Len(replies)) /\ e \in Nat /\ got \in Nat
    BY Bytes
  <1>3. /\ got = e + bidx
        /\ proto = "ascii" => \A i \in 1..bidx : buf[i] = ByteAt(e + i)
    BY DEF IInv, BufferInv, Read, Looping
  <1>4. answered \in 0..Len(replies) /\ proto \in {"counted", "http", "ascii"} /\ buf \in Buffers
    BY <1>1, TcpAssumption DEF TypeOK, Buffers
  <1>5. b = IF proto # "ascii" THEN buf
            ELSE [i \in 1..BufferBytes |->
                    IF i \in bidx + 1..bidx + r THEN ByteAt((got + i) - bidx) ELSE buf[i]]
    BY DEF Received
  <1>6. b \in Buffers
    <2>1. \A i : ByteAt(i) \in {"nul", "newline", "other"}
      BY DEF ByteAt
    <2>2. \A i \in 1..BufferBytes : buf[i] \in {"nul", "newline", "other"}
      BY <1>4 DEF Buffers
    <2>. HIDE DEF b, r
    <2>. QED BY <1>4, <1>5, <2>1, <2>2 DEF Buffers
  <1>. HIDE DEF r, e, b
  <1>7. n \in 1..BufferBytes /\ e + n <= EndOf(Len(replies))
    BY <1>1, <1>2, <1>3
  <1>8. ASSUME proto = "ascii", NEW i \in 1..n PROVE b[i] = ByteAt(e + i)
    <2>1. i \in Nat /\ i > 0 /\ i <= n /\ i \in 1..BufferBytes
      BY <1>1, <1>7
    <2>2. CASE i <= bidx
      <3>1. i \notin bidx + 1..bidx + r /\ i \in 1..bidx
        BY <1>1, <2>1, <2>2
      <3>2. b[i] = buf[i]
        BY <1>5, <1>8, <2>1, <3>1
      <3>. QED BY <1>3, <1>8, <3>1, <3>2
    <2>3. CASE i > bidx
      <3>1. i \in bidx + 1..bidx + r /\ (got + i) - bidx = e + i
        BY <1>1, <1>2, <1>3, <2>1, <2>3
      <3>2. b[i] = ByteAt((got + i) - bidx)
        BY <1>5, <1>8, <2>1, <3>1
      <3>. QED BY <3>1, <3>2
    <2>. QED BY <1>1, <2>1, <2>2, <2>3
  <1>. QED BY <1>2, <1>4, <1>6, <1>7, <1>8 DEF Given, r, e, b

\* What consume_response does to the buffer it is given: an assertion fails, for
\* the text parser only, or it takes the q replies of the first d bytes.
LEMMA Outcome ==
  ASSUME IInv, NEW b, NEW n, Given(b, n), pc = Looping, HandleResponse(b, n)
  PROVE  \/ /\ proto = "ascii" /\ pc' = "aborted" /\ bidx' = n /\ buf' = b
            /\ UNCHANGED <<pending, consumed, sample, answered>>
         \/ \E q, d \in Nat :
              /\ d = Off(q) /\ d <= n /\ n - d < BufferBytes /\ (q = 0 <=> d = 0)
              /\ answered + q <= Len(replies) /\ answered + q <= Done
              /\ (q > 0 => EndOf(answered + q) >= EndOf(answered) + Size(answered + 1))
              /\ answered + q < Len(replies) /\ (proto # "http" \/ q = 0) =>
                   n - d < Size((answered + q) + 1)
              /\ answered + q = Len(replies) => n = d
              /\ bidx' = n - d /\ buf' = MovedUp(b, d, n)
              /\ pc' = IF n = d THEN "loop" ELSE pc
              /\ pending' = IF mode = "latency" THEN pending ELSE pending - q
              /\ consumed' = IF Timed THEN consumed + q ELSE consumed
              /\ answered' = answered + q
              /\ sample' = IF q = 0 \/ mode = "throughput" THEN sample
                           ELSE [reply |-> answered', request |-> TimedFrom(q),
                                 timely |-> EndOf(answered') > got]
  <1>. DEFINE res == Consume(b, n)
              q == res.reqs
              d == res.bytes
              fails == \/ (d = 0 /\ n = BufferBytes)
                       \/ d > n
                       \/ (Timed /\ consumed + q > pushed)
  <1>1. /\ n \in Nat /\ n > 0 /\ n <= BufferBytes /\ BufferBytes \in Nat /\ answered \in Nat
        /\ Parses \in Nat /\ answered + Parses <= Len(replies) /\ answered < Len(replies)
        /\ Stream /\ Len(replies) \in Nat
    BY Parsed, Ends DEF Given
  <1>2. /\ q \in 0..Parses /\ d \in Nat
        /\ \/ /\ d = Off(q) /\ d <= n
              /\ answered + q < Len(replies) /\ (proto # "http" \/ q = 0) =>
                   n - d < Size((answered + q) + 1)
           \/ proto = "ascii" /\ d > n
    BY ConsumeWhole
  <1>3. IF fails
        THEN /\ pc' = "aborted" /\ bidx' = n /\ buf' = b
             /\ UNCHANGED <<pending, consumed, sample, answered>>
        ELSE /\ bidx' = Leftover(n, d) /\ buf' = MovedUp(b, d, n)
             /\ pc' = IF bidx' = 0 THEN "loop" ELSE pc
             /\ pending' = IF mode = "latency" THEN pending ELSE pending - q
             /\ consumed' = IF Timed THEN consumed + q ELSE consumed
             /\ answered' = answered + q
             /\ sample' = IF q = 0 \/ mode = "throughput" THEN sample
                          ELSE [reply |-> answered', request |-> TimedFrom(q),
                                timely |-> EndOf(answered') > got]
    BY DEF HandleResponse
  <1>. HIDE DEF res, q, d
  <1>4. CASE proto = "ascii" /\ d > n
    BY <1>3, <1>4
  <1>5. CASE /\ d = Off(q) /\ d <= n
             /\ answered + q < Len(replies) /\ (proto # "http" \/ q = 0) =>
                  n - d < Size((answered + q) + 1)
    <2>1. q \in Nat /\ answered + q <= Len(replies) /\ answered + q \in 0..Len(replies)
      BY <1>1, <1>2
    <2>2. /\ EndOf(answered) \in Nat /\ EndOf(answered + q) \in Nat
          /\ EndOf(answered + q) = EndOf(answered) + d
          /\ EndOf(answered) + n <= EndOf(Len(replies))
      <3>1. answered \in 0..Len(replies)
        BY <1>1
      <3>2. EndOf(answered) \in Nat /\ EndOf(answered + q) \in Nat
        BY <1>1, <2>1, <3>1, Ends
      <3>3. EndOf(answered) + n <= EndOf(Len(replies))
        BY DEF Given
      <3>. QED BY <1>5, <3>2, <3>3 DEF Off
    <2>3. /\ Size(answered + 1) \in Nat /\ Size(answered + 1) > 0
          /\ Size(answered + 1) <= BufferBytes
          /\ EndOf(answered + 1) = EndOf(answered) + Size(answered + 1)
      <3>1. answered + 1 \in 1..Len(replies) /\ (answered + 1) - 1 = answered
        BY <1>1
      <3>. QED BY <1>1, <3>1, Ends
    <2>4. q > 0 => EndOf(answered + q) >= EndOf(answered) + Size(answered + 1)
      <3>. SUFFICES ASSUME q > 0 PROVE EndOf(answered + q) >= EndOf(answered + 1)
        BY <2>3
      <3>1. answered + 1 \in 0..Len(replies) /\ answered + 1 <= answered + q
        BY <1>1, <2>1
      <3>2. EndOf(answered + 1) <= EndOf(answered + q) /\ EndOf(answered + 1) \in Nat
        BY <1>1, <2>1, <3>1, NotDecreasing, Ends
      <3>. QED BY <2>2, <3>2
    <2>5. q = 0 <=> d = 0
      <3>1. q = 0 => d = 0
        <4>1. q = 0 => answered + q = answered
          BY <1>1
        <4>. QED BY <1>2, <2>2, <4>1
      <3>2. q > 0 => d > 0
        BY <1>2, <2>2, <2>3, <2>4
      <3>. QED BY <1>2, <2>1, <3>1, <3>2
    <2>6. n - d < BufferBytes \/ n - d = BufferBytes
      BY <1>1, <1>2, <1>5
    <2>7. ~(d = 0 /\ n = BufferBytes)
      <3>. SUFFICES ASSUME d = 0, n = BufferBytes PROVE FALSE
        OBVIOUS
      <3>1. q = 0 /\ answered + q = answered
        BY <1>1, <2>5
      <3>2. n - d < Size(answered + 1)
        BY <1>1, <1>5, <3>1
      <3>. QED BY <1>1, <2>3, <3>2
    <2>8. n - d < BufferBytes
      BY <1>1, <1>2, <1>5, <2>7
    <2>9. answered + q <= Done
      <3>1. Len(replies) <= Done /\ Done \in Nat
        <4>1. Len(replies) <= Done
          BY DEF IInv, ServerInv
        <4>2. issued \in Nat /\ left \in Nat /\ (left > 0 => issued > 0)
          BY Counters DEF IInv, RequestInv
        <4>. QED BY <4>1, <4>2 DEF Done
      <3>. QED BY <1>1, <2>1, <3>1
    <2>10. ~(Timed /\ consumed + q > pushed)
      <3>1. /\ pushed = IF Timed THEN Done ELSE 0
            /\ consumed = IF Timed THEN answered ELSE 0
        BY DEF IInv, RequestInv
      <3>2. Done \in Int
        <4>1. issued \in Nat
          BY Counters DEF IInv
        <4>. QED BY <4>1 DEF Done
      <3>. QED BY <1>1, <2>1, <2>9, <3>1, <3>2
    <2>11. answered + q = Len(replies) => n = d
      BY <1>1, <1>2, <1>5, <2>2
    <2>12. ~fails
      BY <1>1, <1>2, <1>5, <2>7, <2>10
    <2>13. bidx' = n - d /\ (bidx' = 0 <=> n = d)
      BY <1>1, <1>2, <1>3, <2>12 DEF Leftover
    <2>14. /\ buf' = MovedUp(b, d, n)
           /\ pc' = IF n = d THEN "loop" ELSE pc
           /\ pending' = IF mode = "latency" THEN pending ELSE pending - q
           /\ consumed' = IF Timed THEN consumed + q ELSE consumed
           /\ answered' = answered + q
           /\ sample' = IF q = 0 \/ mode = "throughput" THEN sample
                        ELSE [reply |-> answered', request |-> TimedFrom(q),
                              timely |-> EndOf(answered') > got]
      BY <1>3, <2>12, <2>13
    <2>. HIDE DEF fails
    <2>. QED BY <1>2, <1>5, <2>1, <2>4, <2>5, <2>8, <2>9, <2>11, <2>13, <2>14
  <1>. QED BY <1>2, <1>4, <1>5

\* What every read leaves alone, and what it makes of the socket.
LEMMA ReadRest ==
  ASSUME IInv, Read
  PROVE  /\ pc = Looping /\ pc \in {"loop", "recv"} /\ ~closed /\ left = 0 /\ Done = issued
         /\ UNCHANGED <<mode, proto, left, closed, pushed, slot, issued, written, srvRead,
                        replies, emitted, peerOpen>>
         /\ Done' = Done /\ Timed' = Timed /\ OneByOne' = OneByOne
         /\ StreamInv' /\ ServerInv'
         /\ \A k : EndOf(k)' = EndOf(k) /\ Size(k)' = Size(k)
         /\ \A i : ByteAt(i)' = ByteAt(i)
         /\ (emitted \in 0..EndOf(Len(replies)))'
  <1>1. /\ pc = Looping /\ pc \in {"loop", "recv"} /\ ~closed
        /\ UNCHANGED <<mode, proto, left, closed, pushed, slot, issued, written, srvRead,
                       replies, emitted, peerOpen>>
    BY DEF Read, Looping
  <1>2. left = 0
    <2>1. left \in Nat /\ ~(left > 0)
      BY <1>1, Counters DEF IInv, RequestInv
    <2>. QED BY <2>1
  <1>3. Done = issued /\ Done' = Done /\ Timed' = Timed /\ OneByOne' = OneByOne
    BY <1>1, <1>2 DEF Done, Timed, OneByOne
  <1>4. /\ \A k : EndOf(k)' = EndOf(k) /\ Size(k)' = Size(k)
        /\ \A i : ByteAt(i)' = ByteAt(i)
    BY <1>1, SameEnds DEF ByteAt
  <1>5. StreamInv' /\ ServerInv'
    BY <1>1, SameStream, SameServer DEF IInv
  <1>6. (emitted \in 0..EndOf(Len(replies)))'
    BY <1>1 DEF IInv, TypeOK, EndOf
  <1>. QED BY <1>1, <1>2, <1>3, <1>4, <1>5, <1>6

\* An assertion fails.
LEMMA AbortKeeps ==
  ASSUME IInv, Read, NEW b \in Buffers, NEW n \in 0..BufferBytes,
         proto = "ascii", pc' = "aborted", bidx' = n, buf' = b,
         UNCHANGED <<pending, consumed, sample, answered>>
  PROVE  IInv'
  <1>1. /\ pc \in {"loop", "recv"} /\ ~closed /\ left = 0
        /\ UNCHANGED <<mode, proto, left, closed, pushed, slot, issued, written, srvRead,
                       replies, emitted, peerOpen>>
        /\ Done' = Done /\ Timed' = Timed /\ StreamInv' /\ ServerInv'
        /\ (emitted \in 0..EndOf(Len(replies)))'
    BY ReadRest
  <1>2. wire' \in Seq(1..ReceiveRoom) /\ held' \in 0..ReceiveRoom /\ WireInv'
    BY ReadMoves
  <1>3. TypeOK'
    BY <1>1, <1>2 DEF IInv, TypeOK, Buffers
  <1>4. RequestInv'
    BY <1>1 DEF IInv, RequestInv
  <1>5. LatencyInv' /\ BufferInv' /\ AbortInv' /\ SamplesTimely'
    BY <1>1 DEF IInv, LatencyInv, BufferInv, AbortInv, SamplesTimely
  <1>. QED BY <1>1, <1>2, <1>3, <1>4, <1>5 DEF IInv

\* A read that is handled: q replies of d bytes are taken.
LEMMA HandledKeeps ==
  ASSUME IInv, Read, NEW b, NEW n, n = bidx + Readable, Given(b, n),
         NEW q \in Nat, NEW d \in Nat,
         d = Off(q), d <= n, n - d < BufferBytes, q = 0 <=> d = 0,
         answered + q <= Len(replies), answered + q <= Done,
         q > 0 => EndOf(answered + q) >= EndOf(answered) + Size(answered + 1),
         answered + q < Len(replies) /\ (proto # "http" \/ q = 0) =>
           n - d < Size((answered + q) + 1),
         answered + q = Len(replies) => n = d,
         bidx' = n - d, buf' = MovedUp(b, d, n),
         pc' = IF n = d THEN "loop" ELSE pc,
         pending' = IF mode = "latency" THEN pending ELSE pending - q,
         consumed' = IF Timed THEN consumed + q ELSE consumed,
         answered' = answered + q,
         sample' = IF q = 0 \/ mode = "throughput" THEN sample
                   ELSE [reply |-> answered', request |-> TimedFrom(q),
                         timely |-> EndOf(answered') > got]
  PROVE  IInv'
  <1>1. /\ pc = Looping /\ pc \in {"loop", "recv"} /\ ~closed /\ left = 0 /\ Done = issued
        /\ UNCHANGED <<mode, proto, left, closed, pushed, slot, issued, written, srvRead,
                       replies, emitted, peerOpen>>
        /\ Done' = Done /\ Timed' = Timed /\ OneByOne' = OneByOne
        /\ StreamInv' /\ ServerInv'
        /\ (emitted \in 0..EndOf(Len(replies)))'
    BY ReadRest
  <1>2. /\ wire' \in Seq(1..ReceiveRoom) /\ held' \in 0..ReceiveRoom /\ WireInv'
        /\ Readable \in Nat /\ Readable > 0 /\ got' = got + Readable
    BY ReadMoves
  <1>3. /\ bidx \in Nat /\ BufferBytes \in Nat /\ consumed \in Nat /\ pushed \in Nat
        /\ issued \in Nat /\ answered \in Nat /\ Len(replies) \in Nat /\ pending \in Nat
        /\ pending <= MaxPending /\ MaxPending \in Nat /\ TypeOK
    BY Constants, Counters DEF IInv
  <1>4. n \in Nat /\ n > 0 /\ n <= BufferBytes /\ b \in Buffers /\ answered < Len(replies) /\ Stream
    BY Parsed DEF Given
  <1>5. /\ EndOf(answered) \in Nat /\ EndOf(answered') \in Nat /\ got \in Nat
        /\ EndOf(answered') = EndOf(answered) + d /\ got = EndOf(answered) + bidx
    <2>1. answered' \in 0..Len(replies)
      BY <1>3
    <2>2. got = EndOf(answered) + bidx
      BY <1>1 DEF IInv, BufferInv
    <2>3. EndOf(answered) \in Nat /\ EndOf(answered') \in Nat /\ got \in Nat
      BY <1>4, <2>1, Ends, Bytes
    <2>4. d = EndOf(answered') - EndOf(answered)
      BY DEF Off
    <2>. QED BY <2>2, <2>3, <2>4
  <1>6. /\ pending = IF mode = "latency" THEN 0 ELSE Done - answered
        /\ pushed = IF Timed THEN Done ELSE 0
        /\ consumed = IF Timed THEN answered ELSE 0
        /\ \A i \in consumed..pushed - 1 : slot[i % MaxPending] = i + 1
    BY DEF IInv, RequestInv
  <1>7. /\ pending' = IF mode = "latency" THEN 0 ELSE Done - answered'
        /\ consumed' = IF Timed THEN answered' ELSE 0
        /\ consumed' \in 0..pushed /\ pending' \in 0..MaxPending
    <2>1. pending' = IF mode = "latency" THEN 0 ELSE Done - answered'
      BY <1>1, <1>3, <1>6
    <2>2. pending' \in 0..MaxPending
      BY <1>1, <1>3, <2>1
    <2>3. consumed' = (IF Timed THEN answered' ELSE 0) /\ consumed' \in 0..pushed
      BY <1>1, <1>3, <1>6
    <2>. QED BY <2>1, <2>2, <2>3
  <1>8. bidx' \in 0..BufferBytes /\ bidx' < BufferBytes /\ bidx' \in Nat
    BY <1>3, <1>4
  <1>9. mode = "latency" => q <= 1 /\ (q = 1 => answered' = issued /\ n = d)
                            /\ (q = 0 => n # d /\ answered + 1 = issued)
    <2>. SUFFICES ASSUME mode = "latency"
                  PROVE  q <= 1 /\ (q = 1 => answered' = issued /\ n = d)
                         /\ (q = 0 => n # d /\ answered + 1 = issued)
      OBVIOUS
    <2>1. answered + 1 = issued
      BY <1>1 DEF IInv, LatencyInv, Looping
    <2>2. Len(replies) <= issued
      BY <1>1 DEF IInv, ServerInv
    <2>3. q = 0 => n # d
      BY <1>4
    <2>. QED BY <1>1, <1>3, <2>1, <2>2, <2>3
  <1>10. q > 0 /\ mode # "throughput" =>
           /\ TimedFrom(q) = answered' /\ answered' \in 0..issued
           /\ (EndOf(answered') > got \/ OneByOne)
    <2>. SUFFICES ASSUME q > 0, mode # "throughput"
                  PROVE  /\ TimedFrom(q) = answered' /\ answered' \in 0..issued
                         /\ (EndOf(answered') > got \/ OneByOne)
      OBVIOUS
    <2>1. answered' \in 0..issued
      BY <1>1, <1>3
    <2>2. ASSUME mode = "latency" PROVE TimedFrom(q) = answered'
      <3>1. q = 1
        BY <1>9, <2>2
      <3>2. TimedFrom(q) = issued
        BY <2>2 DEF TimedFrom
      <3>. QED BY <1>9, <2>2, <3>1, <3>2
    <2>3. ASSUME mode # "latency" PROVE TimedFrom(q) = answered'
      <3>1. Timed
        BY <1>3, <2>3, TcpAssumption DEF TypeOK, Timed
      <3>. DEFINE i == (consumed + q) - 1
      <3>2. TimedFrom(q) = slot[i % MaxPending]
        BY <2>3 DEF TimedFrom
      <3>3. i \in consumed..pushed - 1 /\ i + 1 = answered'
        BY <1>3, <1>6, <3>1
      <3>. HIDE DEF i
      <3>4. TimedFrom(q) = answered'
        BY <1>6, <3>2, <3>3
      <3>. QED BY <3>4
    <2>4. EndOf(answered') > got \/ OneByOne
      <3>. SUFFICES ASSUME ~OneByOne PROVE EndOf(answered') > got
        OBVIOUS
      <3>1. bidx < Size(answered + 1)
        BY <1>1, <1>4 DEF IInv, BufferInv
      <3>2. EndOf(answered') >= EndOf(answered) + Size(answered + 1)
        OBVIOUS
      <3>3. Size(answered + 1) \in Nat
        <4>1. answered + 1 \in 1..Len(replies)
          BY <1>3, <1>4
        <4>. QED BY <1>4, <4>1, Ends
      <3>4. \A x, y, z, u, v \in Nat : u = x + y /\ y < z /\ v >= x + z => v > u
        BY ONLY TRUE
      <3>. QED BY ONLY <1>3, <1>5, <3>1, <3>2, <3>3, <3>4
    <2>. QED BY <2>1, <2>2, <2>3, <2>4
  <1>11. TypeOK'
    <2>1. (pc # "aborted" => bidx < BufferBytes)' /\ pc' \in {"loop", "send", "recv", "ended", "aborted"}
      BY <1>1, <1>8
    <2>2. (buf \in [1..BufferBytes -> {"nul", "newline", "other"}])'
      <3>1. ASSUME NEW i \in 1..BufferBytes, i <= n - d PROVE i + d \in 1..BufferBytes
        BY ONLY <1>3, <1>4, <3>1, i \in 1..BufferBytes, d \in Nat
      <3>. QED BY <1>4, <3>1 DEF MovedUp, Buffers
    <2>3. (sample \in [reply : 0..answered, request : 0..issued, timely : BOOLEAN])'
      <3>1. sample \in [reply : 0..answered, request : 0..issued, timely : BOOLEAN]
        BY <1>3 DEF TypeOK
      <3>2. sample \in [reply : 0..answered', request : 0..issued, timely : BOOLEAN]
        BY <1>3, <3>1
      <3>3. q > 0 /\ mode # "throughput" =>
              /\ answered' \in 0..answered' /\ TimedFrom(q) \in 0..issued
              /\ (EndOf(answered') > got) \in BOOLEAN
        BY <1>3, <1>10
      <3>. QED BY <1>1, <3>2, <3>3
    <2>4. (answered \in 0..Len(replies))' /\ (consumed \in 0..pushed)' /\ (pending \in 0..MaxPending)'
          /\ (bidx \in 0..BufferBytes)'
      BY <1>1, <1>3, <1>7, <1>8
    <2>. QED BY <1>1, <1>2, <1>3, <2>1, <2>2, <2>3, <2>4 DEF TypeOK
  <1>12. RequestInv'
    <2>1. ASSUME NEW i \in consumed'..pushed' - 1 PROVE slot'[i % MaxPending] = i + 1
      <3>1. consumed' >= consumed /\ consumed' \in Nat
        BY <1>3
      <3>2. i \in consumed..pushed - 1
        BY <1>1, <1>3, <3>1
      <3>. QED BY <1>1, <1>6, <3>2
    <2>. QED BY <1>1, <1>6, <1>7, <2>1 DEF RequestInv
  <1>13. LatencyInv'
    <2>1. mode = "latency" => pc = "recv"
      BY <1>1 DEF Looping
    <2>2. q = 0 => answered' = answered
      BY <1>3
    <2>. QED BY <1>1, <1>9, <2>1, <2>2 DEF LatencyInv
  <1>14. BufferInv'
    <2>1. (EndOf(answered))' = EndOf(answered') /\ (Size(answered + 1))' = Size(answered' + 1)
      BY <1>1 DEF Size, EndOf
    <2>2. (got = EndOf(answered) + bidx)'
      <3>1. \A x, y, z, r, m \in Nat : m <= y + r => (x + y) + r = (x + m) + ((y + r) - m)
        BY ONLY TRUE
      <3>2. (EndOf(answered) + bidx) + Readable = (EndOf(answered) + d) + ((bidx + Readable) - d)
        BY ONLY <1>2, <1>3, <1>5, <3>1, d \in Nat, d <= n, n = bidx + Readable
      <3>. QED BY <1>2, <1>5, <2>1, <3>2
    <2>3. (~OneByOne /\ answered < Len(replies) => bidx < Size(answered + 1))'
      <3>. SUFFICES ASSUME ~OneByOne, answered' < Len(replies)
                    PROVE  bidx' < Size(answered' + 1)
        BY <1>1, <2>1
      <3>1. proto # "http" \/ q = 0
        <4>1. mode = "latency" => q = 0
          <5>1. Len(replies) <= issued
            BY <1>1 DEF IInv, ServerInv
          <5>2. mode = "latency" => q # 1
            BY <1>3, <1>9, <5>1
          <5>. QED BY <1>9, <5>2
        <4>. QED BY <4>1 DEF OneByOne
      <3>. QED BY <3>1
    <2>4. ASSUME proto' = "ascii", NEW i \in 1..bidx' PROVE buf'[i] = (ByteAt(EndOf(answered) + i))'
      <3>1. i \in 1..BufferBytes /\ i <= n - d /\ i + d \in 1..n
        BY ONLY <1>3, <1>4, <1>8, i \in 1..bidx', bidx' = n - d, d \in Nat
      <3>2. buf'[i] = b[i + d]
        BY <3>1 DEF MovedUp
      <3>3. b[i + d] = ByteAt(EndOf(answered) + (i + d))
        BY <1>1, <2>4, <3>1 DEF Given
      <3>4. EndOf(answered) + (i + d) = EndOf(answered') + i
        BY ONLY <1>3, <1>5, <3>1, d \in Nat
      <3>5. (ByteAt(EndOf(answered) + i))' = ByteAt(EndOf(answered') + i)
        BY <1>1, <2>1 DEF ByteAt
      <3>. QED BY <3>2, <3>3, <3>4, <3>5
    <2>. QED BY <2>2, <2>3, <2>4 DEF BufferInv
  <1>15. AbortInv'
    BY <1>1 DEF AbortInv
  <1>16. SamplesTimely'
    <2>1. SamplesTimely
      BY DEF IInv
    <2>2. CASE q = 0 \/ mode = "throughput"
      BY <1>1, <2>1, <2>2 DEF SamplesTimely
    <2>3. CASE ~(q = 0 \/ mode = "throughput")
      <3>1. sample' = [reply |-> answered', request |-> TimedFrom(q),
                       timely |-> EndOf(answered') > got]
        BY <2>3
      <3>2. q > 0
        BY <2>3
      <3>3. sample'.request = sample'.reply
        BY <1>10, <2>3, <3>1, <3>2
      <3>4. ASSUME EndOf(answered') > got PROVE sample'.timely = TRUE
        <4>. DEFINE t == EndOf(answered') > got
        <4>1. sample' = [reply |-> answered', request |-> TimedFrom(q), timely |-> t]
          BY <3>1
        <4>2. t = TRUE
          BY <3>4
        <4>. HIDE DEF t
        <4>3. sample' = [reply |-> answered', request |-> TimedFrom(q), timely |-> TRUE]
          BY <4>1, <4>2
        <4>. QED BY <4>3
      <3>5. sample'.timely \/ OneByOne
        BY <1>10, <2>3, <3>2, <3>4
      <3>. QED BY <1>1, <3>3, <3>5, Zenon DEF SamplesTimely, OneByOne
    <2>. QED BY <2>2, <2>3
  <1>. QED BY <1>1, <1>2, <1>11, <1>12, <1>13, <1>14, <1>15, <1>16 DEF IInv

LEMMA ReadKeeps ==
  ASSUME IInv, Read
  PROVE  IInv'
  <1>. DEFINE n == bidx + Readable
              b == Received(Readable)
  <1>1. Given(b, n) /\ HandleResponse(b, n) /\ pc = Looping
    BY ReceivedIsGiven DEF Read
  <1>2. b \in Buffers /\ n \in 0..BufferBytes
    BY <1>1, Constants DEF Given
  <1>3. n = bidx + Readable
    OBVIOUS
  <1>. HIDE DEF n, b
  <1>4. CASE /\ proto = "ascii" /\ pc' = "aborted" /\ bidx' = n /\ buf' = b
             /\ UNCHANGED <<pending, consumed, sample, answered>>
    BY <1>2, <1>4, AbortKeeps
  <1>5. CASE ~(/\ proto = "ascii" /\ pc' = "aborted" /\ bidx' = n /\ buf' = b
               /\ UNCHANGED <<pending, consumed, sample, answered>>)
    <2>1. PICK q, d \in Nat :
            /\ d = Off(q) /\ d <= n /\ n - d < BufferBytes /\ (q = 0 <=> d = 0)
            /\ answered + q <= Len(replies) /\ answered + q <= Done
            /\ (q > 0 => EndOf(answered + q) >= EndOf(answered) + Size(answered + 1))
            /\ answered + q < Len(replies) /\ (proto # "http" \/ q = 0) =>
                 n - d < Size((answered + q) + 1)
            /\ answered + q = Len(replies) => n = d
            /\ bidx' = n - d /\ buf' = MovedUp(b, d, n)
            /\ pc' = IF n = d THEN "loop" ELSE pc
            /\ pending' = IF mode = "latency" THEN pending ELSE pending - q
            /\ consumed' = IF Timed THEN consumed + q ELSE consumed
            /\ answered' = answered + q
            /\ sample' = IF q = 0 \/ mode = "throughput" THEN sample
                         ELSE [reply |-> answered', request |-> TimedFrom(q),
                               timely |-> EndOf(answered') > got]
      BY <1>1, <1>5, Outcome
    <2>. QED BY <1>1, <1>3, <2>1, HandledKeeps
  <1>. QED BY <1>4, <1>5

-----------------------------------------------------------------------------
(* The theorems.                                                           *)

LEMMA NextIInv == IInv /\ [Next]_vars => IInv'
  <1>. SUFFICES ASSUME IInv, [Next]_vars PROVE IInv'
    OBVIOUS
  <1>1. CASE StartRequest
    BY <1>1, StartRequestKeeps
  <1>2. CASE Writing
    BY <1>2, WriteKeeps, WriteRecordKeeps, WriteFailsKeeps DEF Writing
  <1>3. CASE Reading
    BY <1>3, ReadKeeps, ReadNothingKeeps, ReadFailsKeeps DEF Reading
  <1>4. CASE Server
    BY <1>4, ServerReadsKeeps, ServerWritesKeeps DEF Server
  <1>5. CASE ServerCloses
    BY <1>5, ServerClosesKeeps
  <1>6. CASE UNCHANGED vars
    <2>1. /\ UNCHANGED <<mode, proto, left, pending, bidx, buf, pushed, consumed, slot,
                         sample, issued, answered, network>>
          /\ pc' = pc /\ closed' = closed
      BY <1>6 DEF vars, thread
    <2>. QED BY <2>1, StopKeeps
  <1>. QED BY <1>1, <1>2, <1>3, <1>4, <1>5, <1>6 DEF Next

LEMMA Invariant == Spec => []IInv
  <1>. QED BY InitIInv, NextIInv, PTL DEF Spec

\* However long requests, replies and buffers are, every counter stays in its
\* range: no more than MaxPending requests wait and the ring of transmit times is
\* not overrun (pick_conn, tp_tcp.c:50-64), and a read is never asked for nothing
\* (the lengths in tp_tcp.c:316 and 667).
THEOREM TypeCorrect == Spec => []TypeOK
  <1>1. IInv => TypeOK
    BY DEF IInv
  <1>. QED BY <1>1, Invariant, PTL

\* The reads may cut the stream anywhere: what stays in the buffer begins at the
\* first reply that has not been counted, and only the text parser and SSL_write
\* can fail an assertion (handle_response, tp_tcp.c:722-756).
THEOREM InSync == Spec => []FramingInSync
  <1>1. ASSUME IInv PROVE FramingInSync
    <2>1. (answered + 1) - 1 = answered
      BY <1>1, Counters DEF IInv
    <2>2. Size(answered + 1) = EndOf(answered + 1) - EndOf(answered)
      BY <2>1 DEF Size
    <2>. QED BY <1>1, <2>2 DEF IInv, BufferInv, AbortInv, FramingInSync, OneByOne
  <1>. QED BY <1>1, Invariant, PTL

\* A latency sample is the time between a reply and the request it answers, taken
\* by the read that made the reply whole (tp_tcp.c:398-409, 680-710).
THEOREM Timely == Spec => []SamplesTimely
  <1>1. IInv => SamplesTimely
    BY DEF IInv
  <1>. QED BY <1>1, Invariant, PTL

=============================================================================
