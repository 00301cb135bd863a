------------------------------ MODULE HttpProofs ------------------------------
(***************************************************************************)
(* The HTTP server, for any number of workers, connections and requests,   *)
(* and any size of a buffer: it does with sockets what Sockets says, and   *)
(* hands over the requests that were sent.                                 *)
(***************************************************************************)
EXTENDS Http, TLAPS

S == INSTANCE SocketsProofs

-----------------------------------------------------------------------------
(* The invariant.                                                           *)

Typed ==
  /\ queue \in Seq(Connections)
  /\ pc \in [Workers -> {"idle", "header", "content", "handling"}]
  /\ sock \in [Workers -> Connections \cup {"none"}]

\* The idle workers are those without a socket.
IdleHoldsNone == \A w \in Workers : pc[w] = "idle" <=> sock[w] = "none"

Inv == Typed /\ IdleHoldsNone

LEMMA InitInv == Init => Inv /\ S!Init
BY HttpAssumption DEF Init, Inv, Typed, IdleHoldsNone, S!Init

-----------------------------------------------------------------------------
(* Each step is one of Sockets, or touches no socket.                       *)

LEMMA AcceptStep == ASSUME Inv, NEW c \in Connections, Accept(c) PROVE Inv' /\ S!Accept(c)
<1>1. /\ place[c] = "new" /\ place' = [place EXCEPT ![c] = "queued"]
      /\ queue' = Append(queue, c) /\ UNCHANGED <<pc, sock>>
  BY DEF Accept
<1>2. Inv'
  BY <1>1 DEF Inv, Typed, IdleHoldsNone
<1> QED BY <1>1, <1>2 DEF S!Accept

LEMMA DequeueStep == ASSUME Inv, NEW w \in Workers, Dequeue(w) PROVE Inv' /\ S!Take(w)
<1> DEFINE c == Head(queue)
<1>1. /\ pc[w] = "idle" /\ queue # <<>>
      /\ sock' = [sock EXCEPT ![w] = c] /\ place' = [place EXCEPT ![c] = "worker"]
      /\ queue' = Tail(queue) /\ pc' = [pc EXCEPT ![w] = "header"]
  BY DEF Dequeue
<1>2. c \in Connections /\ queue' \in Seq(Connections)
  BY <1>1 DEF Inv, Typed
<1>3. Inv'
  BY <1>1, <1>2, HttpAssumption DEF Inv, Typed, IdleHoldsNone
<1>4. sock[w] = "none"
  BY <1>1 DEF Inv, IdleHoldsNone
<1> QED BY <1>1, <1>3, <1>4 DEF S!Take

\* A worker leaves its socket somewhere, and is idle.
LEMMA LeaveStep ==
  ASSUME Inv, NEW w \in Workers, pc[w] # "idle", NEW p, LeaveSocket(w, p),
         queue' \in Seq(Connections)
  PROVE  Inv' /\ S!GiveUp(w, p) /\ sock[w] \in Connections
<1>1. /\ place' = [place EXCEPT ![sock[w]] = p] /\ sock' = [sock EXCEPT ![w] = "none"]
      /\ pc' = [pc EXCEPT ![w] = "idle"]
  BY DEF LeaveSocket
<1>2. Inv'
  BY <1>1 DEF Inv, Typed, IdleHoldsNone
<1>3. sock[w] # "none" /\ sock[w] \in Connections
  BY DEF Inv, Typed, IdleHoldsNone
<1> QED BY <1>1, <1>2, <1>3 DEF S!GiveUp

\* ... somewhere else than in the queue.
LEMMA PartStep ==
  ASSUME Inv, NEW w \in Workers, pc[w] # "idle", NEW p \in {"parked", "closed"},
         LeaveSocket(w, p), UNCHANGED queue
  PROVE  Inv' /\ S!Part(w)
BY LeaveStep DEF S!Part, Inv, Typed

LEMMA CloseStep ==
  ASSUME Inv, NEW w \in Workers, pc[w] # "idle", Close(w) PROVE Inv' /\ S!Part(w)
BY PartStep DEF Close

\* A worker goes on, with its socket.
LEMMA WorkerGoesOn ==
  ASSUME Inv, NEW w \in Workers, pc[w] # "idle", NEW p \in {"header", "content", "handling"},
         pc' = [pc EXCEPT ![w] = p], UNCHANGED <<place, queue, sock>>
  PROVE  Inv' /\ UNCHANGED S!vars
BY DEF Inv, Typed, IdleHoldsNone, S!vars

LEMMA NothingMoves ==
  ASSUME Inv, UNCHANGED <<place, queue, pc, sock>> PROVE Inv' /\ UNCHANGED S!vars
BY DEF Inv, Typed, IdleHoldsNone, S!vars

LEMMA BusyWants == ASSUME NEW w \in Workers, Wants(w) PROVE pc[w] # "idle"
BY DEF Wants

LEMMA GrowStep ==
  ASSUME Inv, NEW w \in Workers, Grow(w) PROVE Inv' /\ (S!Part(w) \/ UNCHANGED S!vars)
<1>1. pc[w] # "idle"
  BY BusyWants DEF Grow
<1>2. CASE TooLarge(w)
  BY <1>1, <1>2, CloseStep DEF Grow
<1>3. CASE ~TooLarge(w)
  BY <1>3, NothingMoves DEF Grow
<1> QED BY <1>2, <1>3

LEMMA ParseStep ==
  ASSUME Inv, NEW w \in Workers, Parse(w) PROVE Inv' /\ (S!Part(w) \/ UNCHANGED S!vars)
<1>1. pc[w] # "idle"
  BY DEF Parse
<1>2. CASE Request(w).malformed
  BY <1>1, <1>2, CloseStep DEF Parse
<1>3. CASE ~Request(w).malformed
  BY <1>1, <1>3, WorkerGoesOn DEF Parse
<1> QED BY <1>2, <1>3

LEMMA CallStep ==
  ASSUME Inv, NEW w \in Workers, Call(w) PROVE Inv' /\ (S!Part(w) \/ UNCHANGED S!vars)
<1>1. pc[w] # "idle"
  BY DEF Call
<1>2. CASE Request(w).method = "bad"
  BY <1>1, <1>2, CloseStep DEF Call
<1>3. CASE Request(w).method # "bad"
  BY <1>1, <1>3, WorkerGoesOn DEF Call
<1> QED BY <1>2, <1>3

LEMMA AnswerStep ==
  ASSUME Inv, NEW w \in Workers, Answer(w)
  PROVE  Inv' /\ (S!Part(w) \/ S!PutBack(w) \/ UNCHANGED S!vars)
<1>1. pc[w] # "idle"
  BY DEF Answer
<1>2. CASE Close(w)
  BY <1>1, <1>2, CloseStep
<1>3. CASE queue' = Append(queue, sock[w]) /\ LeaveSocket(w, "queued")
  <2>1. queue' \in Seq(Connections)
    BY <1>1, <1>3 DEF Inv, Typed, IdleHoldsNone
  <2> QED BY <1>1, <1>3, <2>1, LeaveStep DEF S!PutBack
<1>4. CASE pc' = [pc EXCEPT ![w] = "header"] /\ UNCHANGED <<place, queue, sock>>
  BY <1>1, <1>4, WorkerGoesOn
<1> QED BY <1>2, <1>3, <1>4 DEF Answer

LEMMA DeliverStep == ASSUME Inv, NEW c \in Connections, Deliver(c) PROVE Inv' /\ S!Deliver(c)
<1>1. /\ place[c] = "parked" /\ place' = [place EXCEPT ![c] = "closed"]
      /\ UNCHANGED <<queue, pc, sock>>
  BY DEF Deliver
<1> QED BY <1>1 DEF Inv, Typed, IdleHoldsNone, S!Deliver

LEMMA NextStep == ASSUME Inv, [Next]_vars PROVE Inv' /\ [S!Next]_(S!vars)
<1>1. ASSUME NEW w \in Workers, Work(w)
      PROVE  Inv' /\ (S!Take(w) \/ S!Part(w) \/ S!PutBack(w) \/ UNCHANGED S!vars)
  <2>1. CASE Recv(w)
    BY <2>1, NothingMoves DEF Recv
  <2>2. CASE GiveUp(w)
    BY <2>2, BusyWants, CloseStep DEF GiveUp, RecvFails
  <2>3. CASE KeepOpen(w)
    BY <2>3, PartStep DEF KeepOpen, HandOver
  <2> QED BY <1>1, <2>1, <2>2, <2>3, DequeueStep, GrowStep, ParseStep, CallStep, AnswerStep
          DEF Work
<1>2. CASE UNCHANGED vars
  BY <1>2, NothingMoves DEF vars, conns
<1> QED BY <1>1, <1>2, AcceptStep, DeliverStep DEF Next, S!Next

-----------------------------------------------------------------------------
(* The invariant of the streams.                                            *)

Requests == UNION {Range(s) : s \in Streams}
Byte     == [req : Requests, at : Nat]
Size(r)  == r.header + Length(r)

\* at[i] is the place up to which the first i requests of s reach.
Reaches(s, at) ==
  /\ at \in [0..Len(s) -> Nat] /\ at[0] = 0 /\ at[Len(s)] = Len(Bytes[s])
  /\ \A i \in 1..Len(s) :
       /\ at[i] = at[i-1] + Size(s[i])
       /\ \A k \in 1..Size(s[i]) : Bytes[s][at[i-1] + k] = [req |-> s[i], at |-> k]
  /\ \A i, j \in 0..Len(s) : i <= j => at[i] <= at[j]

At(s, i) == (CHOOSE at : Reaches(s, at))[i]

\* A buffer doubles until request r fits, and stays within the limit.
Doublings(sizes, r) ==
  /\ FirstSize \in sizes
  /\ \A n \in sizes : n <= Size(r) => 2 * n \in sizes /\ 2 * n <= MaxSize

\* Every body has room in a buffer.
BodiesFit == \A r \in Requests : Length(r) > 0 => \E sizes \in SUBSET Nat : Doublings(sizes, r)

\* No Content-Length is below 0: such a one would leave the end of the header in the buffer.
LengthsAreNatural == \A r \in Requests : r.contentLength >= 0

\* Browsers send nothing behind a form before it is answered.
FormsAreLast == \A s \in Streams : \A i \in 1..Len(s) : s[i].method = "POST" => i = Len(s)

Sizes(r) == CHOOSE sizes \in SUBSET Nat : Doublings(sizes, r)

StreamTyped ==
  /\ stream \in [Connections -> Streams \cup {<<>>}]
  /\ received \in [Connections -> Nat]
  /\ got \in [Connections -> Seq(Requests)]
  /\ buf \in [Workers -> Seq(Byte)]
  /\ bufSize \in [Workers -> Nat]

\* Of a connection: uw_request was called with the first requests of its stream, and one in the
\* queue has no request half read.
ConnectionOk(c) ==
  /\ place[c] # "new" => stream[c] \in Streams
  /\ place[c] = "new" => stream[c] = <<>> /\ received[c] = 0 /\ got[c] = <<>>
  /\ place[c] = "queued" => received[c] = At(stream[c], Len(got[c]))
  /\ Len(got[c]) <= Len(stream[c])
  /\ \A i \in 1..Len(got[c]) : got[c][i] = stream[c][i]

\* Of the r bytes of s that were received, b are those behind the first n requests.
Holding(b, s, n, r) ==
  /\ r = At(s, n) + Len(b) /\ r <= Len(Bytes[s])
  /\ \A k \in 1..Len(b) : b[k] = Bytes[s][At(s, n) + k]

\* Of a worker: its buffer begins with the request it reads, or the one it handles.
WorkerOk(w) ==
  /\ LET s == stream[sock[w]]
         n == Len(got[sock[w]])
         r == received[sock[w]]
         b == buf[w]
     IN /\ pc[w] = "header" => Holding(b, s, n, r)
        /\ pc[w] = "content" => Holding(b, s, n, r) /\ n < Len(s) /\ s[n+1].header <= Len(b)
        /\ pc[w] = "handling" => n >= 1 /\ Holding(b, s, n - 1, r) /\ Size(s[n]) <= Len(b)
  /\ \A q \in Requests : Length(q) > 0 => bufSize[w] \in Sizes(q) \/ bufSize[w] > Size(q)

StreamInv ==
  /\ Inv /\ S!Inv /\ StreamTyped
  /\ \A c \in Connections : ConnectionOk(c)
  /\ \A w \in Workers : WorkerOk(w)

\* SocketsProofs and this module mean the same FlattenSeq.
LEMMA SameFlatten == ASSUME NEW ss PROVE S!FlattenSeq(ss) = FlattenSeq(ss)
BY Zenon DEF FlattenSeq, S!FlattenSeq

LEMMA StreamFacts ==
  ASSUME NEW s \in Streams
  PROVE  /\ s \in Seq(Requests) /\ s # <<>> /\ Len(s) \in Nat /\ 1 \in 1..Len(s)
         /\ \A i \in 1..Len(s) : s[i] \in Requests
<1>1. s \in Seq(Range(s)) /\ s # <<>>
  BY HttpAssumption
<1>2. Range(s) \subseteq Requests
  BY DEF Requests
<1>3. \A i \in 1..Len(s) : s[i] \in Range(s)
  BY <1>1
<1>4. s \in Seq(Requests)
  BY <1>1, <1>2, <1>3
<1> QED BY <1>1, <1>4

LEMMA RequestFacts ==
  ASSUME NEW r \in Requests
  PROVE  /\ r.header \in Nat /\ r.header > 0 /\ Length(r) \in Nat
         /\ Size(r) \in Nat /\ Size(r) = r.header + Length(r)
<1>1. r.header \in Nat \ {0} /\ r.contentLength \in Int
  BY HttpAssumption DEF Requests
<1>2. Length(r) \in Nat
  BY <1>1 DEF Length
<1> QED BY <1>1, <1>2 DEF Size

\* The bytes of each request.
Block(r)  == [k \in 1..Size(r) |-> [req |-> r, at |-> k]]
Blocks(s) == [i \in 1..Len(s) |-> Block(s[i])]

LEMMA BlockFacts ==
  ASSUME NEW r \in Requests
  PROVE  /\ Block(r) \in Seq(Byte) /\ Len(Block(r)) = Size(r)
         /\ \A k \in 1..Size(r) : Block(r)[k] = [req |-> r, at |-> k]
<1>1. Size(r) \in Nat
  BY RequestFacts
<1>2. \A k \in 1..Size(r) : [req |-> r, at |-> k] \in Byte
  BY <1>1 DEF Byte
<1> QED BY <1>1, <1>2 DEF Block

\* The requests of a stream have their places among its bytes.
LEMMA StreamPlaces ==
  ASSUME NEW s \in Streams
  PROVE  Bytes[s] \in Seq(Byte) /\ \E at : Reaches(s, at)
<1>1. s \in Seq(Requests) /\ Len(s) \in Nat /\ \A i \in 1..Len(s) : s[i] \in Requests
  BY StreamFacts
<1> DEFINE bs == Blocks(s)
<1>2. bs \in Seq(Seq(Byte)) /\ Len(bs) = Len(s) /\ \A i \in 1..Len(s) : bs[i] = Block(s[i])
  BY <1>1, BlockFacts DEF Blocks
<1>3. Bytes[s] = FlattenSeq(bs)
  BY Zenon DEF Bytes, Blocks, Block, Size
<1>4. S!FlattenSeq(bs) = FlattenSeq(bs)
  BY SameFlatten
<1> HIDE DEF bs
<1>5. Bytes[s] \in Seq(Byte)
  BY <1>2, <1>3, <1>4, S!FlattenType
<1>6. PICK at \in [0..Len(bs) -> Nat] :
           /\ at[0] = 0 /\ at[Len(bs)] = Len(FlattenSeq(bs))
           /\ \A i \in 1..Len(bs) :
                /\ at[i] = at[i-1] + Len(bs[i])
                /\ \A k \in 1..Len(bs[i]) : FlattenSeq(bs)[at[i-1] + k] = bs[i][k]
           /\ \A i, j \in 0..Len(bs) : i <= j => at[i] <= at[j]
  BY <1>2, <1>4, S!FlattenPlaces
<1>7. ASSUME NEW i \in 1..Len(s)
      PROVE  /\ at[i] = at[i-1] + Size(s[i])
             /\ \A k \in 1..Size(s[i]) : Bytes[s][at[i-1] + k] = [req |-> s[i], at |-> k]
  <2>1. /\ bs[i] = Block(s[i]) /\ s[i] \in Requests
        /\ at[i] = at[i-1] + Len(bs[i])
        /\ \A k \in 1..Len(bs[i]) : Bytes[s][at[i-1] + k] = bs[i][k]
    BY <1>1, <1>2, <1>3, <1>6
  <2>2. Len(bs[i]) = Size(s[i]) /\ \A k \in 1..Size(s[i]) : bs[i][k] = [req |-> s[i], at |-> k]
    BY <2>1, BlockFacts
  <2> QED BY <2>1, <2>2
<1>8. Reaches(s, at)
  BY <1>2, <1>3, <1>6, <1>7 DEF Reaches
<1> QED BY <1>5, <1>8

\* What the proofs use of them.
LEMMA Places ==
  ASSUME NEW s \in Streams
  PROVE  /\ Bytes[s] \in Seq(Byte) /\ Len(Bytes[s]) \in Nat
         /\ At(s, 0) = 0 /\ At(s, Len(s)) = Len(Bytes[s])
         /\ \A i \in 0..Len(s) : At(s, i) \in Nat /\ At(s, i) <= Len(Bytes[s])
         /\ \A i \in 1..Len(s) :
              /\ At(s, i) = At(s, i-1) + Size(s[i])
              /\ \A k \in 1..Size(s[i]) : Bytes[s][At(s, i-1) + k] = [req |-> s[i], at |-> k]
<1> DEFINE at == CHOOSE at : Reaches(s, at)
<1>1. Bytes[s] \in Seq(Byte) /\ Reaches(s, at)
  BY StreamPlaces, Zenon
<1>2. \A i : At(s, i) = at[i]
  BY DEF At
<1>3. Len(s) \in Nat
  BY StreamFacts
<1> HIDE DEF at
<1>4. Len(Bytes[s]) \in Nat
  BY <1>1
<1>5. at \in [0..Len(s) -> Nat] /\ at[0] = 0 /\ at[Len(s)] = Len(Bytes[s])
  BY <1>1 DEF Reaches
<1>6. \A i \in 0..Len(s) : at[i] \in Nat /\ at[i] <= Len(Bytes[s])
  <2>1. \A i \in 0..Len(s) : Len(s) \in 0..Len(s) /\ i <= Len(s)
    BY <1>3
  <2> QED BY <2>1, <1>1, <1>5 DEF Reaches
<1>7. \A i \in 1..Len(s) :
        /\ at[i] = at[i-1] + Size(s[i])
        /\ \A k \in 1..Size(s[i]) : Bytes[s][at[i-1] + k] = [req |-> s[i], at |-> k]
  BY <1>1 DEF Reaches
<1>8. At(s, 0) = 0 /\ At(s, Len(s)) = Len(Bytes[s])
  BY <1>2, <1>5
<1>9. \A i \in 0..Len(s) : At(s, i) \in Nat /\ At(s, i) <= Len(Bytes[s])
  BY <1>2, <1>6
<1>10. ASSUME NEW i \in 1..Len(s)
       PROVE  /\ At(s, i) = At(s, i-1) + Size(s[i])
              /\ \A k \in 1..Size(s[i]) : Bytes[s][At(s, i-1) + k] = [req |-> s[i], at |-> k]
  <2>1. At(s, i) = at[i] /\ At(s, i-1) = at[i-1]
    BY <1>2
  <2> QED BY <2>1, <1>7
<1> QED BY <1>1, <1>4, <1>8, <1>9, <1>10


-----------------------------------------------------------------------------
(* What a buffer holds.                                                     *)

LEMMA HoldingNone ==
  ASSUME NEW s \in Streams, NEW n \in 0..Len(s)
  PROVE  Holding(<<>>, s, n, At(s, n))
<1>1. At(s, n) \in Nat /\ At(s, n) <= Len(Bytes[s])
  BY Places
<1> QED BY <1>1 DEF Holding

LEMMA HoldingMore ==
  ASSUME NEW s \in Streams, NEW n \in 0..Len(s), NEW b \in Seq(Byte), NEW r \in Nat,
         Holding(b, s, n, r), NEW m \in Nat, r + m <= Len(Bytes[s])
  PROVE  LET bb == b \o SubSeq(Bytes[s], r + 1, r + m)
         IN bb \in Seq(Byte) /\ Len(bb) >= Len(b) /\ Holding(bb, s, n, r + m)
<1> DEFINE bs == Bytes[s]
           at == At(s, n)
           q  == SubSeq(bs, r + 1, r + m)
<1>1. bs \in Seq(Byte) /\ Len(bs) \in Nat /\ at \in Nat
  BY Places
<1>2. r = at + Len(b) /\ \A k \in 1..Len(b) : b[k] = bs[at + k]
  BY DEF Holding
<1>3. r + m <= Len(bs)
  OBVIOUS
<1> HIDE DEF bs, at
<1>4. q \in Seq(Byte) /\ Len(q) = m /\ \A k \in 1..m : q[k] = bs[r + k]
  BY <1>1, <1>3
<1> HIDE DEF q
<1>5. /\ b \o q \in Seq(Byte) /\ Len(b \o q) = Len(b) + m /\ Len(b) \in Nat
      /\ \A k \in 1..Len(b) : (b \o q)[k] = b[k]
      /\ \A k \in 1..m : (b \o q)[Len(b) + k] = q[k]
  BY <1>4
<1>6. ASSUME NEW k \in 1..(Len(b) + m) PROVE (b \o q)[k] = bs[at + k]
  <2>1. CASE k \in 1..Len(b)
    BY <2>1, <1>2, <1>5
  <2>2. CASE k \notin 1..Len(b)
    <3>1. k - Len(b) \in 1..m /\ Len(b) + (k - Len(b)) = k /\ r + (k - Len(b)) = at + k
      BY <2>2, <1>1, <1>2, <1>5
    <3> QED BY <3>1, <1>4, <1>5
  <2> QED BY <2>1, <2>2
<1>7. r + m = at + (Len(b) + m) /\ Len(b) + m >= Len(b)
  BY <1>1, <1>2, <1>5
<1>8. Holding(b \o q, s, n, r + m)
  BY <1>3, <1>5, <1>6, <1>7 DEF Holding, bs, at
<1> QED BY <1>5, <1>7, <1>8 DEF q, bs

\* A buffer that holds anything holds the beginning of the next request.
LEMMA NextBytes ==
  ASSUME NEW s \in Streams, NEW n \in 0..Len(s), NEW b \in Seq(Byte), NEW r \in Nat,
         Holding(b, s, n, r), b # <<>>
  PROVE  /\ n + 1 \in 1..Len(s) /\ s[n + 1] \in Requests
         /\ \A k \in 1..Len(b) : k <= Size(s[n + 1]) => b[k] = [req |-> s[n + 1], at |-> k]
<1>1. Len(b) \in Nat /\ Len(b) >= 1
  OBVIOUS
<1>2. /\ At(s, n) \in Nat /\ Len(Bytes[s]) \in Nat /\ At(s, Len(s)) = Len(Bytes[s])
      /\ \A i \in 1..Len(s) : \A k \in 1..Size(s[i]) :
           Bytes[s][At(s, i-1) + k] = [req |-> s[i], at |-> k]
  BY Places
<1>3. r = At(s, n) + Len(b) /\ r <= Len(Bytes[s])
      /\ \A k \in 1..Len(b) : b[k] = Bytes[s][At(s, n) + k]
  BY DEF Holding
<1>4. n # Len(s)
  BY <1>1, <1>2, <1>3
<1>5. n + 1 \in 1..Len(s) /\ (n + 1) - 1 = n
  BY <1>4, StreamFacts
<1>6. s[n + 1] \in Requests
  BY <1>5, StreamFacts
<1>7. ASSUME NEW k \in 1..Len(b), k <= Size(s[n + 1])
      PROVE  b[k] = [req |-> s[n + 1], at |-> k]
  <2>1. k \in 1..Size(s[n + 1])
    BY <1>1, <1>6, <1>7, RequestFacts
  <2>2. Bytes[s][At(s, n) + k] = [req |-> s[n + 1], at |-> k]
    BY <1>2, <1>5, <2>1
  <2> QED BY <2>2, <1>3
<1> QED BY <1>5, <1>6, <1>7

\* The first of a sequence that passes a test.
LEMMA FirstFound ==
  ASSUME NEW X, NEW q \in Seq(X)
  PROVE  LET n == SelectInSeq(q, EndsHeader) IN
         /\ n \in 0..Len(q)
         /\ n = 0 => \A i \in 1..Len(q) : ~EndsHeader(q[i])
         /\ n # 0 => EndsHeader(q[n]) /\ \A i \in 1..Len(q) : i < n => ~EndsHeader(q[i])
<1> DEFINE I == {i \in 1..Len(q) : EndsHeader(q[i])}
           n == SelectInSeq(q, EndsHeader)
<1>1. n = IF I # {} THEN Min(I) ELSE 0
  BY DEF SelectInSeq
<1>2. Len(q) \in Nat
  OBVIOUS
<1>3. CASE I = {}
  BY <1>1, <1>2, <1>3
<1>4. CASE I # {}
  <2>1. I \in SUBSET Nat
    OBVIOUS
  <2>2. \E x \in I : \A y \in I : x <= y
    BY <1>4, <2>1, S!Least, Zenon
  <2>3. n \in I /\ \A y \in I : n <= y
    <3> HIDE DEF I
    <3> QED BY <1>1, <1>4, <2>2 DEF Min
  <2> HIDE DEF n
  <2>4. n \in 1..Len(q) /\ EndsHeader(q[n])
    BY <2>3
  <2>5. \A i \in 1..Len(q) : i < n => ~EndsHeader(q[i])
    BY <2>3, <2>4, <1>2
  <2>6. n \in 0..Len(q) /\ n # 0
    BY <2>4, <1>2
  <2> HIDE DEF I
  <2> QED BY <2>4, <2>5, <2>6 DEF n
<1> QED BY <1>3, <1>4

\* The empty line at the end of the next header is the first one in the buffer.
LEMMA HeaderFound ==
  ASSUME NEW s \in Streams, NEW n \in 0..Len(s), NEW b \in Seq(Byte), NEW r \in Nat,
         Holding(b, s, n, r)
  PROVE  LET e == SelectInSeq(b, EndsHeader) IN
         /\ e # 0 <=> n < Len(s) /\ s[n + 1].header <= Len(b)
         /\ e # 0 => e = s[n + 1].header
<1> DEFINE e == SelectInSeq(b, EndsHeader)
<1>1. /\ e \in 0..Len(b)
      /\ e = 0 => \A i \in 1..Len(b) : ~EndsHeader(b[i])
      /\ e # 0 => EndsHeader(b[e]) /\ \A i \in 1..Len(b) : i < e => ~EndsHeader(b[i])
  BY FirstFound
<1> HIDE DEF e
<1>2. Len(b) \in Nat /\ Len(s) \in Nat
  BY StreamFacts
<1>3. CASE b = <<>>
  <2>1. e = 0 /\ Len(b) = 0
    BY <1>1, <1>3
  <2>2. n < Len(s) => s[n + 1].header > 0 /\ s[n + 1].header \in Nat
    <3> SUFFICES ASSUME n < Len(s) PROVE s[n + 1].header > 0 /\ s[n + 1].header \in Nat
      OBVIOUS
    <3>1. n + 1 \in 1..Len(s)
      BY <1>2
    <3>2. s[n + 1] \in Requests
      BY <3>1, StreamFacts
    <3> QED BY <3>2, RequestFacts
  <2> QED BY <2>1, <2>2 DEF e
<1>4. CASE b # <<>>
  <2> DEFINE q == s[n + 1]
             h == q.header
  <2>1. /\ n + 1 \in 1..Len(s) /\ q \in Requests
        /\ \A k \in 1..Len(b) : k <= Size(q) => b[k] = [req |-> q, at |-> k]
    BY <1>4, NextBytes
  <2>2. h \in Nat /\ h > 0 /\ h <= Size(q) /\ Size(q) \in Nat
    BY <2>1, RequestFacts
  <2>3. n < Len(s)
    BY <2>1, <1>2
  <2>4. ASSUME NEW k \in 1..Len(b), k <= Size(q) PROVE EndsHeader(b[k]) <=> k = h
    <3>1. b[k] = [req |-> q, at |-> k]
      BY <2>1, <2>4
    <3>2. b[k].req = q /\ b[k].at = k
      BY <3>1
    <3> QED BY <3>2, Zenon DEF EndsHeader
  <2> HIDE DEF q, h
  <2>5. CASE h <= Len(b)
    <3>1. h \in 1..Len(b) /\ EndsHeader(b[h])
      BY <2>2, <2>4, <2>5, <1>2
    <3>2. e # 0 /\ e <= h
      BY <1>1, <1>2, <2>2, <3>1
    <3>3. e \in 1..Len(b) /\ e <= Size(q)
      BY <1>1, <1>2, <2>2, <3>2
    <3>4. e = h
      BY <1>1, <2>4, <3>2, <3>3
    <3> QED BY <2>3, <2>5, <3>2, <3>4 DEF e, q, h
  <2>6. CASE ~(h <= Len(b))
    <3>1. \A k \in 1..Len(b) : k <= Size(q) /\ k # h
      BY <2>2, <2>6, <1>2
    <3>2. \A k \in 1..Len(b) : ~EndsHeader(b[k])
      BY <2>4, <3>1
    <3>3. e = 0
      BY <1>1, <1>2, <3>2
    <3> QED BY <2>6, <3>3 DEF e, q, h
  <2> QED BY <2>5, <2>6
<1> QED BY <1>3, <1>4

\* The bytes of request q from place i + 1 to place j.
Part(q, i, j) == [k \in 1..(j - i) |-> [req |-> q, at |-> i + k]]

LEMMA Middle ==
  ASSUME NEW s \in Streams, NEW n \in 0..Len(s), NEW b \in Seq(Byte), NEW r \in Nat,
         Holding(b, s, n, r), b # <<>>, NEW i \in Nat, NEW j \in Nat, i <= j, j <= Len(b),
         j <= Size(s[n + 1])
  PROVE  SubSeq(b, i + 1, j) = Part(s[n + 1], i, j)
<1> DEFINE q == s[n + 1]
           f == Part(q, i, j)
           t == SubSeq(b, i + 1, j)
<1>1. Len(b) \in Nat
  OBVIOUS
<1>2. t \in Seq(Byte) /\ Len(t) = j - i /\ \A k \in 1..(j - i) : t[k] = b[i + k]
  BY <1>1
<1>3. q \in Requests /\ \A k \in 1..Len(b) : k <= Size(q) => b[k] = [req |-> q, at |-> k]
  BY NextBytes
<1>4. Size(q) \in Nat /\ j <= Size(q)
  BY <1>3, RequestFacts
<1> HIDE DEF q
<1>5. \A k \in 1..(j - i) : i + k \in 1..Len(b) /\ i + k <= Size(q) /\ i + k \in Nat
  BY <1>1, <1>4
<1>6. \A k \in 1..(j - i) : t[k] = [req |-> q, at |-> i + k]
  BY <1>2, <1>3, <1>5
<1>7. f \in Seq(Byte) /\ Len(f) = j - i /\ \A k \in 1..(j - i) : f[k] = [req |-> q, at |-> i + k]
  <2>1. j - i \in Nat /\ \A k \in 1..(j - i) : [req |-> q, at |-> i + k] \in Byte
    BY <1>3, <1>5 DEF Byte
  <2> QED BY <2>1 DEF Part
<1> HIDE DEF f, t
<1>8. t = f
  <2>1. t \in Seq(Byte) /\ f \in Seq(Byte) /\ Len(t) = Len(f)
    BY <1>2, <1>7
  <2>2. \A k \in 1..Len(t) : t[k] = f[k]
    BY <1>2, <1>6, <1>7
  <2> QED BY <2>1, <2>2, SMTT(30)
<1> QED BY <1>8 DEF t, f, q

LEMMA HoldingRest ==
  ASSUME NEW s \in Streams, NEW n \in 0..Len(s), NEW b \in Seq(Byte), NEW r \in Nat,
         Holding(b, s, n, r), n + 1 \in 1..Len(s), Size(s[n + 1]) <= Len(b)
  PROVE  LET rest == SubSeq(b, Size(s[n + 1]) + 1, Len(b))
         IN /\ rest \in Seq(Byte) /\ Holding(rest, s, n + 1, r)
            /\ rest = <<>> => r = At(s, n + 1)
<1> DEFINE z == Size(s[n + 1])
           rest == SubSeq(b, z + 1, Len(b))
           bs == Bytes[s]
           at == At(s, n)
<1>1. z \in Nat
  BY StreamFacts, RequestFacts
<1>2. z <= Len(b) /\ Len(b) \in Nat
  OBVIOUS
<1>3. At(s, n + 1) = at + z /\ at \in Nat
  <2>1. (n + 1) - 1 = n
    OBVIOUS
  <2>2. at \in Nat /\ \A i \in 1..Len(s) : At(s, i) = At(s, i-1) + Size(s[i])
    BY Places
  <2> QED BY <2>1, <2>2
<1>4. r = at + Len(b) /\ r <= Len(bs) /\ \A k \in 1..Len(b) : b[k] = bs[at + k]
  BY DEF Holding
<1> HIDE DEF z, bs, at
<1>5. /\ rest \in Seq(Byte) /\ Len(rest) = Len(b) - z
      /\ \A k \in 1..(Len(b) - z) : rest[k] = b[z + k]
  BY <1>1, <1>2
<1> HIDE DEF rest
<1>6. \A k \in 1..(Len(b) - z) : z + k \in 1..Len(b) /\ at + (z + k) = (at + z) + k
  BY <1>1, <1>2, <1>3
<1>7. \A k \in 1..(Len(b) - z) : rest[k] = bs[(at + z) + k]
  BY <1>4, <1>5, <1>6
<1>8. r = (at + z) + (Len(b) - z)
  BY <1>1, <1>2, <1>3, <1>4
<1>9. Holding(rest, s, n + 1, r)
  BY <1>3, <1>4, <1>5, <1>7, <1>8 DEF Holding, bs
<1>10. ASSUME rest = <<>> PROVE r = At(s, n + 1)
  <2>1. Len(rest) = 0
    BY <1>10
  <2>2. Len(rest) = Len(b) - z
    BY <1>5
  <2>3. z = Len(b)
    BY <2>1, <2>2, <1>1, <1>2
  <2> QED BY <2>3, <1>3, <1>4
<1> QED BY <1>5, <1>9, <1>10 DEF rest, z

-----------------------------------------------------------------------------
(* What a step leaves alone.                                                *)

SameConnection(d) == /\ place'[d] = place[d] /\ stream'[d] = stream[d]
                     /\ received'[d] = received[d] /\ got'[d] = got[d]

SameWorker(v) == /\ pc'[v] = pc[v] /\ sock'[v] = sock[v]
                 /\ buf'[v] = buf[v] /\ bufSize'[v] = bufSize[v]

\* A step touches one connection, which no worker of the others holds.
LEMMA Frame ==
  ASSUME StreamInv, Inv', S!Inv', StreamTyped', NEW c \in Connections, NEW T \in SUBSET Workers,
         \A d \in Connections : d # c => SameConnection(d),
         \A v \in Workers \ T : SameWorker(v) /\ sock[v] # c,
         ConnectionOk(c)', \A v \in T : WorkerOk(v)'
  PROVE  StreamInv'
<1>1. ASSUME NEW d \in Connections PROVE ConnectionOk(d)'
  <2>1. CASE d = c
    BY <2>1
  <2>2. CASE d # c
    BY <2>2 DEF StreamInv, SameConnection, ConnectionOk
  <2> QED BY <2>1, <2>2
<1>2. ASSUME NEW v \in Workers PROVE WorkerOk(v)'
  <2>1. CASE v \in T
    BY <2>1
  <2>2. CASE v \notin T
    <3>1. SameWorker(v) /\ sock[v] # c /\ WorkerOk(v)
      BY <2>2 DEF StreamInv
    <3>2. CASE pc[v] = "idle"
      BY <3>1, <3>2 DEF SameWorker, WorkerOk
    <3>3. CASE pc[v] # "idle"
      <4>1. SameConnection(sock[v])
        BY <3>1, <3>3 DEF StreamInv, Inv, Typed, IdleHoldsNone
      <4> QED BY <3>1, <3>3, <4>1 DEF SameWorker, SameConnection, WorkerOk
    <3> QED BY <3>2, <3>3
  <2> QED BY <2>1, <2>2
<1> QED BY <1>1, <1>2 DEF StreamInv

LEMMA FrameOfConnection ==
  ASSUME StreamInv, Inv', S!Inv', StreamTyped', NEW c \in Connections,
         \A d \in Connections : d # c => SameConnection(d),
         \A v \in Workers : SameWorker(v) /\ sock[v] # c,
         ConnectionOk(c)'
  PROVE  StreamInv'
<1>1. {} \in SUBSET Workers
  OBVIOUS
<1>2. \A v \in {} : WorkerOk(v)'
  OBVIOUS
<1>3. \A v \in Workers \ {} : SameWorker(v) /\ sock[v] # c
  OBVIOUS
<1> QED BY <1>1, <1>2, <1>3, Frame, Zenon

LEMMA FrameOfWorker ==
  ASSUME StreamInv, Inv', S!Inv', StreamTyped', NEW c \in Connections, NEW w \in Workers,
         \A d \in Connections : d # c => SameConnection(d),
         \A v \in Workers \ {w} : SameWorker(v) /\ sock[v] # c,
         ConnectionOk(c)', WorkerOk(w)'
  PROVE  StreamInv'
<1>1. {w} \in SUBSET Workers
  OBVIOUS
<1>2. \A v \in {w} : WorkerOk(v)'
  OBVIOUS
<1> QED BY <1>1, <1>2, Frame, Zenon

\* The size of a buffer is one of those it has by doubling.
SizeOk(n) == \A q \in Requests : Length(q) > 0 => n \in Sizes(q) \/ n > Size(q)

\* What a worker at label has in buffer b of connection c, of which it was handed g.
Reading(label, b, s, g, r) ==
  /\ label = "header" => Holding(b, s, Len(g), r)
  /\ label = "content" =>
       Holding(b, s, Len(g), r) /\ Len(g) < Len(s) /\ s[Len(g)+1].header <= Len(b)
  /\ label = "handling" =>
       Len(g) >= 1 /\ Holding(b, s, Len(g) - 1, r) /\ Size(s[Len(g)]) <= Len(b)

LEMMA OkReads ==
  ASSUME NEW w
  PROVE  WorkerOk(w) <=> /\ SizeOk(bufSize[w])
                         /\ Reading(pc[w], buf[w], stream[sock[w]], got[sock[w]], received[sock[w]])
BY DEF WorkerOk, SizeOk, Reading

LEMMA OkReadsNext ==
  ASSUME NEW w, NEW c, sock'[w] = c
  PROVE  WorkerOk(w)' <=> /\ SizeOk(bufSize'[w])
                          /\ Reading(pc'[w], buf'[w], stream'[c], got'[c], received'[c])
BY DEF WorkerOk, SizeOk, Reading

LEMMA IdleReads == ASSUME NEW b, NEW s, NEW g, NEW r PROVE Reading("idle", b, s, g, r)
BY DEF Reading

\* A busy worker has a connection of its own.
LEMMA Holds ==
  ASSUME StreamInv, NEW w \in Workers, pc[w] # "idle"
  PROVE  \E c \in Connections :
           /\ c = sock[w] /\ place[c] = "worker" /\ \A v \in Workers : v # w => sock[v] # c
           /\ stream[c] \in Streams /\ Len(got[c]) \in 0..Len(stream[c])
           /\ ConnectionOk(c) /\ got[c] \in Seq(Requests) /\ received[c] \in Nat
           /\ buf[w] \in Seq(Byte) /\ bufSize[w] \in Nat /\ SizeOk(bufSize[w])
           /\ Reading(pc[w], buf[w], stream[c], got[c], received[c])
<1> DEFINE c == sock[w]
<1>1. c \in Connections
  BY DEF StreamInv, Inv, Typed, IdleHoldsNone
<1>2. place[c] = "worker" /\ \A v \in Workers : v # w => sock[v] # c
  BY <1>1 DEF StreamInv, S!Inv, S!WorkerHolds
<1>3. ConnectionOk(c) /\ WorkerOk(w)
  BY <1>1 DEF StreamInv
<1>4. stream[c] \in Streams /\ Len(got[c]) <= Len(stream[c])
  BY <1>2, <1>3 DEF ConnectionOk
<1>5. /\ got[c] \in Seq(Requests) /\ received[c] \in Nat
      /\ buf[w] \in Seq(Byte) /\ bufSize[w] \in Nat
  BY <1>1 DEF StreamInv, StreamTyped
<1>6. Len(got[c]) \in Nat /\ Len(stream[c]) \in Nat
  BY <1>4, <1>5, StreamFacts
<1>7. SizeOk(bufSize[w]) /\ Reading(pc[w], buf[w], stream[c], got[c], received[c])
  BY <1>3, OkReads
<1> QED BY <1>1, <1>2, <1>3, <1>4, <1>5, <1>6, <1>7

\* The request at the front of a buffer is the next one of the stream.
LEMMA FrontRequest ==
  ASSUME LengthsAreNatural,
         NEW s \in Streams, NEW n \in 0..Len(s), NEW r \in Nat, NEW w \in Workers,
         buf[w] \in Seq(Byte), Holding(buf[w], s, n, r),
         BodyAt(w) # 0 \/ (n < Len(s) /\ s[n + 1].header <= Len(buf[w]))
  PROVE  /\ n + 1 \in 1..Len(s) /\ s[n + 1] \in Requests /\ s[n + 1].header <= Len(buf[w])
         /\ BodyAt(w) = s[n + 1].header /\ BodyAt(w) # 0
         /\ Request(w) = s[n + 1] /\ After(w) = Size(s[n + 1]) /\ After(w) >= BodyAt(w)
<1>1. PICK b \in Seq(Byte) : b = buf[w]
  OBVIOUS
<1> DEFINE e == BodyAt(w)
           q == s[n + 1]
           h == q.header
<1>2. e = SelectInSeq(b, EndsHeader)
  <2>1. ~(b # <<>> /\ b[1].at = 0)
    <3> SUFFICES ASSUME b # <<>>, b[1].at = 0 PROVE FALSE
      OBVIOUS
    <3>1. q \in Requests /\ \A k \in 1..Len(b) : k <= Size(q) => b[k] = [req |-> q, at |-> k]
      BY <1>1, NextBytes
    <3>2. 1 \in 1..Len(b) /\ 1 <= Size(q)
      BY <3>1, RequestFacts
    <3>3. b[1] = [req |-> q, at |-> 1]
      BY <3>1, <3>2
    <3> QED BY <3>3
  <2> QED BY <1>1, <2>1, Zenon DEF BodyAt
<1>3. n < Len(s) /\ h <= Len(b) /\ e # 0 /\ e = h
  BY <1>1, <1>2, HeaderFound
<1>4. n + 1 \in 1..Len(s)
  BY <1>3, StreamFacts
<1>5. q \in Requests
  BY <1>4, StreamFacts
<1>6. h \in Nat /\ h > 0 /\ h <= Size(q) /\ Size(q) = h + Length(q) /\ Len(b) \in Nat
  BY <1>5, RequestFacts
<1>7. b # <<>>
  BY <1>3, <1>6
<1>8. b[h] = [req |-> q, at |-> h]
  <2>1. h \in 1..Len(b)
    BY <1>3, <1>6
  <2>2. \A k \in 1..Len(b) : k <= Size(q) => b[k] = [req |-> q, at |-> k]
    BY <1>1, <1>7, NextBytes
  <2> QED BY <2>1, <2>2, <1>6
<1>9. SubSeq(b, 1, h) = [k \in 1..h |-> [req |-> q, at |-> k]]
  <2>1. 0 \in Nat /\ h \in Nat /\ 0 <= h /\ h <= Len(b) /\ h <= Size(s[n + 1])
    BY <1>3, <1>6
  <2>2. Holding(b, s, n, r)
    BY <1>1
  <2>3. SubSeq(b, 0 + 1, h) = Part(q, 0, h)
    BY <2>1, <2>2, <1>7, Middle
  <2>4. 0 + 1 = 1 /\ h - 0 = h /\ \A k \in 1..h : 0 + k = k
    BY <1>6
  <2>5. Part(q, 0, h) = [k \in 1..h |-> [req |-> q, at |-> k]]
    BY <2>4 DEF Part
  <2> QED BY <2>3, <2>4, <2>5
<1>10. b[h].req = q
  BY <1>8
<1>11. Request(w) = q
  <2> HIDE DEF q, h, e
  <2> QED BY <1>1, <1>3, <1>9, <1>10, Zenon DEF Request, e
<1>12. After(w) = Size(q) /\ After(w) >= BodyAt(w)
  <2>1. q.contentLength \in Int /\ q.contentLength >= 0
    BY <1>5, HttpAssumption DEF LengthsAreNatural, Requests
  <2>2. q.contentLength = Length(q)
    BY <2>1 DEF Length
  <2>3. Length(q) \in Nat
    BY <1>5, RequestFacts
  <2> QED BY <1>3, <1>6, <1>11, <2>2, <2>3 DEF After
<1> QED BY <1>1, <1>3, <1>4, <1>5, <1>11, <1>12

-----------------------------------------------------------------------------
(* The size of a buffer.                                                    *)

LEMMA SizesDouble ==
  ASSUME BodiesFit, NEW q \in Requests, Length(q) > 0
  PROVE  Sizes(q) \in SUBSET Nat /\ Doublings(Sizes(q), q)
<1>1. \E sizes \in SUBSET Nat : Doublings(sizes, q)
  BY DEF BodiesFit
<1> QED BY <1>1, Zenon DEF Sizes

LEMMA FirstSizeOk == ASSUME BodiesFit PROVE SizeOk(FirstSize)
BY SizesDouble DEF SizeOk, Doublings

LEMMA Doubled == ASSUME BodiesFit, NEW n \in Nat, SizeOk(n) PROVE SizeOk(n * 2)
<1> SUFFICES ASSUME NEW q \in Requests, Length(q) > 0
             PROVE  n * 2 \in Sizes(q) \/ n * 2 > Size(q)
  BY DEF SizeOk
<1>1. Size(q) \in Nat /\ 2 * n = n * 2
  BY RequestFacts
<1>2. CASE n > Size(q)
  BY <1>1, <1>2
<1>3. CASE n \in Sizes(q) /\ n <= Size(q)
  BY <1>1, <1>3, SizesDouble DEF Doublings
<1>4. n \in Sizes(q) \/ n > Size(q)
  BY DEF SizeOk
<1> QED BY <1>1, <1>2, <1>3, <1>4

LEMMA RoomForBodies ==
  ASSUME BodiesFit, NEW n \in Nat, SizeOk(n), NEW q \in Requests, Length(q) > 0, n <= Size(q)
  PROVE  n * 2 <= MaxSize
<1>1. Size(q) \in Nat /\ 2 * n = n * 2
  BY RequestFacts
<1>2. n \in Sizes(q)
  BY <1>1 DEF SizeOk
<1> QED BY <1>1, <1>2, SizesDouble DEF Doublings

-----------------------------------------------------------------------------
(* Each step keeps the invariant.                                           *)

LEMMA InitStream == ASSUME BodiesFit PROVE Init => StreamInv
<1> SUFFICES ASSUME Init PROVE StreamInv
  OBVIOUS
<1>1. Inv /\ S!Inv
  BY InitInv, S!InitInv, HttpAssumption
<1>2. StreamTyped
  BY HttpAssumption DEF Init, StreamTyped
<1>3. \A c \in Connections : ConnectionOk(c)
  BY DEF Init, ConnectionOk
<1>4. ASSUME NEW w \in Workers PROVE WorkerOk(w)
  <2>1. pc[w] = "idle" /\ bufSize[w] = FirstSize
    BY DEF Init
  <2>2. SizeOk(bufSize[w])
    BY <2>1, FirstSizeOk
  <2>3. Reading(pc[w], buf[w], stream[sock[w]], got[sock[w]], received[sock[w]])
    BY <2>1, IdleReads
  <2> QED BY <2>2, <2>3, OkReads
<1> QED BY <1>1, <1>2, <1>3, <1>4 DEF StreamInv

LEMMA AcceptStream ==
  ASSUME StreamInv, Inv', S!Inv', NEW c \in Connections, Accept(c)
  PROVE  StreamInv' /\ Stream!Connect(c)
<1>1. PICK s \in Streams : stream' = [stream EXCEPT ![c] = s]
  BY DEF Accept
<1>2. /\ place[c] = "new" /\ place' = [place EXCEPT ![c] = "queued"]
      /\ UNCHANGED <<received, got, pc, sock, buf, bufSize>>
  BY DEF Accept
<1>3. Len(s) \in Nat /\ At(s, 0) = 0
  BY StreamFacts, Places
<1>4. ConnectionOk(c) /\ place \in [Connections -> {"new", "queued", "worker", "parked", "closed"}]
  BY DEF StreamInv, S!Inv, S!Typed
<1>5. StreamTyped'
  BY <1>1, <1>2 DEF StreamInv, StreamTyped
<1>6. \A d \in Connections : d # c => SameConnection(d)
  BY <1>1, <1>2, <1>4 DEF StreamInv, StreamTyped, SameConnection
<1>7. \A v \in Workers : SameWorker(v) /\ sock[v] # c
  BY <1>2 DEF StreamInv, S!Inv, S!WorkerHolds, SameWorker
<1>8. place'[c] = "queued" /\ stream'[c] = s
  BY <1>1, <1>2, <1>4 DEF StreamInv, StreamTyped
<1>9. received[c] = 0 /\ got[c] = <<>> /\ stream[c] = <<>>
  BY <1>2, <1>4 DEF ConnectionOk
<1>10. ConnectionOk(c)'
  <2>1. received'[c] = 0 /\ got'[c] = <<>> /\ Len(<<>>) = 0
    BY <1>2, <1>9
  <2> QED BY <1>3, <1>8, <2>1 DEF ConnectionOk
<1>11. StreamInv'
  BY <1>5, <1>6, <1>7, <1>10, FrameOfConnection
<1>12. Stream!Connect(c)
  BY <1>1, <1>2, <1>9 DEF Stream!Connect
<1> QED BY <1>11, <1>12

LEMMA DequeueStream ==
  ASSUME StreamInv, Inv', S!Inv', NEW w \in Workers, Dequeue(w)
  PROVE  StreamInv' /\ UNCHANGED <<stream, got>>
<1>0. PICK c \in Connections : c = Head(queue) /\ place[c] = "queued"
  BY DEF Dequeue, StreamInv, S!Inv, S!Typed, S!QueueHolds
<1>1. /\ pc[w] = "idle" /\ sock' = [sock EXCEPT ![w] = c]
      /\ place' = [place EXCEPT ![c] = "worker"] /\ pc' = [pc EXCEPT ![w] = "header"]
      /\ buf' = [buf EXCEPT ![w] = <<>>]
      /\ UNCHANGED <<stream, received, got, bufSize>>
  BY <1>0 DEF Dequeue
<1>2. ConnectionOk(c) /\ place \in [Connections -> {"new", "queued", "worker", "parked", "closed"}]
  BY DEF StreamInv, S!Inv, S!Typed
<1>3. StreamTyped'
  <2>1. <<>> \in Seq(Byte)
    OBVIOUS
  <2> QED BY <1>1, <2>1 DEF StreamInv, StreamTyped
<1>4. \A d \in Connections : d # c => SameConnection(d)
  BY <1>1, <1>2 DEF SameConnection
<1>5. \A v \in Workers \ {w} : SameWorker(v) /\ sock[v] # c
  BY <1>0, <1>1 DEF StreamInv, StreamTyped, Inv, Typed, S!Inv, S!WorkerHolds, SameWorker
<1>6. place'[c] = "worker" /\ sock'[w] = c /\ pc'[w] = "header" /\ buf'[w] = <<>>
  BY <1>1, <1>2 DEF StreamInv, StreamTyped, Inv, Typed
<1>7. ConnectionOk(c)'
  BY <1>0, <1>1, <1>2, <1>6 DEF ConnectionOk
<1>8. stream[c] \in Streams /\ received[c] = At(stream[c], Len(got[c]))
      /\ Len(got[c]) \in 0..Len(stream[c])
  <2>1. stream[c] \in Streams /\ Len(got[c]) <= Len(stream[c])
        /\ received[c] = At(stream[c], Len(got[c]))
    BY <1>0, <1>2 DEF ConnectionOk
  <2>2. Len(got[c]) \in Nat /\ Len(stream[c]) \in Nat
    BY <2>1, StreamFacts DEF StreamInv, StreamTyped
  <2> QED BY <2>1, <2>2
<1>9. Holding(<<>>, stream[c], Len(got[c]), received[c])
  BY <1>8, HoldingNone
<1>10. WorkerOk(w)'
  <2>1. SizeOk(bufSize'[w])
    BY <1>1, OkReads DEF StreamInv
  <2>2. Reading("header", <<>>, stream[c], got[c], received[c])
    BY <1>9 DEF Reading
  <2>3. Reading(pc'[w], buf'[w], stream'[c], got'[c], received'[c])
    BY <1>1, <1>6, <2>2
  <2> QED BY <1>6, <2>1, <2>3, OkReadsNext
<1>11. StreamInv'
  BY <1>3, <1>4, <1>5, <1>7, <1>10, FrameOfWorker
<1> QED BY <1>1, <1>11

\* A worker parts from its socket, which may go into the queue only between two requests.
LEMMA LeaveStream ==
  ASSUME StreamInv, Inv', S!Inv', NEW w \in Workers, pc[w] # "idle",
         NEW c \in Connections, c = sock[w], NEW p \in {"queued", "parked", "closed"},
         LeaveSocket(w, p), UNCHANGED <<stream, received, got, buf, bufSize>>,
         p = "queued" => received[c] = At(stream[c], Len(got[c]))
  PROVE  StreamInv'
<1>1. /\ ConnectionOk(c) /\ place[c] = "worker" /\ \A v \in Workers : v # w => sock[v] # c
      /\ SizeOk(bufSize[w])
  BY Holds
<1>2. /\ place' = [place EXCEPT ![c] = p] /\ sock' = [sock EXCEPT ![w] = "none"]
      /\ pc' = [pc EXCEPT ![w] = "idle"]
  BY DEF LeaveSocket
<1>3. place \in [Connections -> {"new", "queued", "worker", "parked", "closed"}]
  BY DEF StreamInv, S!Inv, S!Typed
<1>4. StreamTyped'
  BY DEF StreamInv, StreamTyped
<1>5. \A d \in Connections : d # c => SameConnection(d)
  BY <1>2, <1>3 DEF SameConnection
<1>6. \A v \in Workers \ {w} : SameWorker(v) /\ sock[v] # c
  BY <1>1, <1>2 DEF StreamInv, Inv, Typed, SameWorker
<1>7. ConnectionOk(c)'
  <2>1. place'[c] = p
    BY <1>2, <1>3
  <2> QED BY <2>1, <1>1 DEF ConnectionOk
<1>8. WorkerOk(w)'
  <2>1. pc'[w] = "idle"
    BY <1>2 DEF StreamInv, Inv, Typed
  <2>2. PICK d : d = sock'[w]
    OBVIOUS
  <2>3. SizeOk(bufSize'[w])
    BY <1>1
  <2>4. Reading(pc'[w], buf'[w], stream'[d], got'[d], received'[d])
    BY <2>1, IdleReads
  <2> QED BY <2>2, <2>3, <2>4, OkReadsNext
<1> QED BY <1>4, <1>5, <1>6, <1>7, <1>8, FrameOfWorker

LEMMA CloseStream ==
  ASSUME StreamInv, Inv', S!Inv', NEW w \in Workers, pc[w] # "idle",
         Close(w), UNCHANGED <<stream, received, got, buf, bufSize>>
  PROVE  StreamInv'
<1>1. PICK c \in Connections : c = sock[w]
  BY Holds
<1> QED BY <1>1, LeaveStream DEF Close

\* A worker goes on with its socket, and may be handed a request.
LEMMA GoesOn ==
  ASSUME StreamInv, Inv', S!Inv', NEW w \in Workers, pc[w] # "idle",
         NEW c \in Connections, c = sock[w], UNCHANGED <<place, stream, sock>>,
         NEW label, pc' = [pc EXCEPT ![w] = label],
         NEW b \in Seq(Byte), buf' = [buf EXCEPT ![w] = b],
         NEW n \in Nat, bufSize' = [bufSize EXCEPT ![w] = n], SizeOk(n),
         NEW r \in Nat, received' = [received EXCEPT ![c] = r],
         NEW g \in Seq(Requests), got' = [got EXCEPT ![c] = g],
         Len(g) <= Len(stream[c]), \A i \in 1..Len(g) : g[i] = stream[c][i],
         Reading(label, b, stream[c], g, r)
  PROVE  StreamInv'
<1>1. /\ ConnectionOk(c) /\ place[c] = "worker" /\ \A v \in Workers : v # w => sock[v] # c
  BY Holds
<1>2. StreamTyped'
  BY DEF StreamInv, StreamTyped
<1>3. \A d \in Connections : d # c => SameConnection(d)
  BY DEF StreamInv, StreamTyped, SameConnection
<1>4. \A v \in Workers \ {w} : SameWorker(v) /\ sock[v] # c
  BY <1>1 DEF StreamInv, StreamTyped, Inv, Typed, SameWorker
<1>5. /\ got'[c] = g /\ received'[c] = r /\ stream'[c] = stream[c] /\ sock'[w] = c
      /\ pc'[w] = label /\ buf'[w] = b /\ bufSize'[w] = n
  BY DEF StreamInv, StreamTyped, Inv, Typed
<1>6. ConnectionOk(c)'
  BY <1>1, <1>5 DEF ConnectionOk
<1>7. WorkerOk(w)'
  BY <1>5, OkReadsNext, Zenon
<1> QED BY <1>2, <1>3, <1>4, <1>6, <1>7, FrameOfWorker

LEMMA GrowStream ==
  ASSUME BodiesFit, LengthsAreNatural, StreamInv, Inv', S!Inv', NEW w \in Workers, Grow(w)
  PROVE  StreamInv' /\ UNCHANGED <<stream, got>>
<1>1. pc[w] \in {"header", "content"} /\ pc[w] # "idle"
  BY DEF Grow, Wants
<1>2. PICK c \in Connections :
           /\ c = sock[w] /\ stream[c] \in Streams /\ Len(got[c]) \in 0..Len(stream[c])
           /\ ConnectionOk(c) /\ got[c] \in Seq(Requests) /\ received[c] \in Nat
           /\ buf[w] \in Seq(Byte) /\ bufSize[w] \in Nat /\ SizeOk(bufSize[w])
           /\ Reading(pc[w], buf[w], stream[c], got[c], received[c])
  BY <1>1, Holds
<1>3. CASE ~TooLarge(w)
  <2>1. /\ bufSize' = [bufSize EXCEPT ![w] = bufSize[w] * 2]
        /\ UNCHANGED <<place, pc, sock, got, stream, received, buf>>
    BY <1>3 DEF Grow
  <2>2. bufSize[w] * 2 \in Nat /\ SizeOk(bufSize[w] * 2)
    BY <1>2, Doubled
  <2>3. pc' = [pc EXCEPT ![w] = pc[w]] /\ buf' = [buf EXCEPT ![w] = buf[w]]
    BY <2>1 DEF StreamInv, StreamTyped, Inv, Typed
  <2>4. received' = [received EXCEPT ![c] = received[c]] /\ got' = [got EXCEPT ![c] = got[c]]
    BY <2>1 DEF StreamInv, StreamTyped
  <2>5. Len(got[c]) <= Len(stream[c]) /\ \A i \in 1..Len(got[c]) : got[c][i] = stream[c][i]
    BY <1>2 DEF ConnectionOk
  <2>6. StreamInv'
    BY <1>1, <1>2, <2>1, <2>2, <2>3, <2>4, <2>5, GoesOn, ZenonT(40)
  <2> QED BY <2>1, <2>6
<1>4. CASE TooLarge(w) /\ pc[w] = "header"
  <2>1. Close(w) /\ UNCHANGED <<stream, received, got, buf, bufSize>>
    BY <1>4 DEF Grow
  <2> QED BY <1>1, <2>1, CloseStream
<1>5. CASE TooLarge(w) /\ pc[w] = "content"
  <2> DEFINE q == stream[c][Len(got[c]) + 1]
  <2>1. /\ Holding(buf[w], stream[c], Len(got[c]), received[c])
        /\ Len(got[c]) < Len(stream[c]) /\ q.header <= Len(buf[w])
    BY <1>2, <1>5 DEF Reading
  <2>2. q \in Requests /\ After(w) = Size(q)
    BY <1>2, <2>1, FrontRequest
  <2>3. Len(buf[w]) < Size(q) /\ bufSize[w] - 1 - Len(buf[w]) = 0
    BY <1>5, <2>2 DEF Grow, Wants, Room
  <2>4. Len(buf[w]) \in Nat
    BY <1>2
  <2> HIDE DEF q
  <2>5. Length(q) > 0 /\ bufSize[w] <= Size(q)
    BY <1>2, <2>1, <2>2, <2>3, <2>4, RequestFacts
  <2>6. bufSize[w] * 2 <= MaxSize
    BY <1>2, <2>2, <2>5, RoomForBodies
  <2>7. bufSize[w] * 2 > MaxSize
    BY <1>5 DEF TooLarge
  <2> QED BY <1>2, <2>6, <2>7, HttpAssumption
<1> QED BY <1>1, <1>3, <1>4, <1>5

\* The bytes that arrive are the next ones of the stream.
LEMMA RecvStream ==
  ASSUME StreamInv, Inv', S!Inv', NEW w \in Workers, Recv(w)
  PROVE  StreamInv' /\ UNCHANGED <<stream, got>>
<1>1. pc[w] \in {"header", "content"} /\ pc[w] # "idle"
  BY DEF Recv, Wants
<1>2. PICK c \in Connections :
           /\ c = sock[w] /\ stream[c] \in Streams /\ Len(got[c]) \in 0..Len(stream[c])
           /\ ConnectionOk(c) /\ got[c] \in Seq(Requests) /\ received[c] \in Nat
           /\ buf[w] \in Seq(Byte) /\ bufSize[w] \in Nat /\ SizeOk(bufSize[w])
           /\ Reading(pc[w], buf[w], stream[c], got[c], received[c])
  BY <1>1, Holds
<1> DEFINE s == stream[c]
           bs == Bytes[s]
           r == received[c]
           b == buf[w]
           g == got[c]
<1>3. PICK n \in 1..Room(w) :
        /\ r + n <= Len(bs)
        /\ buf' = [buf EXCEPT ![w] = b \o SubSeq(bs, r + 1, r + n)]
        /\ received' = [received EXCEPT ![c] = r + n]
  BY <1>2 DEF Recv
<1>4. UNCHANGED <<place, stream, got, pc, sock, bufSize>>
  BY DEF Recv
<1>5. n \in Nat
  BY <1>2 DEF Room
<1>6. Holding(b, s, Len(g), r)
  BY <1>1, <1>2 DEF Reading
<1> DEFINE bb == b \o SubSeq(bs, r + 1, r + n)
<1>7. bb \in Seq(Byte) /\ Len(bb) >= Len(b) /\ Holding(bb, s, Len(g), r + n)
  BY <1>2, <1>3, <1>5, <1>6, HoldingMore
<1>8. Len(b) \in Nat /\ Len(bb) \in Nat
  <2> HIDE DEF bb
  <2> QED BY <1>2, <1>7
<1>9. buf' = [buf EXCEPT ![w] = bb]
  BY <1>3
<1> HIDE DEF bb
<1>10. Reading(pc[w], bb, s, g, r + n)
  <2>1. CASE pc[w] = "header"
    BY <2>1, <1>7 DEF Reading
  <2>2. CASE pc[w] = "content"
    <3>1. Len(g) < Len(s) /\ s[Len(g)+1].header <= Len(b)
      BY <1>2, <2>2 DEF Reading
    <3>2. Len(g) + 1 \in 1..Len(s)
      BY <1>2, <3>1, StreamFacts
    <3>3. s[Len(g) + 1].header \in Nat
      BY <1>2, <3>2, StreamFacts, RequestFacts
    <3>4. s[Len(g) + 1].header <= Len(bb)
      <4> DEFINE h == s[Len(g) + 1].header
                 m == Len(b)
                 mm == Len(bb)
      <4>1. h \in Nat /\ m \in Nat /\ mm \in Nat /\ h <= m /\ m <= mm
        BY <1>7, <1>8, <3>1, <3>3
      <4> HIDE DEF h, m, mm
      <4>2. h <= mm
        BY <4>1
      <4> QED BY <4>2 DEF h, mm
    <3> QED BY <2>2, <1>7, <3>1, <3>4 DEF Reading
  <2> QED BY <1>1, <2>1, <2>2
<1>11. pc' = [pc EXCEPT ![w] = pc[w]] /\ bufSize' = [bufSize EXCEPT ![w] = bufSize[w]]
       /\ got' = [got EXCEPT ![c] = g]
  BY <1>4 DEF StreamInv, StreamTyped, Inv, Typed
<1>12. Len(g) <= Len(s) /\ \A i \in 1..Len(g) : g[i] = s[i]
  BY <1>2 DEF ConnectionOk
<1>13. r + n \in Nat /\ received' = [received EXCEPT ![c] = r + n]
  BY <1>2, <1>3, <1>5
<1>14. StreamInv'
  BY <1>1, <1>2, <1>4, <1>7, <1>9, <1>10, <1>11, <1>12, <1>13, GoesOn, ZenonT(40)
<1> QED BY <1>4, <1>14

LEMMA GiveUpStream ==
  ASSUME StreamInv, Inv', S!Inv', NEW w \in Workers, GiveUp(w)
  PROVE  StreamInv' /\ UNCHANGED <<stream, got>>
BY BusyWants, CloseStream DEF GiveUp, RecvFails

LEMMA ParseStream ==
  ASSUME LengthsAreNatural, StreamInv, Inv', S!Inv', NEW w \in Workers, Parse(w)
  PROVE  StreamInv' /\ UNCHANGED <<stream, got>>
<1>1. pc[w] = "header" /\ BodyAt(w) # 0 /\ UNCHANGED <<stream, received, got, buf, bufSize>>
  BY DEF Parse
<1>2. CASE Close(w)
  BY <1>1, <1>2, CloseStream
<1>3. CASE pc' = [pc EXCEPT ![w] = "content"] /\ UNCHANGED <<place, queue, sock>>
  <2>1. PICK c \in Connections :
           /\ c = sock[w] /\ stream[c] \in Streams /\ Len(got[c]) \in 0..Len(stream[c])
           /\ ConnectionOk(c) /\ got[c] \in Seq(Requests) /\ received[c] \in Nat
           /\ buf[w] \in Seq(Byte) /\ bufSize[w] \in Nat /\ SizeOk(bufSize[w])
           /\ Reading(pc[w], buf[w], stream[c], got[c], received[c])
    BY <1>1, Holds
  <2>2. Holding(buf[w], stream[c], Len(got[c]), received[c])
    BY <1>1, <2>1 DEF Reading
  <2>3. Len(got[c]) + 1 \in 1..Len(stream[c])
        /\ stream[c][Len(got[c]) + 1].header <= Len(buf[w])
    BY <1>1, <2>1, <2>2, FrontRequest
  <2>4. Len(got[c]) < Len(stream[c])
    BY <2>1, <2>3, StreamFacts
  <2>5. Reading("content", buf[w], stream[c], got[c], received[c])
    BY <2>2, <2>3, <2>4 DEF Reading
  <2>6. buf' = [buf EXCEPT ![w] = buf[w]] /\ bufSize' = [bufSize EXCEPT ![w] = bufSize[w]]
        /\ received' = [received EXCEPT ![c] = received[c]] /\ got' = [got EXCEPT ![c] = got[c]]
    BY <1>1 DEF StreamInv, StreamTyped
  <2>7. Len(got[c]) <= Len(stream[c]) /\ \A i \in 1..Len(got[c]) : got[c][i] = stream[c][i]
    BY <2>1 DEF ConnectionOk
  <2>8. pc[w] # "idle"
    BY <1>1
  <2> QED BY <1>1, <1>3, <2>1, <2>5, <2>6, <2>7, <2>8, GoesOn, ZenonT(40)
<1> QED BY <1>2, <1>3 DEF Parse

\* What the program is called with is the request that was sent.
LEMMA HandedRequest ==
  ASSUME FormsAreLast, LengthsAreNatural, StreamInv, NEW w \in Workers, pc[w] = "content", ~Wants(w)
  PROVE  LET c == sock[w]
             n == Len(got[c])
         IN /\ n + 1 \in 1..Len(stream[c]) /\ Handed(w) = stream[c][n + 1]
            /\ Size(stream[c][n + 1]) <= Len(buf[w])
<1>1. PICK c \in Connections :
           /\ c = sock[w] /\ stream[c] \in Streams /\ Len(got[c]) \in 0..Len(stream[c])
           /\ received[c] \in Nat /\ buf[w] \in Seq(Byte)
           /\ Reading(pc[w], buf[w], stream[c], got[c], received[c])
  BY Holds
<1>2. PICK s \in Streams : s = stream[c]
  BY <1>1
<1>3. PICK n \in 0..Len(s) : n = Len(got[c])
  BY <1>1, <1>2
<1>4. PICK b \in Seq(Byte) : b = buf[w]
  BY <1>1
<1>5. PICK r \in Nat : r = received[c]
  BY <1>1
<1>6. Holding(b, s, n, r) /\ n < Len(s) /\ s[n + 1].header <= Len(b)
  BY <1>1, <1>2, <1>3, <1>4, <1>5 DEF Reading
<1> DEFINE q == s[n + 1]
           h == q.header
           z == Size(q)
<1>7. /\ n + 1 \in 1..Len(s) /\ q \in Requests
      /\ BodyAt(w) = h /\ Request(w) = q /\ After(w) = z
  BY <1>4, <1>6, FrontRequest
<1>8. z <= Len(b) /\ Len(b) \in Nat
  <2>1. ~(Len(b) < z)
    BY <1>4, <1>7 DEF Wants
  <2>2. z \in Nat /\ Len(b) \in Nat
    BY <1>7, RequestFacts
  <2> HIDE DEF z
  <2> QED BY <2>1, <2>2
<1>9. h \in Nat /\ h > 0 /\ z = h + Length(q) /\ z \in Nat /\ Length(q) \in Nat
  BY <1>7, RequestFacts
<1>10. ASSUME q.method = "POST"
       PROVE  SubSeq(b, h + 1, Len(b)) = [k \in 1..Length(q) |-> [req |-> q, at |-> h + k]]
  <2>1. n + 1 = Len(s)
    BY <1>7, <1>10 DEF FormsAreLast
  <2>2. At(s, n + 1) = At(s, n) + z /\ At(s, n + 1) = Len(Bytes[s]) /\ At(s, n) \in Nat
    <3>1. (n + 1) - 1 = n
      OBVIOUS
    <3> QED BY <1>7, <2>1, <3>1, Places
  <2>3. At(s, n) + Len(b) <= Len(Bytes[s])
    BY <1>6 DEF Holding
  <2>4. Len(b) = z
    <3> HIDE DEF z
    <3> QED BY <1>8, <1>9, <2>2, <2>3
  <2>5. h <= z /\ z - h = Length(q)
    <3> HIDE DEF z, h
    <3> QED BY <1>9
  <2>6. b # <<>>
    BY <1>8, <1>9, <2>4
  <2>7. SubSeq(b, h + 1, z) = Part(q, h, z)
    <3>1. h \in Nat /\ z \in Nat /\ h <= z /\ z <= Len(b) /\ z <= Size(s[n + 1])
      BY <1>8, <1>9, <2>5
    <3>2. Holding(b, s, n, r)
      BY <1>6
    <3> HIDE DEF h, z
    <3> QED BY <2>6, <3>1, <3>2, Middle
  <2>8. Part(q, h, z) = [k \in 1..Length(q) |-> [req |-> q, at |-> h + k]]
    <3> HIDE DEF z, h, q
    <3> QED BY <2>5 DEF Part
  <2> HIDE DEF z
  <2> QED BY <2>4, <2>7, <2>8
<1>11. Handed(w) = q
  <2>1. h = Request(w).header
    BY <1>7
  <2> HIDE DEF q, h
  <2> QED BY <1>4, <1>7, <1>10, <2>1, Zenon DEF Handed
<1> QED BY <1>1, <1>2, <1>3, <1>4, <1>7, <1>8, <1>11

LEMMA CallStream ==
  ASSUME FormsAreLast, LengthsAreNatural, StreamInv, Inv', S!Inv', NEW w \in Workers, Call(w)
  PROVE  StreamInv' /\ (UNCHANGED <<stream, got>> \/ \E c \in Connections : Stream!Hand(c))
<1>1. pc[w] = "content" /\ pc[w] # "idle" /\ ~Wants(w) /\ UNCHANGED <<stream, received, buf, bufSize>>
  BY DEF Call
<1>2. CASE Close(w) /\ UNCHANGED got
  BY <1>1, <1>2, CloseStream
<1>3. CASE /\ got' = [got EXCEPT ![sock[w]] = Append(@, Handed(w))]
           /\ pc' = [pc EXCEPT ![w] = "handling"] /\ UNCHANGED <<place, queue, sock>>
  <2>1. PICK c \in Connections :
           /\ c = sock[w] /\ stream[c] \in Streams /\ Len(got[c]) \in 0..Len(stream[c])
           /\ ConnectionOk(c) /\ got[c] \in Seq(Requests) /\ received[c] \in Nat
           /\ buf[w] \in Seq(Byte) /\ bufSize[w] \in Nat /\ SizeOk(bufSize[w])
           /\ Reading(pc[w], buf[w], stream[c], got[c], received[c])
    BY <1>1, Holds
  <2> DEFINE s == stream[c]
             n == Len(got[c])
             q == s[n + 1]
             g == Append(got[c], q)
  <2>2. n + 1 \in 1..Len(s) /\ Handed(w) = q /\ Size(q) <= Len(buf[w]) /\ n \in Nat
    BY <1>1, <2>1, HandedRequest
  <2>3. q \in Requests
    BY <2>1, <2>2, StreamFacts
  <2>4. got' = [got EXCEPT ![c] = g]
    BY <1>3, <2>1, <2>2
  <2>5. \A i \in 1..n : got[c][i] = s[i]
    BY <2>1 DEF ConnectionOk
  <2>6. /\ g \in Seq(Requests) /\ Len(g) = n + 1 /\ g[n + 1] = q
        /\ \A i \in 1..n : g[i] = got[c][i]
    <3> HIDE DEF q
    <3> QED BY <2>1, <2>3
  <2> HIDE DEF g
  <2>7. Len(g) <= Len(s) /\ \A i \in 1..Len(g) : g[i] = s[i]
    <3>1. \A i \in 1..(n + 1) : i \in 1..n \/ i = n + 1
      BY <2>2
    <3> QED BY <2>1, <2>2, <2>5, <2>6, <3>1, StreamFacts, SMTT(30)
  <2>8. Reading("handling", buf[w], s, g, received[c])
    <3>1. Holding(buf[w], s, n, received[c])
      BY <1>1, <2>1 DEF Reading
    <3>2. Len(g) - 1 = n /\ Len(g) >= 1 /\ s[Len(g)] = q
      BY <2>2, <2>6
    <3> HIDE DEF n, q
    <3> QED BY <2>2, <3>1, <3>2 DEF Reading
  <2>9. buf' = [buf EXCEPT ![w] = buf[w]] /\ bufSize' = [bufSize EXCEPT ![w] = bufSize[w]]
        /\ received' = [received EXCEPT ![c] = received[c]]
    BY <1>1 DEF StreamInv, StreamTyped
  <2>10. StreamInv'
    BY <1>1, <1>3, <2>1, <2>4, <2>6, <2>7, <2>8, <2>9, GoesOn, ZenonT(40)
  <2>11. Stream!Hand(c)
    <3>1. n < Len(s)
      BY <2>1, <2>2, StreamFacts
    <3>2. got' = [got EXCEPT ![c] = Append(@, s[Len(@) + 1])]
      BY <2>4 DEF g
    <3> QED BY <1>1, <3>1, <3>2 DEF Stream!Hand
  <2> QED BY <2>10, <2>11
<1> QED BY <1>1, <1>2, <1>3 DEF Call

LEMMA AnswerStream ==
  ASSUME LengthsAreNatural, StreamInv, Inv', S!Inv', NEW w \in Workers, Answer(w)
  PROVE  StreamInv' /\ UNCHANGED <<stream, got>>
<1>1. pc[w] = "handling" /\ pc[w] # "idle" /\ UNCHANGED <<stream, received, got, bufSize>>
  BY DEF Answer
<1>2. PICK c \in Connections :
         /\ c = sock[w] /\ stream[c] \in Streams /\ Len(got[c]) \in 0..Len(stream[c])
         /\ ConnectionOk(c) /\ got[c] \in Seq(Requests) /\ received[c] \in Nat
         /\ buf[w] \in Seq(Byte) /\ bufSize[w] \in Nat /\ SizeOk(bufSize[w])
         /\ Reading(pc[w], buf[w], stream[c], got[c], received[c])
  BY <1>1, Holds
<1> DEFINE s == stream[c]
           b == buf[w]
           r == received[c]
<1>3. PICK n \in Nat : n + 1 = Len(got[c]) /\ n + 1 \in 1..Len(s) /\ n \in 0..Len(s)
                       /\ Len(got[c]) - 1 = n
  <2>1. Len(got[c]) >= 1 /\ Len(s) \in Nat
    BY <1>1, <1>2, StreamFacts DEF Reading
  <2> DEFINE m == Len(got[c])
             n == m - 1
  <2>2. m \in 0..Len(s)
    BY <1>2
  <2> HIDE DEF m
  <2>3. n \in Nat /\ n + 1 = m /\ n + 1 \in 1..Len(s) /\ n \in 0..Len(s) /\ m - 1 = n
    BY <2>1, <2>2 DEF m
  <2> QED BY <2>3 DEF m
<1>4. Holding(b, s, n, r) /\ Size(s[n + 1]) <= Len(b)
  BY <1>1, <1>2, <1>3 DEF Reading
<1>5. s[n + 1] \in Requests
  BY <1>2, <1>3, StreamFacts
<1>6. s[n + 1].header <= Len(b) /\ n < Len(s)
  <2>1. Len(b) \in Nat /\ Len(s) \in Nat
    BY <1>2, StreamFacts
  <2> QED BY <2>1, <1>3, <1>4, <1>5, RequestFacts
<1>7. After(w) = Size(s[n + 1]) /\ After(w) >= BodyAt(w)
  BY <1>2, <1>4, <1>6, FrontRequest, SMTT(30)
<1> DEFINE kept == SubSeq(b, Size(s[n + 1]) + 1, Len(b))
<1>8. /\ kept \in Seq(Byte) /\ Holding(kept, s, n + 1, r)
      /\ kept = <<>> => r = At(s, n + 1)
  BY <1>2, <1>3, <1>4, HoldingRest
<1>9. Kept(w) = {kept}
  BY <1>7, Zenon DEF Kept
<1> HIDE DEF kept
<1>10. CASE Close(w) /\ UNCHANGED buf
  BY <1>1, <1>10, CloseStream
<1>11. CASE Kept(w) = {<<>>} /\ LeaveSocket(w, "queued") /\ UNCHANGED buf
  <2>1. kept = <<>>
    BY <1>9, <1>11
  <2>2. r = At(s, Len(got[c]))
    BY <1>3, <1>8, <2>1
  <2> QED BY <1>1, <1>2, <1>11, <2>2, LeaveStream
<1>12. CASE /\ \E k \in Kept(w) : buf' = [buf EXCEPT ![w] = k]
            /\ pc' = [pc EXCEPT ![w] = "header"] /\ UNCHANGED <<place, queue, sock>>
  <2>1. Reading("header", kept, s, got[c], r)
    BY <1>3, <1>8 DEF Reading
  <2>2. /\ bufSize' = [bufSize EXCEPT ![w] = bufSize[w]]
        /\ received' = [received EXCEPT ![c] = r] /\ got' = [got EXCEPT ![c] = got[c]]
    BY <1>1 DEF StreamInv, StreamTyped
  <2>3. Len(got[c]) <= Len(s) /\ \A i \in 1..Len(got[c]) : got[c][i] = s[i]
    BY <1>2 DEF ConnectionOk
  <2>4. buf' = [buf EXCEPT ![w] = kept]
    BY <1>9, <1>12
  <2> QED BY <1>1, <1>2, <1>8, <1>12, <2>1, <2>2, <2>3, <2>4, GoesOn, ZenonT(40)
<1> QED BY <1>10, <1>11, <1>12 DEF Answer

LEMMA KeepOpenStream ==
  ASSUME StreamInv, Inv', S!Inv', NEW w \in Workers, KeepOpen(w)
  PROVE  StreamInv' /\ UNCHANGED <<stream, got>>
<1>1. /\ pc[w] = "handling" /\ pc[w] # "idle" /\ LeaveSocket(w, "parked")
      /\ UNCHANGED <<stream, received, got, buf, bufSize>>
  BY DEF KeepOpen, HandOver
<1>2. PICK c \in Connections : c = sock[w]
  BY <1>1, Holds
<1> QED BY <1>1, <1>2, LeaveStream

LEMMA DeliverStream ==
  ASSUME StreamInv, Inv', S!Inv', NEW c \in Connections, Deliver(c)
  PROVE  StreamInv' /\ UNCHANGED <<stream, got>>
<1>1. /\ place[c] = "parked" /\ place' = [place EXCEPT ![c] = "closed"]
      /\ UNCHANGED <<stream, received, got, pc, sock, buf, bufSize>>
  BY DEF Deliver
<1>2. place \in [Connections -> {"new", "queued", "worker", "parked", "closed"}] /\ ConnectionOk(c)
  BY DEF StreamInv, S!Inv, S!Typed
<1>3. StreamTyped'
  BY <1>1 DEF StreamInv, StreamTyped
<1>4. \A d \in Connections : d # c => SameConnection(d)
  BY <1>1, <1>2 DEF SameConnection
<1>5. \A v \in Workers : SameWorker(v) /\ sock[v] # c
  BY <1>1 DEF StreamInv, S!Inv, S!WorkerHolds, SameWorker
<1>6. ConnectionOk(c)'
  BY <1>1, <1>2 DEF ConnectionOk
<1>7. StreamInv'
  BY <1>3, <1>4, <1>5, <1>6, FrameOfConnection
<1> QED BY <1>1, <1>7

LEMMA StutterStream ==
  ASSUME StreamInv, Inv', S!Inv', UNCHANGED vars
  PROVE  StreamInv' /\ UNCHANGED <<stream, got>>
<1>1. UNCHANGED <<place, stream, received, got, pc, sock, buf, bufSize>>
  BY DEF vars, conns
<1>2. StreamTyped'
  BY <1>1 DEF StreamInv, StreamTyped
<1>3. \A c \in Connections : ConnectionOk(c)'
  BY <1>1 DEF StreamInv, ConnectionOk
<1>4. \A w \in Workers : WorkerOk(w)'
  BY <1>1 DEF StreamInv, WorkerOk
<1> QED BY <1>1, <1>2, <1>3, <1>4 DEF StreamInv

LEMMA NextStream ==
  ASSUME BodiesFit, FormsAreLast, LengthsAreNatural, StreamInv, [Next]_vars
  PROVE  StreamInv' /\ [Stream!Next]_(Stream!vars)
<1>1. Inv' /\ S!Inv'
  BY NextStep, S!NextInv, HttpAssumption DEF StreamInv
<1>2. ASSUME NEW w \in Workers, Work(w)
      PROVE  StreamInv' /\ (UNCHANGED <<stream, got>> \/ \E c \in Connections : Stream!Hand(c))
  BY <1>1, <1>2, DequeueStream, GrowStream, RecvStream, GiveUpStream, ParseStream, CallStream,
     AnswerStream, KeepOpenStream DEF Work
<1>3. ASSUME NEW c \in Connections, Accept(c) \/ Deliver(c)
      PROVE  StreamInv' /\ (UNCHANGED <<stream, got>> \/ Stream!Connect(c))
  BY <1>1, <1>3, AcceptStream, DeliverStream
<1>4. CASE UNCHANGED vars
  BY <1>1, <1>4, StutterStream DEF Stream!vars
<1> QED BY <1>2, <1>3, <1>4 DEF Next, Stream!Next, Stream!vars

-----------------------------------------------------------------------------
(* The theorems.                                                            *)

(* The server does with its sockets what Sockets says.                      *)
THEOREM SocketsArePassedOn == Spec => S!Spec
<1>1. Inv /\ [Next]_vars => Inv' /\ [S!Next]_(S!vars)
  BY NextStep
<1> QED BY <1>1, InitInv, PTL DEF Spec, S!Spec

(* A socket is in the queue once, or in the hands of one worker, or with a client, or      *)
(* closed: it goes from one to the other with every enqueue, dequeue, close and KEEP_OPEN  *)
(* of worker, whatever arrives on it (http.c:86-345, queue.c:18-63).                       *)
THEOREM SocketHasOneOwner == Spec => []OneOwner
<1>1. S!Spec => []S!OneOwner
  BY HttpAssumption, S!SocketHasOneOwner
<1>2. S!OneOwner => OneOwner
  BY DEF S!OneOwner, OneOwner, Owners!OneOwner
<1> QED BY <1>1, <1>2, SocketsArePassedOn, PTL

(* When every body has room in a buffer, no Content-Length is below 0, and a form is the    *)
(* last request a browser sends before it is answered, the requests of a connection come    *)
(* to uw_request one after the other and whole, each form with its own body, in whatever    *)
(* pieces their bytes arrive, whatever was read ahead, and whichever workers have the       *)
(* socket in turn: "after" is where the request ends, what is kept begins the next one,     *)
(* and a socket goes back into the queue only when nothing is kept (http.c:131-217,         *)
(* 276-326).                                                                                *)
THEOREM RequestsComeInOrder ==
  ASSUME BodiesFit, FormsAreLast, LengthsAreNatural PROVE Spec => RequestsInOrder
<1>1. Init => StreamInv
  BY InitStream
<1>2. StreamInv /\ [Next]_vars => StreamInv' /\ [Stream!Next]_(Stream!vars)
  BY NextStream
<1>3. Init => Stream!Init
  BY DEF Init, Stream!Init
<1> QED BY <1>1, <1>2, <1>3, PTL DEF Spec, RequestsInOrder, Stream!Spec
=============================================================================
