---------------------------- MODULE SocketsProofs ----------------------------
(***************************************************************************)
(* A socket has one owner, for any number of workers and connections; and  *)
(* what FlattenSeq makes of the sequences that arrive on it.               *)
(***************************************************************************)
EXTENDS Sockets, Integers, SequencesExt, WellFoundedInduction, TLAPS

-----------------------------------------------------------------------------
(* The invariant.                                                           *)

Typed ==
  /\ place \in [Connections -> {"new", "queued", "worker", "parked", "closed"}]
  /\ queue \in Seq(Connections)
  /\ sock \in [Workers -> Connections \cup {"none"}]

\* The queue holds the connections that are queued, each once.
QueueHolds ==
  /\ \A i \in 1..Len(queue) : place[queue[i]] = "queued"
  /\ \A c \in Connections : place[c] = "queued" => \E i \in 1..Len(queue) : queue[i] = c
  /\ \A i, j \in 1..Len(queue) : queue[i] = queue[j] => i = j

\* A worker holds a connection that no other worker holds.
WorkerHolds ==
  /\ \A w \in Workers : sock[w] \in Connections => place[sock[w]] = "worker"
  /\ \A c \in Connections : place[c] = "worker" => \E w \in Workers : sock[w] = c
  /\ \A v, w \in Workers : sock[v] \in Connections /\ sock[v] = sock[w] => v = w

Inv == Typed /\ QueueHolds /\ WorkerHolds

-----------------------------------------------------------------------------
(* What the steps do to the queue.                                          *)

\* A socket enters the queue.
LEMMA Enqueued ==
  ASSUME Typed, QueueHolds, NEW c \in Connections, place[c] # "queued",
         queue' = Append(queue, c), place' = [place EXCEPT ![c] = "queued"]
  PROVE  queue' \in Seq(Connections) /\ QueueHolds'
<1>1. queue \in Seq(Connections) /\ Len(queue) \in Nat
  BY DEF Typed
<1>2. /\ queue' \in Seq(Connections) /\ Len(queue') = Len(queue) + 1
      /\ queue'[Len(queue) + 1] = c
      /\ \A i \in 1..Len(queue) : queue'[i] = queue[i] /\ queue[i] \in Connections
  BY <1>1
<1>3. \A i \in 1..Len(queue) : queue[i] # c
  BY DEF QueueHolds
<1>4. \A i \in 1..Len(queue') : i \in 1..Len(queue) \/ i = Len(queue) + 1
  BY <1>1, <1>2
<1>5. \A i \in 1..Len(queue') : place'[queue'[i]] = "queued"
  BY <1>2, <1>3, <1>4 DEF QueueHolds, Typed
<1>6. ASSUME NEW d \in Connections, place'[d] = "queued"
      PROVE  \E i \in 1..Len(queue') : queue'[i] = d
  <2>1. CASE d = c
    BY <2>1, <1>1, <1>2
  <2>2. CASE d # c
    <3>1. PICK i \in 1..Len(queue) : queue[i] = d
      BY <2>2, <1>6 DEF QueueHolds, Typed
    <3> QED BY <3>1, <1>1, <1>2
  <2> QED BY <2>1, <2>2
<1>7. \A i, j \in 1..Len(queue') : queue'[i] = queue'[j] => i = j
  BY <1>2, <1>3, <1>4 DEF QueueHolds
<1> QED BY <1>2, <1>5, <1>6, <1>7 DEF QueueHolds

\* The first socket leaves the queue.
LEMMA Dequeued ==
  ASSUME Typed, QueueHolds, queue # <<>>,
         queue' = Tail(queue), place' = [place EXCEPT ![Head(queue)] = "worker"]
  PROVE  queue' \in Seq(Connections) /\ QueueHolds' /\ place[Head(queue)] = "queued"
<1>1. queue \in Seq(Connections) /\ Len(queue) \in Nat /\ Len(queue) > 0
  BY DEF Typed
<1>2. /\ queue' \in Seq(Connections) /\ Len(queue') = Len(queue) - 1
      /\ Head(queue) = queue[1] /\ Head(queue) \in Connections
      /\ \A i \in 1..Len(queue') : queue'[i] = queue[i + 1] /\ i + 1 \in 1..Len(queue)
      /\ \A i \in 1..Len(queue) : queue[i] \in Connections
  BY <1>1
<1>3. place[Head(queue)] = "queued"
  BY <1>1, <1>2 DEF QueueHolds
<1>4. \A i \in 1..Len(queue') : queue'[i] # Head(queue)
  BY <1>1, <1>2 DEF QueueHolds
<1>5. \A i \in 1..Len(queue') : place'[queue'[i]] = "queued"
  BY <1>2, <1>4 DEF QueueHolds, Typed
<1>6. ASSUME NEW d \in Connections, place'[d] = "queued"
      PROVE  \E i \in 1..Len(queue') : queue'[i] = d
  <2>1. d # Head(queue) /\ place[d] = "queued"
    BY <1>6, <1>2 DEF Typed
  <2>2. PICK i \in 1..Len(queue) : queue[i] = d
    BY <2>1 DEF QueueHolds
  <2>3. i # 1 /\ i - 1 \in 1..Len(queue')
    BY <2>1, <2>2, <1>1, <1>2
  <2>4. queue'[i - 1] = queue[(i - 1) + 1]
    BY <2>3, <1>2
  <2>5. (i - 1) + 1 = i
    BY <2>2, <1>1
  <2> QED BY <2>2, <2>3, <2>4, <2>5
<1>7. ASSUME NEW i \in 1..Len(queue'), NEW j \in 1..Len(queue'), queue'[i] = queue'[j]
      PROVE  i = j
  <2>1. i + 1 = j + 1
    BY <1>7, <1>2 DEF QueueHolds
  <2> QED BY <2>1, <1>1, <1>2
<1> QED BY <1>2, <1>3, <1>5, <1>6, <1>7 DEF QueueHolds

\* The queue stays, and no connection enters it or leaves it.
LEMMA QueueStays ==
  ASSUME Typed, QueueHolds, UNCHANGED queue, NEW c \in Connections, NEW p,
         place[c] # "queued", p # "queued", place' = [place EXCEPT ![c] = p]
  PROVE  QueueHolds'
<1>1. \A i \in 1..Len(queue) : queue[i] \in Connections
  BY DEF Typed
<1> QED BY <1>1 DEF Typed, QueueHolds

-----------------------------------------------------------------------------
(* Steps.                                                                   *)

LEMMA InitInv == ASSUME "none" \notin Connections, Init PROVE Inv
BY DEF Init, Inv, Typed, QueueHolds, WorkerHolds

LEMMA TakeInv == ASSUME "none" \notin Connections, Inv, NEW w \in Workers, Take(w) PROVE Inv'
<1> DEFINE c == Head(queue)
<1>1. /\ sock[w] = "none" /\ queue # <<>>
      /\ sock' = [sock EXCEPT ![w] = c] /\ place' = [place EXCEPT ![c] = "worker"]
      /\ queue' = Tail(queue)
  BY DEF Take
<1>2. queue' \in Seq(Connections) /\ QueueHolds' /\ place[c] = "queued"
  BY <1>1, Dequeued DEF Inv
<1>3. c \in Connections
  BY <1>1 DEF Inv, Typed
<1>4. Typed'
  BY <1>1, <1>2, <1>3 DEF Inv, Typed
<1>5. \A v \in Workers : sock'[v] = (IF v = w THEN c ELSE sock[v])
  BY <1>1 DEF Inv, Typed
<1>6. \A d \in Connections : place'[d] = IF d = c THEN "worker" ELSE place[d]
  BY <1>1 DEF Inv, Typed
<1>7. WorkerHolds'
  BY <1>1, <1>2, <1>3, <1>5, <1>6 DEF Inv, WorkerHolds
<1> QED BY <1>2, <1>4, <1>7 DEF Inv

\* A worker leaves its socket somewhere.
LEMMA Left ==
  ASSUME "none" \notin Connections, Inv, NEW w \in Workers,
         NEW p \in {"queued", "parked", "closed"}, GiveUp(w, p)
  PROVE  /\ sock[w] \in Connections /\ place[sock[w]] = "worker"
         /\ place' \in [Connections -> {"new", "queued", "worker", "parked", "closed"}]
         /\ sock' \in [Workers -> Connections \cup {"none"}]
         /\ WorkerHolds'
<1>1. sock[w] \in Connections /\ place[sock[w]] = "worker"
  BY DEF Inv, Typed, WorkerHolds, GiveUp
<1>2. place' = [place EXCEPT ![sock[w]] = p] /\ sock' = [sock EXCEPT ![w] = "none"]
  BY DEF GiveUp
<1>3. /\ place' \in [Connections -> {"new", "queued", "worker", "parked", "closed"}]
      /\ sock' \in [Workers -> Connections \cup {"none"}]
  BY <1>2 DEF Inv, Typed
<1>4. \A v \in Workers : sock'[v] = IF v = w THEN "none" ELSE sock[v]
  BY <1>2 DEF Inv, Typed
<1>5. \A c \in Connections : place'[c] = IF c = sock[w] THEN p ELSE place[c]
  BY <1>2 DEF Inv, Typed
<1>6. WorkerHolds'
  BY <1>1, <1>4, <1>5 DEF Inv, WorkerHolds
<1> QED BY <1>1, <1>3, <1>6

LEMMA PutBackInv == ASSUME "none" \notin Connections, Inv, NEW w \in Workers, PutBack(w) PROVE Inv'
<1>1. GiveUp(w, "queued") /\ queue' = Append(queue, sock[w])
  BY DEF PutBack
<1>2. /\ sock[w] \in Connections /\ place[sock[w]] = "worker"
      /\ place' \in [Connections -> {"new", "queued", "worker", "parked", "closed"}]
      /\ sock' \in [Workers -> Connections \cup {"none"}]
      /\ WorkerHolds'
  BY <1>1, Left
<1>3. queue' \in Seq(Connections) /\ QueueHolds'
  BY <1>1, <1>2, Enqueued DEF Inv, GiveUp
<1> QED BY <1>2, <1>3 DEF Inv, Typed

LEMMA PartInv == ASSUME "none" \notin Connections, Inv, NEW w \in Workers, Part(w) PROVE Inv'
<1>1. PICK p \in {"parked", "closed"} : GiveUp(w, p)
  BY DEF Part
<1>2. UNCHANGED queue
  BY DEF Part
<1>3. /\ sock[w] \in Connections /\ place[sock[w]] = "worker"
      /\ place' \in [Connections -> {"new", "queued", "worker", "parked", "closed"}]
      /\ sock' \in [Workers -> Connections \cup {"none"}]
      /\ WorkerHolds'
  BY <1>1, Left
<1>4. QueueHolds'
  BY <1>1, <1>2, <1>3, QueueStays DEF Inv, GiveUp
<1> QED BY <1>2, <1>3, <1>4 DEF Inv, Typed

LEMMA AcceptInv == ASSUME Inv, NEW c \in Connections, Accept(c) PROVE Inv'
<1>1. /\ place[c] = "new" /\ place' = [place EXCEPT ![c] = "queued"]
      /\ queue' = Append(queue, c) /\ UNCHANGED sock
  BY DEF Accept
<1>2. queue' \in Seq(Connections) /\ QueueHolds'
  BY <1>1, Enqueued DEF Inv
<1>3. Typed' /\ WorkerHolds'
  BY <1>1, <1>2 DEF Inv, Typed, WorkerHolds
<1> QED BY <1>2, <1>3 DEF Inv

LEMMA DeliverInv == ASSUME Inv, NEW c \in Connections, Deliver(c) PROVE Inv'
<1>1. /\ place[c] = "parked" /\ place' = [place EXCEPT ![c] = "closed"]
      /\ UNCHANGED <<queue, sock>>
  BY DEF Deliver
<1>2. QueueHolds'
  BY <1>1, QueueStays DEF Inv
<1>3. Typed' /\ WorkerHolds'
  BY <1>1 DEF Inv, Typed, WorkerHolds
<1> QED BY <1>2, <1>3 DEF Inv

LEMMA NextInv == ASSUME "none" \notin Connections, Inv, [Next]_vars PROVE Inv'
<1>1. CASE UNCHANGED vars
  BY <1>1 DEF vars, Inv, Typed, QueueHolds, WorkerHolds
<1> QED BY <1>1, TakeInv, PutBackInv, PartInv, AcceptInv, DeliverInv DEF Next

-----------------------------------------------------------------------------
(* The theorem.                                                             *)

LEMMA InvOneOwner == ASSUME "none" \notin Connections, Inv PROVE OneOwner
<1> SUFFICES ASSUME NEW c \in Connections
    PROVE  /\ (place[c] = "queued") <=> \E i \in 1..Len(queue) : queue[i] = c
           /\ (place[c] = "worker") <=> \E w \in Workers : sock[w] = c
           /\ \A i, j \in 1..Len(queue) : queue[i] = c /\ queue[j] = c => i = j
           /\ \A v, w \in Workers : sock[v] = c /\ sock[w] = c => v = w
  BY DEF OneOwner
<1>1. /\ (place[c] = "queued") <=> \E i \in 1..Len(queue) : queue[i] = c
      /\ \A i, j \in 1..Len(queue) : queue[i] = c /\ queue[j] = c => i = j
  BY DEF Inv, QueueHolds
<1>2. /\ (place[c] = "worker") <=> \E w \in Workers : sock[w] = c
      /\ \A v, w \in Workers : sock[v] = c /\ sock[w] = c => v = w
  BY DEF Inv, WorkerHolds
<1> QED BY <1>1, <1>2

(* Whatever order sockets are accepted, taken, put back and given up in, each is in the    *)
(* queue once, or with one worker, or with a client, or closed (queue.c:18-63 and the      *)
(* workers of http.c and fastcgi.c).                                                       *)
THEOREM SocketHasOneOwner == ASSUME "none" \notin Connections PROVE Spec => []OneOwner
<1>1. Init => Inv
  BY InitInv
<1>2. Inv /\ [Next]_vars => Inv'
  BY NextInv
<1>3. Inv => OneOwner
  BY InvOneOwner
<1> QED BY <1>1, <1>2, <1>3, PTL DEF Spec

-----------------------------------------------------------------------------
(* Sequences put together by FlattenSeq: what the proofs about both front   *)
(* ends need of the bytes on a connection.                                  *)

\* A non-empty set of numbers has a least one.
LEMMA Least == ASSUME NEW N \in SUBSET Nat, N # {} PROVE \E x \in N : \A y \in N : x <= y
<1> DEFINE R == OpToRel(<, Nat)
<1>1. \A x, y \in Nat : y < x => <<y, x>> \in R
  BY DEF OpToRel
<1>2. IsWellFoundedOn(R, Nat)
  BY NatLessThanWellFounded
<1> HIDE DEF R
<1>3. \E x \in N : \A y \in N : ~(<<y, x>> \in R)
  BY <1>2, WFMin
<1>4. ASSUME NEW x \in N, \A y \in N : ~(<<y, x>> \in R) PROVE \A y \in N : x <= y
  <2> SUFFICES ASSUME NEW y \in N PROVE x <= y
    OBVIOUS
  <2>1. ~(y < x)
    BY <1>1, <1>4
  <2> QED BY <2>1
<1> QED BY <1>3, <1>4

\* f puts the first n of ss together, as FlattenSeq does.
Joins(f, ss, n) == f = [i \in 1..n |-> IF i = 1 THEN ss[i] ELSE f[i-1] \o ss[i]]

LEMMA JoinsAt ==
  ASSUME NEW f, NEW ss, NEW n \in Nat, Joins(f, ss, n), NEW i \in 1..n
  PROVE  f[i] = IF i = 1 THEN ss[i] ELSE f[i-1] \o ss[i]
BY Zenon DEF Joins

LEMMA JoinsType ==
  ASSUME NEW X, NEW ss \in Seq(Seq(X)), NEW n \in 0..Len(ss), NEW f, Joins(f, ss, n)
  PROVE  \A i \in 1..n : f[i] \in Seq(X)
<1> DEFINE B == {i \in 1..n : f[i] \notin Seq(X)}
<1> SUFFICES ASSUME B # {} PROVE FALSE
  OBVIOUS
<1>1. PICK i \in B : \A j \in B : i <= j
  <2>1. B \in SUBSET Nat
    OBVIOUS
  <2> QED BY <2>1, Least, Zenon
<1>2. i \in 1..n /\ ss[i] \in Seq(X)
  OBVIOUS
<1>3. f[i] = IF i = 1 THEN ss[i] ELSE f[i-1] \o ss[i]
  BY <1>2, JoinsAt
<1>4. i # 1
  BY <1>2, <1>3, <1>1
<1>5. i-1 \in 1..n /\ ~(i <= i-1)
  BY <1>2, <1>4
<1>6. f[i-1] \in Seq(X)
  BY <1>1, <1>5
<1>7. f[i] \in Seq(X)
  BY <1>2, <1>3, <1>4, <1>6
<1> QED BY <1>7, <1>1

\* There is one such function.
LEMMA JoinsOnce ==
  ASSUME NEW ss, NEW n \in Nat, NEW m \in 0..n, NEW f, Joins(f, ss, n), NEW g, Joins(g, ss, m)
  PROVE  \A i \in 1..m : f[i] = g[i]
<1> DEFINE B == {i \in 1..m : f[i] # g[i]}
<1> SUFFICES ASSUME B # {} PROVE FALSE
  OBVIOUS
<1>1. PICK i \in B : \A j \in B : i <= j
  <2>1. B \in SUBSET Nat
    OBVIOUS
  <2> QED BY <2>1, Least, Zenon
<1>2. i \in 1..m /\ i \in 1..n /\ m \in Nat
  OBVIOUS
<1>3. f[i] = IF i = 1 THEN ss[i] ELSE f[i-1] \o ss[i]
  BY <1>2, JoinsAt
<1>4. g[i] = IF i = 1 THEN ss[i] ELSE g[i-1] \o ss[i]
  BY <1>2, JoinsAt
<1>5. i = 1 \/ f[i-1] = g[i-1]
  <2>1. i = 1 \/ (i-1 \in 1..m /\ ~(i <= i-1))
    BY <1>2
  <2> QED BY <2>1, <1>1
<1> QED BY <1>1, <1>3, <1>4, <1>5

LEMMA JoinsExists ==
  ASSUME NEW ss, NEW n \in Nat PROVE \E f : Joins(f, ss, n)
<1> DEFINE B == {k \in Nat : ~ \E f : Joins(f, ss, k)}
<1> SUFFICES ASSUME B # {} PROVE FALSE
  OBVIOUS
<1>1. PICK k \in B : \A j \in B : k <= j
  <2>1. B \in SUBSET Nat
    OBVIOUS
  <2> QED BY <2>1, Least, Zenon
<1>2. k # 0
  <2> SUFFICES ASSUME k = 0 PROVE FALSE
    OBVIOUS
  <2> DEFINE e == [i \in 1..0 |-> 0]
  <2>1. e = [i \in 1..0 |-> IF i = 1 THEN ss[i] ELSE e[i-1] \o ss[i]]
    OBVIOUS
  <2>2. Joins(e, ss, 0)
    BY <2>1, Zenon DEF Joins
  <2> QED BY <2>2, <1>1
<1>3. k \in Nat /\ k-1 \in Nat /\ k-1 \notin B
  BY <1>1, <1>2
<1>4. PICK g : Joins(g, ss, k-1)
  BY <1>3
<1> DEFINE f == [i \in 1..k |-> IF i = 1 THEN ss[i] ELSE g[i-1] \o ss[i]]
<1>5. \A i \in 1..(k-1) : f[i] = g[i]
  <2> SUFFICES ASSUME NEW i \in 1..(k-1) PROVE f[i] = g[i]
    OBVIOUS
  <2>1. i \in 1..k
    BY <1>3
  <2>2. f[i] = IF i = 1 THEN ss[i] ELSE g[i-1] \o ss[i]
    BY <2>1, Zenon
  <2>3. g[i] = IF i = 1 THEN ss[i] ELSE g[i-1] \o ss[i]
    BY <1>3, <1>4, JoinsAt
  <2> QED BY <2>2, <2>3
<1>6. \A i \in 1..k : i # 1 => i-1 \in 1..(k-1)
  BY <1>3
<1>7. f = [i \in 1..k |-> IF i = 1 THEN ss[i] ELSE f[i-1] \o ss[i]]
  <2>1. \A i \in 1..k : i # 1 => f[i-1] = g[i-1]
    BY <1>5, <1>6
  <2> HIDE DEF f
  <2>2. f = [i \in 1..k |-> IF i = 1 THEN ss[i] ELSE g[i-1] \o ss[i]]
    BY DEF f
  <2> QED BY <2>1, <2>2, Zenon
<1>8. Joins(f, ss, k)
  BY <1>7, Zenon DEF Joins
<1> QED BY <1>8, <1>1

LEMMA FlattenJoins ==
  ASSUME NEW X, NEW ss \in Seq(Seq(X)), ss # <<>>
  PROVE  \E f : Joins(f, ss, Len(ss)) /\ FlattenSeq(ss) = f[Len(ss)]
<1>1. Len(ss) # 0 /\ Len(ss) \in Nat
  OBVIOUS
<1> DEFINE f == CHOOSE f : f = [i \in 1..Len(ss) |-> IF i = 1 THEN ss[i] ELSE f[i-1] \o ss[i]]
<1>2. FlattenSeq(ss) = f[Len(ss)]
  BY <1>1, Zenon DEF FlattenSeq
<1>3. Joins(f, ss, Len(ss))
  BY <1>1, JoinsExists, Zenon DEF Joins
<1> QED BY <1>2, <1>3

LEMMA FlattenEmpty == FlattenSeq(<<>>) = <<>>
<1>1. Len(<<>>) = 0
  OBVIOUS
<1> QED BY <1>1, Zenon DEF FlattenSeq

\* FlattenSeq of sequences.
LEMMA FlattenType == ASSUME NEW X, NEW ss \in Seq(Seq(X)) PROVE FlattenSeq(ss) \in Seq(X)
<1>1. CASE ss = <<>>
  <2>1. FlattenSeq(ss) = <<>>
    BY <1>1, FlattenEmpty
  <2> QED BY <2>1
<1>2. CASE ss # <<>>
  <2>1. PICK f : Joins(f, ss, Len(ss)) /\ FlattenSeq(ss) = f[Len(ss)]
    BY <1>2, FlattenJoins
  <2>2. Len(ss) \in 1..Len(ss) /\ Len(ss) \in 0..Len(ss)
    BY <1>2
  <2>3. \A i \in 1..Len(ss) : f[i] \in Seq(X)
    BY <2>1, <2>2, JoinsType
  <2>4. f[Len(ss)] \in Seq(X)
    BY <2>2, <2>3, Zenon
  <2> QED BY <2>1, <2>4
<1> QED BY <1>1, <1>2

\* One more at the end.
LEMMA FlattenAppend ==
  ASSUME NEW X, NEW ss \in Seq(Seq(X)), NEW e \in Seq(X)
  PROVE  FlattenSeq(Append(ss, e)) = FlattenSeq(ss) \o e
<1> DEFINE n == Len(ss)
           tt == Append(ss, e)
<1>1. /\ tt \in Seq(Seq(X)) /\ tt # <<>> /\ Len(tt) = n + 1 /\ n \in Nat
      /\ tt[n+1] = e /\ \A i \in 1..n : tt[i] = ss[i]
  <2>1. tt \in Seq(Seq(X)) /\ Len(tt) = n + 1 /\ n \in Nat
    OBVIOUS
  <2>2. tt[n+1] = e /\ \A i \in 1..n : tt[i] = ss[i]
    OBVIOUS
  <2>3. tt # <<>>
    BY <2>1, SMTT(30)
  <2> QED BY <2>1, <2>2, <2>3
<1>2. PICK g : Joins(g, tt, n+1) /\ FlattenSeq(tt) = g[n+1]
  BY <1>1, FlattenJoins
<1>3. g[n+1] = IF n+1 = 1 THEN tt[n+1] ELSE g[(n+1)-1] \o tt[n+1]
  <2>1. n+1 \in Nat /\ n+1 \in 1..(n+1)
    BY <1>1
  <2> HIDE DEF n, tt
  <2> QED BY <1>2, <2>1, JoinsAt
<1>4. CASE ss = <<>>
  <2>1. g[n+1] = e
    BY <1>1, <1>3, <1>4
  <2>2. <<>> \o e = e
    OBVIOUS
  <2> QED BY <1>2, <1>4, <2>1, <2>2, FlattenEmpty
<1>5. CASE ss # <<>>
  <2>1. PICK f : Joins(f, ss, n) /\ FlattenSeq(ss) = f[n]
    BY <1>5, FlattenJoins
  <2>2. n # 0 /\ n \in 1..n /\ (n+1)-1 = n /\ n \in 0..(n+1) /\ n+1 \in Nat
    BY <1>1, <1>5
  <2>3. Joins(f, tt, n)
    BY <2>1, <1>1, Zenon DEF Joins
  <2>4. g[n] = f[n]
    <3> HIDE DEF n, tt
    <3>1. \A i \in 1..n : g[i] = f[i]
      BY <1>2, <2>2, <2>3, JoinsOnce
    <3> QED BY <2>2, <3>1
  <2>5. g[n+1] = g[n] \o e
    BY <1>1, <1>3, <2>2
  <2> QED BY <1>2, <2>1, <2>4, <2>5
<1> QED BY <1>4, <1>5

\* ... up to which place each of them reaches, and what is there.
LEMMA FlattenPlaces ==
  ASSUME NEW X, NEW ss \in Seq(Seq(X))
  PROVE  \E at \in [0..Len(ss) -> Nat] :
           /\ at[0] = 0 /\ at[Len(ss)] = Len(FlattenSeq(ss))
           /\ \A i \in 1..Len(ss) :
                /\ at[i] = at[i-1] + Len(ss[i])
                /\ \A k \in 1..Len(ss[i]) : FlattenSeq(ss)[at[i-1] + k] = ss[i][k]
           /\ \A i, j \in 0..Len(ss) : i <= j => at[i] <= at[j]
<1> DEFINE n == Len(ss)
<1>0. n \in Nat /\ \A i \in 1..n : ss[i] \in Seq(X) /\ Len(ss[i]) \in Nat
  OBVIOUS
<1>1. CASE ss = <<>>
  <2> DEFINE at == [i \in 0..n |-> 0]
  <2>1. n = 0 /\ FlattenSeq(ss) = <<>>
    BY <1>1, FlattenEmpty
  <2>2. at \in [0..Len(ss) -> Nat] /\ at[0] = 0 /\ at[Len(ss)] = 0
    BY <2>1
  <2>3. \A i, j \in 0..Len(ss) : i <= j => at[i] <= at[j]
    BY <2>1
  <2>4. \A i \in 1..Len(ss) : FALSE
    BY <2>1
  <2>5. Len(FlattenSeq(ss)) = 0
    BY <2>1
  <2> HIDE DEF at, n
  <2> QED BY <2>2, <2>3, <2>4, <2>5
<1>2. CASE ss # <<>>
  <2>1. PICK f : Joins(f, ss, n) /\ FlattenSeq(ss) = f[n]
    BY <1>2, FlattenJoins
  <2>2. n \in 1..n /\ n \in 0..n
    BY <1>0, <1>2
  <2>3. \A i \in 1..n : f[i] \in Seq(X)
    BY <1>0, <2>1, <2>2, JoinsType
  <2>4. \A i \in 1..n : f[i] = IF i = 1 THEN ss[i] ELSE f[i-1] \o ss[i]
    BY <1>0, <2>1, JoinsAt
  <2> HIDE DEF n
  <2> DEFINE at == [i \in 0..n |-> IF i = 0 THEN 0 ELSE Len(f[i])]
  <2>5. /\ \A i \in 1..n : f[i] \in Seq(X) /\ Len(f[i]) \in Nat /\ i \in 0..n /\ i-1 \in 0..n
        /\ \A i \in 1..n : i # 1 => i-1 \in 1..n /\ i-1 # 0
    BY <2>3, <1>0
  <2>6. at \in [0..n -> Nat] /\ at[0] = 0 /\ \A i \in 1..n : at[i] = Len(f[i])
    BY <2>5, <1>0
  <2> HIDE DEF at
  \* what each adds
  <2>7. ASSUME NEW i \in 1..n
        PROVE  /\ at[i] = at[i-1] + Len(ss[i]) /\ at[i-1] <= at[i]
               /\ \A k \in 1..Len(ss[i]) : f[i][at[i-1] + k] = ss[i][k]
               /\ \A k \in 1..at[i-1] : f[i][k] = f[i-1][k]
    <3>1. CASE i = 1
      <4>1. f[i] = ss[i] /\ at[i-1] = 0 /\ at[i] = Len(ss[i])
        BY <3>1, <2>4, <2>6
      <4> QED BY <4>1, <1>0
    <3>2. CASE i # 1
      <4> DEFINE a == f[i-1]
                 b == ss[i]
      <4>1. f[i] = a \o b /\ a \in Seq(X) /\ b \in Seq(X)
        BY <3>2, <2>4, <2>5, <1>0
      <4>2. at[i-1] = Len(a) /\ at[i] = Len(f[i])
        BY <3>2, <2>5, <2>6
      <4> HIDE DEF a, b
      <4>3. /\ Len(a \o b) = Len(a) + Len(b) /\ Len(a) \in Nat /\ Len(b) \in Nat
            /\ \A k \in 1..Len(b) : (a \o b)[Len(a) + k] = b[k]
            /\ \A k \in 1..Len(a) : (a \o b)[k] = a[k]
        BY <4>1
      <4>4. /\ at[i] = at[i-1] + Len(b) /\ at[i-1] <= at[i]
            /\ \A k \in 1..Len(b) : f[i][at[i-1] + k] = b[k]
            /\ \A k \in 1..at[i-1] : f[i][k] = a[k]
        BY <4>1, <4>2, <4>3
      <4> QED BY <4>4 DEF a, b
    <3> QED BY <3>1, <3>2
  \* what is there stays there
  <2>8. ASSUME NEW i \in 0..n
        PROVE  \A j \in i..n : at[i] <= at[j] /\ \A k \in 1..at[i] : f[j][k] = f[i][k]
    <3> DEFINE Good(j) == at[i] <= at[j] /\ \A k \in 1..at[i] : f[j][k] = f[i][k]
               B == {j \in i..n : ~Good(j)}
    <3> SUFFICES ASSUME B # {} PROVE FALSE
      OBVIOUS
    <3>1. PICK j \in B : \A l \in B : j <= l
      <4>1. B \in SUBSET Nat
        BY <1>0
      <4> QED BY <4>1, Least, Zenon
    <3>2. j \in i..n /\ at[i] \in Nat /\ at[j] \in Nat
      BY <2>6, <3>1, <1>0
    <3>3. j # i
      <4>1. Good(i)
        BY <3>2
      <4> QED BY <4>1, <3>1
    <3>4. j-1 \in i..n /\ ~(j <= j-1) /\ j \in 1..n
      BY <3>2, <3>3, <1>0
    <3>5. Good(j-1)
      BY <3>4, <3>1
    <3>6. at[j-1] <= at[j] /\ (\A k \in 1..at[j-1] : f[j][k] = f[j-1][k]) /\ at[j-1] \in Nat
      BY <3>4, <2>7, <2>6, <2>5
    <3>7. Good(j)
      <4>1. at[i] <= at[j-1] /\ \A k \in 1..at[i] : f[j-1][k] = f[i][k]
        BY <3>5
      <4>2. \A k \in 1..at[i] : k \in 1..at[j-1]
        BY <4>1, <3>2, <3>6
      <4>3. at[i] <= at[j]
        BY <4>1, <3>2, <3>6
      <4> QED BY <4>1, <4>2, <4>3, <3>6, Zenon
    <3> QED BY <3>7, <3>1
  <2>9. ASSUME NEW i \in 1..n
        PROVE  \A k \in 1..Len(ss[i]) : FlattenSeq(ss)[at[i-1] + k] = ss[i][k]
    <3>1. n \in i..n /\ i \in 0..n /\ i-1 \in 0..n
      BY <1>0
    <3>2. \A k \in 1..at[i] : f[n][k] = f[i][k]
      BY <3>1, <2>8, Zenon
    <3>3. at[i] = at[i-1] + Len(ss[i]) /\ at[i-1] \in Nat /\ Len(ss[i]) \in Nat
      BY <3>1, <2>7, <2>6, <1>0
    <3>4. \A k \in 1..Len(ss[i]) : at[i-1] + k \in 1..at[i]
      BY <3>3
    <3> QED BY <3>2, <3>4, <2>7, <2>1
  <2>10. at[n] = Len(FlattenSeq(ss))
    BY <2>1, <2>2, <2>6
  <2>11. \A i, j \in 0..n : i <= j => at[i] <= at[j]
    <3>1. \A i, j \in 0..n : i <= j => j \in i..n
      BY <1>0
    <3> QED BY <3>1, <2>8
  <2> QED BY <2>6, <2>7, <2>9, <2>10, <2>11 DEF n
<1> QED BY <1>1, <1>2
=============================================================================
