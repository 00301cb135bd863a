--------------------------- MODULE SqlcacheProofs ---------------------------
(***************************************************************************)
(* The query cache never shows a stale value and its locks never make a    *)
(* circle: for any threads, caches, parameters and contents.               *)
(***************************************************************************)
EXTENDS Sqlcache, TLAPS, WellFoundedInduction, FiniteSetTheorems

-----------------------------------------------------------------------------
(* Numbers.                                                                 *)

\* A set of natural numbers has a least one.
LEMMA Least == ASSUME NEW S \in SUBSET Nat, S # {} PROVE \E x \in S : \A y \in S : x <= y
<1> DEFINE R == OpToRel(<, Nat)
<1>1. \A x, y \in Nat : y < x => <<y, x>> \in R
  BY DEF OpToRel
<1>2. IsWellFoundedOn(R, Nat)
  BY NatLessThanWellFounded
<1> HIDE DEF R
<1>3. \E x \in S : \A y \in S : ~(<<y, x>> \in R)
  BY <1>2, WFMin
<1>4. ASSUME NEW x \in S, \A y \in S : ~(<<y, x>> \in R) PROVE \A y \in S : x <= y
  <2> SUFFICES ASSUME NEW y \in S PROVE x <= y
    OBVIOUS
  <2>1. ~(y < x)
    BY <1>1, <1>4
  <2> QED BY <2>1
<1> QED BY <1>3, <1>4

\* One with a bound has a greatest.
LEMMA Greatest ==
  ASSUME NEW S \in SUBSET Nat, S # {}, NEW n \in Nat, \A y \in S : y <= n
  PROVE  \E x \in S : \A y \in S : y <= x
<1> DEFINE T == {n - y : y \in S}
<1>1. \A y \in S : y \in Nat /\ n - y \in Nat
  OBVIOUS
<1>2. PICK z \in T : \A y \in T : z <= y
  BY <1>1, Least, ZenonT(40)
<1>3. PICK x \in S : z = n - x
  BY <1>2
<1>4. ASSUME NEW y \in S PROVE y <= x
  <2>1. n - x <= n - y
    BY <1>2, <1>3
  <2> QED BY <1>1, <2>1
<1> QED BY <1>4

\* Induction, for a set.
LEMMA Inductive ==
  ASSUME NEW S \in SUBSET Nat, 0 \in S, \A n \in S : n + 1 \in S
  PROVE  S = Nat
<1> DEFINE T == Nat \ S
<1> SUFFICES ASSUME T # {} PROVE FALSE
  OBVIOUS
<1>1. PICK x \in T : \A y \in T : x <= y
  BY Least
<1>2. x # 0 /\ x - 1 \in Nat /\ x - 1 \notin T
  BY <1>1
<1>3. (x - 1) + 1 \in S
  BY <1>2
<1> QED BY <1>3

LEMMA MaxOf ==
  ASSUME NEW S \in SUBSET Nat, S # {}, NEW n \in Nat, \A y \in S : y <= n
  PROVE  Max(S) \in S /\ \A y \in S : y <= Max(S)
<1>1. \E x \in S : \A y \in S : x >= y
  BY Greatest
<1> QED BY <1>1 DEF Max

-----------------------------------------------------------------------------
(* Sorted lists.                                                            *)

Rising(f, n) == \A i, j \in 1..n : i < j => f[i] < f[j]

\* Every set of numbers up to n can be sorted: by induction on n.
LEMMA Sortable ==
  ASSUME NEW n \in Nat, NEW S \in SUBSET (1..n)
  PROVE  /\ IsFiniteSet(S) /\ Cardinality(S) \in Nat
         /\ \E f \in [1..Cardinality(S) -> S] : Rising(f, Cardinality(S))
<1> DEFINE Good(T) == \E f \in [1..Cardinality(T) -> T] : Rising(f, Cardinality(T))
           G == {k \in Nat : \A T \in SUBSET (1..k) : Good(T)}
<1>1. ASSUME NEW k \in Nat, NEW T \in SUBSET (1..k)
      PROVE  IsFiniteSet(T) /\ Cardinality(T) \in Nat
  <2>1. IsFiniteSet(1..k)
    BY FS_Interval
  <2>2. IsFiniteSet(T)
    BY <2>1, FS_Subset
  <2> QED BY <2>2, FS_CardinalityType
<1>2. 0 \in G
  <2> SUFFICES ASSUME NEW T \in SUBSET (1..0) PROVE Good(T)
    OBVIOUS
  <2>1. T = {} /\ Cardinality({}) = 0
    BY FS_EmptySet
  <2>2. [i \in 1..0 |-> i] \in [1..Cardinality(T) -> T]
    BY <2>1
  <2> QED BY <2>1, <2>2 DEF Rising
<1>3. ASSUME NEW k \in G PROVE k + 1 \in G
  <2> SUFFICES ASSUME NEW T \in SUBSET (1..(k + 1)), k + 1 \in T PROVE Good(T)
    <3>1. ASSUME NEW T \in SUBSET (1..(k + 1)), k + 1 \notin T PROVE T \in SUBSET (1..k)
      BY <3>1
    <3> HIDE DEF Good
    <3> QED BY <3>1
  <2> DEFINE U == T \ {k + 1}
  <2>1. U \in SUBSET (1..k)
    OBVIOUS
  <2>2. Good(U)
    BY <2>1
  <2>3. IsFiniteSet(U) /\ Cardinality(U) \in Nat
    BY <1>1, <2>1
  <2>4. T = U \cup {k + 1} /\ Cardinality(T) = Cardinality(U) + 1
    <3>1. T = U \cup {k + 1} /\ k + 1 \notin U
      OBVIOUS
    <3> HIDE DEF U
    <3>2. Cardinality(U \cup {k + 1}) = Cardinality(U) + 1
      BY <2>3, <3>1, FS_AddElement
    <3> QED BY <3>1, <3>2
  <2>5. PICK f \in [1..Cardinality(U) -> U] : Rising(f, Cardinality(U))
    BY <2>2
  <2> DEFINE g == [i \in 1..Cardinality(T) |-> IF i = Cardinality(T) THEN k + 1 ELSE f[i]]
  <2>6. g \in [1..Cardinality(T) -> T]
    <3> SUFFICES ASSUME NEW i \in 1..Cardinality(T), i # Cardinality(T) PROVE f[i] \in T
      BY <2>4
    <3>1. i \in 1..Cardinality(U)
      BY <2>3, <2>4
    <3> QED BY <2>5, <3>1
  <2>7. ASSUME NEW i \in 1..Cardinality(T), NEW j \in 1..Cardinality(T), i < j
        PROVE  g[i] < g[j]
    <3>1. i \in 1..Cardinality(U) /\ i # Cardinality(T)
      <4> DEFINE u == Cardinality(U)
                 v == Cardinality(T)
      <4>1. u \in Nat /\ v = u + 1 /\ i \in 1..v /\ j \in 1..v /\ i < j
        BY <2>3, <2>4, <2>7
      <4> HIDE DEF u, v
      <4>2. i \in 1..u /\ i # v
        BY <4>1
      <4> QED BY <4>2 DEF u, v
    <3>2. f[i] \in 1..k
      BY <2>1, <2>5, <3>1
    <3>3. CASE j = Cardinality(T)
      BY <2>7, <3>1, <3>2, <3>3
    <3>4. CASE j # Cardinality(T)
      <4>1. j \in 1..Cardinality(U)
        BY <2>3, <2>4, <3>4
      <4> QED BY <2>5, <2>7, <3>1, <3>4, <4>1 DEF Rising
    <3> QED BY <3>3, <3>4
  <2>8. Rising(g, Cardinality(T))
    BY <2>7 DEF Rising
  <2> QED BY <2>6, <2>8
<1>4. G = Nat
  BY <1>2, <1>3, Inductive
<1>5. Good(S)
  BY <1>4
<1> QED BY <1>1, <1>5

LEMMA SortedIs ==
  ASSUME NEW S \in SUBSET Caches
  PROVE  /\ Sorted(S) \in Seq(Caches)
         /\ Rising(Sorted(S), Len(Sorted(S)))
         /\ S # {} => Sorted(S) # <<>>
<1>1. Len(NumKeys) \in Nat /\ Caches = 1..Len(NumKeys)
  BY CachesAssumption DEF Caches
<1>2. /\ IsFiniteSet(S) /\ Cardinality(S) \in Nat
      /\ \E f \in [1..Cardinality(S) -> S] : Rising(f, Cardinality(S))
  BY <1>1, Sortable
<1>3. Sorted(S) \in [1..Cardinality(S) -> S] /\ Rising(Sorted(S), Cardinality(S))
  BY <1>2 DEF Sorted, Rising
<1> HIDE DEF Sorted
<1>4. Sorted(S) \in Seq(Caches) /\ Len(Sorted(S)) = Cardinality(S)
  BY <1>2, <1>3
<1>5. S # {} => Cardinality(S) # 0
  BY <1>2, FS_EmptySet
<1> QED BY <1>2, <1>3, <1>4, <1>5

-----------------------------------------------------------------------------
(* Keys.                                                                    *)

LEMMA NumKeysIs == ASSUME NEW c \in Caches PROVE NumKeys[c] \in Nat
BY CachesAssumption DEF Caches

LEMMA TupleIs ==
  ASSUME NEW c \in Caches, NEW ks \in Tuples[c]
  PROVE  ks \in [1..NumKeys[c] -> Keys] /\ Len(ks) = NumKeys[c] /\ ks \in Seq(Keys)
BY NumKeysIs DEF Tuples

LEMMA PrefixIs ==
  ASSUME NEW c \in Caches, NEW ks \in Tuples[c]
  PROVE  Prefix[ks] = {SubSeq(ks, 1, n) : n \in (IF ks = <<>> THEN 0 ELSE 1)..Len(ks)}
BY DEF Prefix

\* An entry is at the end of its own way.
LEMMA OwnPrefix ==
  ASSUME NEW c \in Caches, NEW ks \in Tuples[c]
  PROVE  ks \in Prefix[ks] /\ Prefix[ks] \subseteq TableKeys[c] /\ ks \in TableKeys[c]
<1>1. SubSeq(ks, 1, Len(ks)) = ks
  BY TupleIs
<1>2. Len(ks) \in (IF ks = <<>> THEN 0 ELSE 1)..Len(ks)
  BY TupleIs
<1>3. Prefix[ks] \subseteq TableKeys[c]
  BY DEF TableKeys
<1> QED BY <1>1, <1>2, <1>3, PrefixIs

\* No entry is on the way to another one.
LEMMA LeafPrefix ==
  ASSUME NEW c \in Caches, NEW ks \in Tuples[c], NEW k \in Tuples[c], k \in Prefix[ks]
  PROVE  k = ks
<1>1. PICK n \in (IF ks = <<>> THEN 0 ELSE 1)..Len(ks) : k = SubSeq(ks, 1, n)
  BY PrefixIs
<1>2. Len(ks) = NumKeys[c] /\ Len(k) = NumKeys[c] /\ NumKeys[c] \in Nat /\ ks \in Seq(Keys)
  BY TupleIs, NumKeysIs
<1>3. n \in 0..Len(ks)
  BY <1>2
<1>4. Len(SubSeq(ks, 1, n)) = n
  BY <1>2, <1>3
<1>5. n = Len(ks)
  BY <1>1, <1>2, <1>4
<1> QED BY <1>1, <1>2, <1>5

\* The known keys of a flush are those before the first null one.
LEMMA KnownIs ==
  ASSUME NEW c \in Caches, NEW pat \in Patterns[c]
  PROVE  LET m == Cardinality(Known(pat)) IN
         /\ Len(pat) = NumKeys[c] /\ pat \in Seq(Keys \cup {Null})
         /\ m \in 0..NumKeys[c]
         /\ \A i \in 1..m : pat[i] # Null
         /\ m < NumKeys[c] => pat[m + 1] = Null
         /\ SubSeq(pat, 1, m) = [i \in 1..m |-> pat[i]]
<1>1. Len(pat) = NumKeys[c] /\ pat \in Seq(Keys \cup {Null}) /\ NumKeys[c] \in Nat
  BY NumKeysIs DEF Patterns
<1> DEFINE S == {n \in 1..Len(pat) : pat[n] = Null}
<1>2. \E k \in 0..NumKeys[c] :
        Known(pat) = 1..k /\ (\A i \in 1..k : pat[i] # Null) /\ (k < NumKeys[c] => pat[k + 1] = Null)
  <2>1. CASE S = {}
    <3>1. Known(pat) = 1..NumKeys[c] /\ \A i \in 1..NumKeys[c] : pat[i] # Null
      BY <1>1, <2>1 DEF Known
    <3> QED BY <1>1, <3>1
  <2>2. CASE S # {}
    <3>1. PICK n \in S : \A j \in S : n <= j
      <4>1. S \in SUBSET Nat
        BY <1>1
      <4> HIDE DEF S
      <4> QED BY <2>2, <4>1, Least
    <3>2. n - 1 \in 0..NumKeys[c] /\ pat[(n - 1) + 1] = Null /\ n \in 1..NumKeys[c]
      BY <1>1, <3>1
    <3>3. \A i \in 1..(n - 1) : i \in 1..Len(pat) /\ pat[i] # Null
      BY <1>1, <3>1
    <3>4. Known(pat) = 1..(n - 1)
      <4>1. ASSUME NEW j \in Known(pat) PROVE j \in 1..(n - 1)
        BY <1>1, <3>1, <3>2 DEF Known
      <4>2. ASSUME NEW j \in 1..(n - 1) PROVE j \in Known(pat)
        <5>1. j \in 1..Len(pat) /\ \A i \in 1..j : i \in 1..(n - 1)
          BY <3>2, <3>3
        <5> QED BY <3>3, <5>1 DEF Known
      <4> QED BY <4>1, <4>2
    <3> QED BY <3>2, <3>3, <3>4
  <2> QED BY <2>1, <2>2
<1>3. PICK k \in 0..NumKeys[c] :
        Known(pat) = 1..k /\ (\A i \in 1..k : pat[i] # Null) /\ (k < NumKeys[c] => pat[k + 1] = Null)
  BY <1>2
<1>4. k \in Nat /\ Cardinality(1..k) = k
  BY <1>1, FS_Interval, SMTT(30)
<1>5. Cardinality(Known(pat)) = k
  BY <1>3, <1>4
<1>6. SubSeq(pat, 1, k) = [i \in 1..k |-> pat[i]]
  BY <1>1, <1>4
<1> QED BY <1>1, <1>3, <1>5, <1>6

\* They begin all the keys that the flush is for.
LEMMA MatchingIs ==
  ASSUME NEW c \in Caches, NEW pat \in Patterns[c], NEW ks \in Tuples[c],
         <<c, ks>> \in Matching(c, pat)
  PROVE  LET m == Cardinality(Known(pat)) IN
         /\ SubSeq(pat, 1, m) = SubSeq(ks, 1, m)
         /\ m # 0 => SubSeq(pat, 1, m) \in Prefix[ks]
         /\ m = NumKeys[c] => SubSeq(pat, 1, m) = ks
<1> DEFINE m == Cardinality(Known(pat))
<1>1. /\ Len(pat) = NumKeys[c] /\ m \in 0..NumKeys[c] /\ NumKeys[c] \in Nat
      /\ \A i \in 1..m : pat[i] # Null
      /\ SubSeq(pat, 1, m) = [i \in 1..m |-> pat[i]]
  BY KnownIs, NumKeysIs
<1>2. Len(ks) = NumKeys[c] /\ ks \in Seq(Keys)
  BY TupleIs
<1>3. \A i \in 1..Len(ks) : pat[i] \in {ks[i], Null}
  BY DEF Matching
<1> HIDE DEF m
<1>4. SubSeq(ks, 1, m) = [i \in 1..m |-> ks[i]]
  BY <1>1, <1>2
<1>5. \A i \in 1..m : pat[i] = ks[i]
  BY <1>1, <1>2, <1>3
<1>6. SubSeq(pat, 1, m) = SubSeq(ks, 1, m)
  BY <1>1, <1>4, <1>5
<1>7. m = NumKeys[c] => SubSeq(ks, 1, m) = ks
  BY <1>1, <1>2
<1>8. m # 0 => SubSeq(ks, 1, m) \in Prefix[ks]
  <2>1. m # 0 => m \in (IF ks = <<>> THEN 0 ELSE 1)..Len(ks)
    BY <1>1, <1>2
  <2> QED BY <2>1, PrefixIs
<1> QED BY <1>6, <1>7, <1>8 DEF m

-----------------------------------------------------------------------------
(* The invariant.                                                           *)

Entry == [value : Value \cup {Null}, timeInvalid : Nat]
Query == UNION {{[cache |-> c, keys |-> ks] : ks \in Tuples[c]} : c \in Caches}
Update == [query : Query, value : Value]
Pairs == Rows \X Contents

TypeOK ==
  /\ holders \in [Caches -> SUBSET Threads]
  /\ writer \in [Caches -> BOOLEAN]
  /\ table = [c \in Caches |-> table[c]]
  /\ \A c \in Caches : table[c] \in [TableKeys[c] -> Entry \cup {NoEntry}]
  /\ timeInvalid \in [Caches -> Nat] /\ timeNow \in [Caches -> Nat]
  /\ pc \in [Threads -> {"idle", "locking", "running", "missed", "hit", "committed"}]
  /\ want \in [Threads -> Seq(Caches)]
  /\ flushes \in [Threads -> SUBSET Caches]
  /\ cacheUpdate \in [Threads -> Seq(Update)]
  /\ result \in [Threads -> Update \cup {Null}]
  /\ missed \in [Threads -> Query \cup {Null}]
  /\ db \in [Rows -> Contents]
  /\ own \in [Threads -> SUBSET Pairs] /\ page \in [Threads -> SUBSET Pairs]

\* A lock is held for writing by one thread, which flushes.  Locks are taken in order.
LockInv ==
  /\ \A c \in Caches : writer[c] => \E t \in Threads : holders[c] = {t}
  /\ \A c \in Caches : \A t \in holders[c] :
       /\ pc[t] # "idle"
       /\ c \in flushes[t] => writer[c]
       /\ \A i \in 1..Len(want[t]) : c < want[t][i]
  /\ \A t \in Threads :
       /\ Rising(want[t], Len(want[t]))
       /\ pc[t] = "locking" <=> want[t] # <<>>

\* The way to an entry is there.
TreeInv ==
  \A c \in Caches : \A ks \in Tuples[c] : table[c][ks] # NoEntry =>
    \A k \in Prefix[ks] : table[c][k] # NoEntry

\* Time goes on with every change.
TimeInv ==
  \A c \in Caches :
    /\ timeInvalid[c] <= timeNow[c]
    /\ \A k \in TableKeys[c] : table[c][k] # NoEntry =>
         /\ table[c][k].timeInvalid <= timeNow[c]
         /\ table[c][k].value # Null => table[c][k].value.timeValid < timeNow[c]

\* A lookup finds a value.
Fresh(c, ks) ==
  /\ \A k \in Prefix[ks] : table[c][k] # NoEntry
  /\ LET value == table[c][ks].value IN
     /\ value # Null /\ timeInvalid[c] < value.timeValid
     /\ \A k \in Prefix[ks] : table[c][k].timeInvalid < value.timeValid

\* What a lookup finds is committed, and nobody is writing it.
FreshInv ==
  \A c \in Caches : \A ks \in Tuples[c] : Fresh(c, ks) =>
    /\ table[c][ks].value.content = db[<<c, ks>>]
    /\ \A t \in Threads, v \in Contents : <<<<c, ks>>, v>> \notin own[t]

\* A transaction writes each row once, and only under the lock, until it commits.
OwnInv ==
  \A t \in Threads :
    /\ \A c \in Caches : \A ks \in Tuples[c], v \in Contents : <<<<c, ks>>, v>> \in own[t] =>
         /\ t \in holders[c] /\ c \in flushes[t]
         /\ pc[t] \in {"running", "missed", "hit"}
         /\ \A w \in Contents : <<<<c, ks>>, w>> \in own[t] => w = v
    /\ \A c \in Caches : \A ks \in Tuples[c], v \in Contents : <<<<c, ks>>, v>> \in page[t] =>
         t \in holders[c]

\* The lock of a query is held, and what it found is still true.
Holds(t, query) == t \in holders[query.cache]
Good(t, u) ==
  /\ Holds(t, u.query)
  /\ u.value.content = Queried!View(t, <<u.query.cache, u.query.keys>>)
Context(t) ==
  /\ pc[t] = "missed" => \E q \in Query : missed[t] = q /\ Holds(t, q)
  /\ pc[t] = "hit" => \E u \in Update : result[t] = u /\ Good(t, u)
  /\ \A i \in 1..Len(cacheUpdate[t]) : \E u \in Update : cacheUpdate[t][i] = u /\ Good(t, u)
ContextInv == \A t \in Threads : Context(t)

Inv == TypeOK /\ LockInv /\ TreeInv /\ TimeInv /\ FreshInv /\ OwnInv /\ ContextInv

-----------------------------------------------------------------------------
(* The locks.                                                               *)

LockOK ==
  /\ holders \in [Caches -> SUBSET Threads] /\ writer \in [Caches -> BOOLEAN]
  /\ pc \in [Threads -> {"idle", "locking", "running", "missed", "hit", "committed"}]
  /\ want \in [Threads -> Seq(Caches)] /\ flushes \in [Threads -> SUBSET Caches]
  /\ LockInv

LEMMA LocksBegin == ASSUME LockOK, NEW t \in Threads, Begin(t) PROVE LockOK'
<1> USE DEF LockOK, caches
<1>1. PICK fs \in SUBSET Caches, ss \in SUBSET Caches :
        /\ fs \union ss # {}
        /\ want' = [want EXCEPT ![t] = LockList(fs, ss)]
        /\ flushes' = [flushes EXCEPT ![t] = fs]
  BY DEF Begin
<1> DEFINE list == LockList(fs, ss)
<1>2. list \in Seq(Caches) /\ Rising(list, Len(list)) /\ list # <<>>
  BY <1>1, SortedIs DEF LockList
<1> HIDE DEF list
<1>3. /\ pc[t] = "idle" /\ pc' = [pc EXCEPT ![t] = "locking"]
      /\ want' = [want EXCEPT ![t] = list] /\ UNCHANGED <<holders, writer>>
  BY <1>1 DEF Begin, list
<1>4. LockInv'
  BY <1>1, <1>2, <1>3 DEF LockInv
<1> QED BY <1>1, <1>2, <1>3, <1>4

LEMMA LocksLock == ASSUME LockOK, NEW t \in Threads, Lock(t) PROVE LockOK'
<1> USE DEF LockOK
<1> DEFINE c == Head(want[t])
<1>1. /\ pc[t] = "locking" /\ LockFree(t)
      /\ holders' = [holders EXCEPT ![c] = @ \union {t}]
      /\ writer' = [writer EXCEPT ![c] = c \in flushes[t]]
      /\ want' = [want EXCEPT ![t] = Tail(@)]
      /\ pc' = [pc EXCEPT ![t] = IF Len(want[t]) = 1 THEN "running" ELSE @]
      /\ UNCHANGED flushes
  BY DEF Lock
<1>2. want[t] \in Seq(Caches) /\ want[t] # <<>> /\ Rising(want[t], Len(want[t]))
  BY <1>1 DEF LockInv
<1>3. /\ c \in Caches /\ c = want[t][1]
      /\ Tail(want[t]) \in Seq(Caches) /\ Len(Tail(want[t])) = Len(want[t]) - 1
      /\ Len(want[t]) \in Nat \ {0}
      /\ \A i \in 1..Len(Tail(want[t])) : Tail(want[t])[i] = want[t][i + 1]
  BY <1>2
<1>4. IF c \in flushes[t] THEN holders[c] = {} ELSE ~writer[c]
  BY <1>1 DEF LockFree
<1> HIDE DEF c
<1>6. LockInv'
  <2>1. ASSUME NEW d \in Caches, writer'[d] PROVE \E u \in Threads : holders'[d] = {u}
    <3>1. CASE d = c
      BY <1>1, <1>3, <1>4, <2>1, <3>1
    <3>2. CASE d # c
      BY <1>1, <2>1, <3>2 DEF LockInv
    <3> QED BY <3>1, <3>2
  <2>2. \A i \in 1..Len(want'[t]) : c < want'[t][i]
    <3>1. want'[t] = Tail(want[t])
      BY <1>1
    <3>2. ASSUME NEW i \in 1..Len(Tail(want[t])) PROVE c < Tail(want[t])[i]
      <4>1. i + 1 \in 1..Len(want[t]) /\ 1 \in 1..Len(want[t]) /\ 1 < i + 1
        BY <1>3
      <4>2. want[t][1] < want[t][i + 1]
        BY <1>2, <4>1 DEF Rising
      <4> QED BY <1>3, <4>2
    <3> QED BY <3>1, <3>2
  <2>3. Rising(want'[t], Len(want'[t])) /\ (pc'[t] = "locking" <=> want'[t] # <<>>)
    <3>1. want'[t] = Tail(want[t])
      BY <1>1
    <3>2. Rising(Tail(want[t]), Len(Tail(want[t])))
      BY <1>2, <1>3 DEF Rising
    <3>3. pc'[t] = "locking" <=> Len(want[t]) # 1
      BY <1>1
    <3>4. Len(want[t]) = 1 <=> Tail(want[t]) = <<>>
      <4>1. \A q \in Seq(Caches) : q = <<>> <=> Len(q) = 0
        OBVIOUS
      <4>2. Tail(want[t]) = <<>> <=> Len(Tail(want[t])) = 0
        BY <1>3, <4>1
      <4> QED BY <1>3, <4>2
    <3> QED BY <3>1, <3>2, <3>3, <3>4
  <2>4. ASSUME NEW u \in Threads, u # t PROVE want'[u] = want[u] /\ pc'[u] = pc[u]
    BY <1>1, <2>4
  <2>5. pc'[t] # "idle"
    BY <1>1
  <2>6. ASSUME NEW d \in Caches, NEW u \in holders'[d]
        PROVE  /\ pc'[u] # "idle"
               /\ d \in flushes'[u] => writer'[d]
               /\ \A i \in 1..Len(want'[u]) : d < want'[u][i]
    <3>1. u \in holders[d] \/ (d = c /\ u = t)
      BY <1>1, <1>3
    <3>2. CASE d = c /\ u = t
      BY <1>1, <1>3, <2>2, <2>5, <3>2
    <3>3. CASE u \in holders[d] /\ u # t
      <4>1. u \in Threads /\ pc[u] # "idle" /\ (d \in flushes[u] => writer[d])
            /\ \A i \in 1..Len(want[u]) : d < want[u][i]
        BY <3>3 DEF LockInv
      <4>2. d \in flushes[u] => writer'[d]
        BY <1>1, <1>3, <1>4, <3>3, <4>1
      <4> QED BY <1>1, <2>4, <3>3, <4>1, <4>2
    <3>4. CASE u \in holders[d] /\ u = t
      <4>1. (d \in flushes[t] => writer[d]) /\ \A i \in 1..Len(want[t]) : d < want[t][i]
        BY <3>4 DEF LockInv
      <4>2. d # c
        <5>1. 1 \in 1..Len(want[t]) /\ d \in Nat
          BY <1>3, CachesAssumption DEF Caches
        <5>2. d < want[t][1]
          BY <4>1, <5>1
        <5> QED BY <1>3, <5>1, <5>2
      <4>3. \A i \in 1..Len(Tail(want[t])) : d < Tail(want[t])[i]
        BY <1>3, <4>1
      <4> QED BY <1>1, <2>5, <3>4, <4>1, <4>2, <4>3
    <3> QED BY <3>1, <3>2, <3>3, <3>4
  <2> QED BY <2>1, <2>3, <2>4, <2>6 DEF LockInv
<1> QED BY <1>1, <1>3, <1>6

LEMMA LocksFree == ASSUME LockOK, NEW t \in Threads, FreeUpdates(t) PROVE LockOK'
<1> USE DEF LockOK
<1>1. /\ holders' = [c \in Caches |-> holders[c] \ {t}]
      /\ writer' = [c \in Caches |-> writer[c] /\ holders[c] # {t}]
      /\ want' = [want EXCEPT ![t] = <<>>]
      /\ flushes' = [flushes EXCEPT ![t] = {}]
      /\ pc' = [pc EXCEPT ![t] = "idle"]
  BY DEF FreeUpdates
<1>2. \A s \in Threads \ {t} : want'[s] = want[s] /\ flushes'[s] = flushes[s] /\ pc'[s] = pc[s]
  BY <1>1
<1>3. want'[t] = <<>> /\ pc'[t] = "idle"
  BY <1>1
<1>5. LockInv'
  <2>1. ASSUME NEW c \in Caches, writer'[c] PROVE \E s \in Threads : holders'[c] = {s}
    <3>1. writer[c] /\ holders[c] # {t} /\ holders'[c] = holders[c] \ {t}
      BY <1>1, <2>1
    <3> QED BY <3>1, SMTT(30) DEF LockInv
  <2>2. ASSUME NEW c \in Caches, NEW s \in holders'[c]
        PROVE  /\ pc'[s] # "idle" /\ (c \in flushes'[s] => writer'[c])
               /\ \A i \in 1..Len(want'[s]) : c < want'[s][i]
    <3>1. s \in holders[c] /\ s # t /\ s \in Threads
      BY <1>1
    <3>2. writer[c] => writer'[c]
      BY <1>1, <3>1
    <3> QED BY <1>2, <3>1, <3>2 DEF LockInv
  <2>3. \A s \in Threads : Rising(want'[s], Len(want'[s])) /\ (pc'[s] = "locking" <=> want'[s] # <<>>)
    BY <1>2, <1>3 DEF LockInv, Rising
  <2> QED BY <2>1, <2>2, <2>3 DEF LockInv
<1> QED BY <1>1, <1>5

\* Every other step leaves the locks alone, and its thread where it has them all.
LEMMA LocksSame ==
  ASSUME LockOK, UNCHANGED <<holders, writer, want, flushes>>,
         \/ UNCHANGED pc
         \/ \E t \in Threads, p \in {"running", "missed", "hit", "committed"} :
              pc[t] \in {"running", "missed", "hit"} /\ pc' = [pc EXCEPT ![t] = p]
  PROVE  LockOK'
BY DEF LockOK, LockInv

LEMMA LocksNext == ASSUME LockOK, [Next]_vars PROVE LockOK'
<1> USE DEF caches, thread, data
<1>1. ASSUME NEW t \in Threads,
             \/ \E c \in Caches : \E ks \in Tuples[c] : Check(t, c, ks)
             \/ CopyHit(t) \/ Store(t) \/ Commit(t)
      PROVE  LockOK'
  <2>1. UNCHANGED <<holders, writer, want, flushes>>
    BY <1>1 DEF Check, CopyHit, Store, Commit
  <2>2. /\ pc[t] \in {"running", "missed", "hit"}
        /\ \E p \in {"running", "missed", "hit", "committed"} : pc' = [pc EXCEPT ![t] = p]
    BY <1>1 DEF Check, CopyHit, Store, Commit
  <2> QED BY <2>1, <2>2, LocksSame
<1>2. ASSUME NEW t \in Threads,
             \/ \E c \in Caches, v \in Contents : \E pat \in Patterns[c] : Dml(t, c, pat, v)
             \/ StoreCommit(t)
      PROVE  LockOK'
  <2>1. UNCHANGED <<holders, writer, want, flushes, pc>>
    BY <1>2 DEF Dml, StoreCommit
  <2> QED BY <2>1, LocksSame
<1>3. ASSUME NEW t \in Threads, Finish(t) \/ Abort(t) PROVE LockOK'
  BY <1>3, LocksFree DEF Finish, Abort
<1>4. CASE UNCHANGED vars
  BY <1>4, LocksSame DEF vars
<1> QED BY <1>1, <1>2, <1>3, <1>4, LocksBegin, LocksLock DEF Next

\* The cache with the greatest number that somebody waits for is held by a thread
\* that can go on.
LEMMA LockOrder == LockOK => NoLockCycle
<1> SUFFICES ASSUME LockOK, NEW t0 \in Threads, pc[t0] = "locking" PROVE NoLockCycle
  BY DEF NoLockCycle
<1> USE DEF LockOK
<1> DEFINE waiting == {t \in Threads : pc[t] = "locking"}
           S == {Head(want[t]) : t \in waiting}
<1>1. Len(NumKeys) \in Nat /\ Caches = 1..Len(NumKeys)
  BY CachesAssumption DEF Caches
<1>2. \A t \in waiting : want[t] \in Seq(Caches) /\ want[t] # <<>>
  BY DEF LockInv
<1>3. \A t \in waiting : Head(want[t]) \in Caches /\ 1 \in 1..Len(want[t]) /\ want[t][1] = Head(want[t])
  <2> SUFFICES ASSUME NEW t \in waiting
               PROVE  Head(want[t]) \in Caches /\ 1 \in 1..Len(want[t]) /\ want[t][1] = Head(want[t])
    OBVIOUS
  <2>1. PICK w \in Seq(Caches) : w = want[t] /\ w # <<>>
    BY <1>2
  <2>2. Head(w) \in Caches /\ 1 \in 1..Len(w) /\ w[1] = Head(w)
    BY <2>1
  <2> QED BY <2>1, <2>2
<1>4. S \in SUBSET Nat /\ S # {} /\ \A n \in S : n <= Len(NumKeys)
  <2>1. \A t \in waiting : Head(want[t]) \in Nat /\ Head(want[t]) <= Len(NumKeys)
    <3> HIDE DEF waiting
    <3> QED BY <1>1, <1>3
  <2>2. t0 \in waiting
    OBVIOUS
  <2> HIDE DEF waiting
  <2> QED BY <2>1, <2>2
<1>5. \E n \in S : \A k \in S : k <= n
  <2> HIDE DEF S
  <2> QED BY <1>1, <1>4, Greatest
<1>6. PICK t \in waiting : \A u \in waiting : Head(want[u]) <= Head(want[t])
  BY <1>5
<1>7. PICK c \in Caches : c = Head(want[t])
  BY <1>3
<1>8. CASE LockFree(t)
  BY <1>8 DEF NoLockCycle
<1>9. CASE ~LockFree(t)
  <2>1. \E u \in Threads : u \in holders[c]
    BY <1>7, <1>9 DEF LockFree, LockInv
  <2>2. PICK u \in Threads : u \in holders[c]
    BY <2>1
  <2>3. pc[u] # "idle" /\ \A i \in 1..Len(want[u]) : c < want[u][i]
    BY <2>2 DEF LockInv
  <2>4. ASSUME pc[u] = "locking" PROVE FALSE
    <3>1. u \in waiting
      BY <2>4
    <3>2. Head(want[u]) \in Caches /\ Head(want[u]) <= c /\ c < Head(want[u])
      BY <1>3, <1>6, <1>7, <2>3, <3>1
    <3> QED BY <1>1, <3>2
  <2> QED BY <2>3, <2>4 DEF NoLockCycle
<1> QED BY <1>8, <1>9

\* Transactions that hold outer locks until their end never all wait for each
\* other, whatever handlers do between.
THEOREM LocksInOrder == Spec => []NoLockCycle
<1>1. Init => LockOK
  BY DEF Init, LockOK, LockInv, Rising
<1>2. LockOK /\ [Next]_vars => LockOK'
  BY LocksNext
<1> QED BY <1>1, <1>2, LockOrder, PTL DEF Spec

-----------------------------------------------------------------------------
(* What lookups and queries return.                                         *)

LEMMA Records ==
  /\ NewEntry \in Entry
  /\ \A e \in Entry : e # NoEntry
  /\ \A v \in Value : v # Null
BY DEF NewEntry, NoEntry, Entry, Value, Null

LEMMA EntryIs ==
  ASSUME TypeOK, NEW c \in Caches, NEW k \in TableKeys[c]
  PROVE  table[c][k] \in Entry \cup {NoEntry}
BY DEF TypeOK

LEMMA LookupIs ==
  ASSUME TypeOK, TimeInv, NEW c \in Caches, NEW ks \in Tuples[c], Lookup(c, ks) # Null
  PROVE  Fresh(c, ks) /\ Lookup(c, ks) = table[c][ks].value
<1> DEFINE path == {table[c][k] : k \in Prefix[ks]}
           times == {timeInvalid[c]} \union {e.timeInvalid : e \in path}
           value == table[c][ks].value
<1>1. NoEntry \notin path /\ value # Null /\ Max(times) < value.timeValid
  BY DEF Lookup
<1>2. \A k \in Prefix[ks] : table[c][k] # NoEntry /\ table[c][k] \in Entry
  BY <1>1, OwnPrefix, EntryIs
<1>3. \A e \in path : e.timeInvalid \in Nat /\ e.timeInvalid <= timeNow[c]
  <2> SUFFICES ASSUME NEW k \in Prefix[ks]
               PROVE  table[c][k].timeInvalid \in Nat /\ table[c][k].timeInvalid <= timeNow[c]
    OBVIOUS
  <2> QED BY <1>2, OwnPrefix DEF TimeInv, Entry
<1>4. timeInvalid[c] \in Nat /\ timeInvalid[c] <= timeNow[c] /\ timeNow[c] \in Nat
  BY DEF TypeOK, TimeInv
<1>5. times \in SUBSET Nat /\ times # {} /\ \A n \in times : n <= timeNow[c]
  BY <1>3, <1>4
<1>6. value \in Value
  BY <1>1, <1>2, OwnPrefix DEF Entry
<1> HIDE DEF times
<1>7. Max(times) \in Nat /\ \A n \in times : n <= Max(times)
  BY <1>4, <1>5, MaxOf
<1>8. \A n \in times : n < value.timeValid
  BY <1>1, <1>5, <1>6, <1>7 DEF Value
<1>9. timeInvalid[c] < value.timeValid /\ \A k \in Prefix[ks] : table[c][k].timeInvalid < value.timeValid
  BY <1>8 DEF times
<1>10. Lookup(c, ks) = value
  BY <1>1 DEF Lookup, times
<1> QED BY <1>1, <1>2, <1>9, <1>10 DEF Fresh

LEMMA FreshKept == UNCHANGED <<table, timeInvalid>> =>
  \A c \in Caches : \A ks \in Tuples[c] : Fresh(c, ks)' = Fresh(c, ks)
BY DEF Fresh

LEMMA RowIs == ASSUME NEW c \in Caches, NEW ks \in Tuples[c] PROVE <<c, ks>> \in Rows
BY DEF Rows

LEMMA ViewOwn ==
  ASSUME NEW t, NEW r, NEW v \in Contents, <<r, v>> \in own[t],
         \A w \in Contents : <<r, w>> \in own[t] => w = v
  PROVE  Queried!View(t, r) = v
BY DEF Queried!View

LEMMA ViewDb ==
  ASSUME NEW t, NEW r, \A v \in Contents : <<r, v>> \notin own[t]
  PROVE  Queried!View(t, r) = db[r]
BY DEF Queried!View

\* What a transaction sees in a row changes only with the row.
LEMMA ViewKept ==
  ASSUME OwnInv, NEW t \in Threads, NEW c \in Caches, NEW ks \in Tuples[c],
         \A v \in Contents : <<<<c, ks>>, v>> \in own[t] <=> <<<<c, ks>>, v>> \in own'[t],
         db'[<<c, ks>>] = db[<<c, ks>>]
  PROVE  Queried!View(t, <<c, ks>>)' = Queried!View(t, <<c, ks>>)
<1> DEFINE r == <<c, ks>>
<1>1. CASE \E v \in Contents : <<r, v>> \in own[t]
  <2>1. PICK v \in Contents : <<r, v>> \in own[t]
    BY <1>1
  <2>2. \A w \in Contents : <<r, w>> \in own[t] => w = v
    BY <2>1 DEF OwnInv
  <2>3. Queried!View(t, r) = v
    BY <2>1, <2>2, ViewOwn
  <2>4. <<r, v>> \in own'[t] /\ \A w \in Contents : <<r, w>> \in own'[t] => w = v
    BY <2>1, <2>2
  <2>5. Queried!View(t, r)' = v
    BY <2>4 DEF Queried!View
  <2> QED BY <2>3, <2>5
<1>2. CASE ~\E v \in Contents : <<r, v>> \in own[t]
  BY <1>2 DEF Queried!View
<1> QED BY <1>1, <1>2

LEMMA ViewIs ==
  ASSUME TypeOK, OwnInv, NEW t \in Threads, NEW c \in Caches, NEW ks \in Tuples[c]
  PROVE  Queried!View(t, <<c, ks>>) \in Contents
<1>1. ASSUME NEW v \in Contents, <<<<c, ks>>, v>> \in own[t]
      PROVE  Queried!View(t, <<c, ks>>) \in Contents
  <2>1. \A w \in Contents : <<<<c, ks>>, w>> \in own[t] => w = v
    BY <1>1 DEF OwnInv
  <2>2. Queried!View(t, <<c, ks>>) = v
    BY <1>1, <2>1, ViewOwn
  <2> QED BY <2>2
<1>2. ASSUME ~\E v \in Contents : <<<<c, ks>>, v>> \in own[t]
      PROVE  Queried!View(t, <<c, ks>>) \in Contents
  <2>1. Queried!View(t, <<c, ks>>) = db[<<c, ks>>]
    BY <1>2, ViewDb
  <2> QED BY <2>1, RowIs DEF TypeOK
<1> QED BY <1>1, <1>2

LEMMA ViewSame ==
  UNCHANGED <<db, own>> => \A t, r : Queried!View(t, r)' = Queried!View(t, r)
BY DEF Queried!View

LEMMA QueryIs ==
  /\ \A q \in Query : q.cache \in Caches /\ q.keys \in Tuples[q.cache]
  /\ \A u \in Update : u.query \in Query /\ u.value \in Value
BY DEF Query, Update

LEMMA GoodKept ==
  ASSUME NEW t, NEW u \in Update, Good(t, u),
         \A c \in Caches : t \in holders[c] => t \in holders'[c],
         Queried!View(t, <<u.query.cache, u.query.keys>>)'
           = Queried!View(t, <<u.query.cache, u.query.keys>>)
  PROVE  Good(t, u)'
<1>1. u.query.cache \in Caches
  BY QueryIs
<1> QED BY <1>1 DEF Good, Holds

LEMMA GoodSame ==
  UNCHANGED <<holders, db, own>> => \A t, u : Good(t, u)' = Good(t, u)
BY ViewSame DEF Good, Holds

\* What a thread works on stays true while it keeps its locks and sees what it saw.
LEMMA ContextKept ==
  ASSUME TypeOK, NEW t \in Threads, Context(t),
         pc'[t] = pc[t] \/ pc'[t] \notin {"missed", "hit"},
         missed'[t] = missed[t], result'[t] = result[t], cacheUpdate'[t] = cacheUpdate[t],
         \A c \in Caches : t \in holders[c] => t \in holders'[c],
         \A u \in Update : Good(t, u) =>
           Queried!View(t, <<u.query.cache, u.query.keys>>)'
             = Queried!View(t, <<u.query.cache, u.query.keys>>)
  PROVE  Context(t)'
<1>1. \A u \in Update : Good(t, u) => Good(t, u)'
  BY GoodKept
<1>2. \A q \in Query : Holds(t, q) => Holds(t, q)'
  BY QueryIs DEF Holds
<1> QED BY <1>1, <1>2 DEF Context

LEMMA ContextSame ==
  ASSUME TypeOK, ContextInv, UNCHANGED <<missed, result, cacheUpdate, db, own>>,
         \A c \in Caches : holders[c] \subseteq holders'[c],
         \A t \in Threads : pc'[t] = pc[t] \/ pc'[t] \notin {"missed", "hit"}
  PROVE  ContextInv'
<1> SUFFICES ASSUME NEW t \in Threads PROVE Context(t)'
  BY DEF ContextInv
<1> QED BY ContextKept, ViewSame DEF ContextInv

-----------------------------------------------------------------------------
(* Steps that leave the caches alone.                                       *)

LEMMA InitInv == Init => Inv
<1> SUFFICES ASSUME Init PROVE Inv
  OBVIOUS
<1> USE DEF Init, Queried!Init
<1>1. TypeOK
  BY DEF TypeOK
<1>2. LockInv
  BY DEF LockInv, Rising
<1>3. TreeInv /\ TimeInv
  BY OwnPrefix DEF TreeInv, TimeInv
<1>4. FreshInv
  BY OwnPrefix DEF FreshInv, Fresh
<1>5. OwnInv /\ ContextInv
  BY DEF OwnInv, ContextInv, Context
<1> QED BY <1>1, <1>2, <1>3, <1>4, <1>5 DEF Inv

\* An idle thread has nothing.
LEMMA IdleIs ==
  ASSUME TypeOK, LockInv, OwnInv, ContextInv, NEW t \in Threads, pc[t] = "idle"
  PROVE  /\ \A c \in Caches : t \notin holders[c]
         /\ \A c \in Caches : \A ks \in Tuples[c], v \in Contents :
              <<<<c, ks>>, v>> \notin own[t] /\ <<<<c, ks>>, v>> \notin page[t]
<1>1. \A c \in Caches : t \notin holders[c]
  BY DEF LockInv
<1> QED BY <1>1 DEF OwnInv

LEMMA BeginInv == ASSUME Inv, NEW t \in Threads, Begin(t) PROVE Inv'
<1> USE DEF Inv, caches, data
<1>1. PICK fs \in SUBSET Caches, ss \in SUBSET Caches :
        /\ fs \union ss # {}
        /\ want' = [want EXCEPT ![t] = LockList(fs, ss)]
        /\ flushes' = [flushes EXCEPT ![t] = fs]
  BY DEF Begin
<1> DEFINE list == LockList(fs, ss)
<1>2. list \in Seq(Caches) /\ Rising(list, Len(list)) /\ list # <<>>
  BY <1>1, SortedIs DEF LockList
<1> HIDE DEF list
<1>3. /\ pc[t] = "idle" /\ pc' = [pc EXCEPT ![t] = "locking"]
      /\ want' = [want EXCEPT ![t] = list]
      /\ UNCHANGED <<caches, cacheUpdate, result, missed, data>>
  BY <1>1 DEF Begin, list
<1>4. TypeOK'
  BY <1>1, <1>2, <1>3 DEF TypeOK
<1>5. LockInv'
  BY LocksBegin DEF TypeOK, LockOK
<1>6. TreeInv' /\ TimeInv'
  BY <1>3 DEF TreeInv, TimeInv
<1>7. FreshInv'
  BY <1>3, FreshKept DEF FreshInv
<1>8. OwnInv'
  BY <1>1, <1>3, IdleIs, SMTT(30) DEF OwnInv, TypeOK
<1>9. ContextInv'
  BY <1>3, ContextSame DEF TypeOK
<1> QED BY <1>4, <1>5, <1>6, <1>7, <1>8, <1>9

LEMMA LockStepInv == ASSUME Inv, NEW t \in Threads, Lock(t) PROVE Inv'
<1> USE DEF Inv, caches, data
<1> DEFINE c == Head(want[t])
<1>1. /\ pc[t] = "locking" /\ LockFree(t)
      /\ holders' = [holders EXCEPT ![c] = @ \union {t}]
      /\ writer' = [writer EXCEPT ![c] = c \in flushes[t]]
      /\ want' = [want EXCEPT ![t] = Tail(@)]
      /\ pc' = [pc EXCEPT ![t] = IF Len(want[t]) = 1 THEN "running" ELSE @]
      /\ UNCHANGED <<table, timeInvalid, timeNow, flushes, cacheUpdate, result, missed, data>>
  BY DEF Lock
<1>2. want[t] \in Seq(Caches) /\ want[t] # <<>> /\ Rising(want[t], Len(want[t]))
  BY <1>1 DEF LockInv, TypeOK
<1>3. /\ c \in Caches /\ c = want[t][1]
      /\ Tail(want[t]) \in Seq(Caches) /\ Len(Tail(want[t])) = Len(want[t]) - 1
      /\ Len(want[t]) \in Nat \ {0}
      /\ \A i \in 1..Len(Tail(want[t])) : Tail(want[t])[i] = want[t][i + 1]
  BY <1>2
<1>4. IF c \in flushes[t] THEN holders[c] = {} ELSE ~writer[c]
  BY <1>1 DEF LockFree
<1> HIDE DEF c
<1>5. TypeOK'
  BY <1>1, <1>3 DEF TypeOK
<1>6. LockInv'
  BY LocksLock DEF TypeOK, LockOK
<1>7. TreeInv' /\ TimeInv'
  BY <1>1 DEF TreeInv, TimeInv
<1>8. FreshInv'
  BY <1>1, FreshKept DEF FreshInv
<1>9. \A d \in Caches : holders[d] \subseteq holders'[d]
  BY <1>1 DEF TypeOK
<1>10. OwnInv'
  BY <1>1, <1>9 DEF OwnInv, TypeOK
<1>11. ContextInv'
  BY <1>1, <1>9, ContextSame DEF TypeOK
<1> QED BY <1>5, <1>6, <1>7, <1>8, <1>10, <1>11

LEMMA CheckInv ==
  ASSUME Inv, NEW t \in Threads, NEW c \in Caches, NEW ks \in Tuples[c], Check(t, c, ks)
  PROVE  Inv'
<1> USE DEF Inv, caches, data
<1>1. PICK query, value : query = [cache |-> c, keys |-> ks] /\ value = Lookup(c, ks)
  OBVIOUS
<1>2. /\ pc[t] = "running" /\ t \in holders[c]
      /\ UNCHANGED <<caches, want, flushes, cacheUpdate, data>>
  BY DEF Check
<1>3. query \in Query /\ query.cache = c /\ query.keys = ks
  BY <1>1 DEF Query
<1>4. PICK u : u = [query |-> query, value |-> value]
  OBVIOUS
<1>5. \/ /\ missed' = [missed EXCEPT ![t] = query]
         /\ pc' = [pc EXCEPT ![t] = "missed"] /\ UNCHANGED result
      \/ /\ value # Null
         /\ result' = [result EXCEPT ![t] = u]
         /\ pc' = [pc EXCEPT ![t] = "hit"] /\ UNCHANGED missed
  BY <1>1, <1>4 DEF Check
<1>6. ASSUME value # Null PROVE u \in Update /\ Good(t, u)
  <2>1. Fresh(c, ks) /\ value = table[c][ks].value
    BY <1>1, <1>6, LookupIs
  <2>2. table[c][ks] \in Entry
    BY <2>1, OwnPrefix, EntryIs DEF Fresh
  <2>3. value \in Value
    BY <1>6, <2>1, <2>2 DEF Entry
  <2>4. value.content = db[<<c, ks>>] /\ \A v \in Contents : <<<<c, ks>>, v>> \notin own[t]
    BY <2>1 DEF FreshInv
  <2>5. Queried!View(t, <<c, ks>>) = db[<<c, ks>>]
    BY <2>4, ViewDb
  <2> QED BY <1>2, <1>3, <1>4, <2>3, <2>4, <2>5 DEF Update, Good, Holds
<1>7. TypeOK'
  <2>1. missed' \in [Threads -> Query \cup {Null}]
    <3>1. missed' = missed \/ missed' = [missed EXCEPT ![t] = query]
      BY <1>5
    <3> QED BY <1>3, <3>1 DEF TypeOK
  <2>2. result' \in [Threads -> Update \cup {Null}]
    <3>1. result' = result \/ (u \in Update /\ result' = [result EXCEPT ![t] = u])
      BY <1>5, <1>6
    <3> QED BY <3>1 DEF TypeOK
  <2>3. pc' \in [Threads -> {"idle", "locking", "running", "missed", "hit", "committed"}]
    BY <1>5 DEF TypeOK
  <2> QED BY <1>2, <2>1, <2>2, <2>3 DEF TypeOK
<1>8. LockInv'
  BY <1>2, <1>5 DEF LockInv, TypeOK
<1>9. TreeInv' /\ TimeInv'
  BY <1>2 DEF TreeInv, TimeInv
<1>10. FreshInv'
  BY <1>2, FreshKept DEF FreshInv
<1>11. OwnInv'
  <2>1. \A s \in Threads : pc[s] \in {"running", "missed", "hit"}
                             => pc'[s] \in {"running", "missed", "hit"}
    BY <1>5 DEF TypeOK
  <2> QED BY <1>2, <2>1 DEF OwnInv
<1>12. ContextInv'
  <2>1. \A s, v : Good(s, v)' = Good(s, v)
    BY <1>2, GoodSame
  <2>2. \A s, q : Holds(s, q)' = Holds(s, q)
    BY <1>2 DEF Holds
  <2>3. ASSUME NEW s \in Threads, s # t PROVE Context(s)'
    BY <1>2, <1>5, <2>1, <2>2, <2>3 DEF Context, ContextInv, TypeOK
  <2>4. \/ missed'[t] = query /\ pc'[t] = "missed"
        \/ value # Null /\ result'[t] = u /\ pc'[t] = "hit"
    <3>1. /\ missed \in [Threads -> Query \cup {Null}] /\ result \in [Threads -> Update \cup {Null}]
          /\ DOMAIN pc = Threads
      BY DEF TypeOK
    <3> QED BY <1>5, <3>1
  <2>5. Holds(t, query)
    BY <1>2, <1>3 DEF Holds
  <2>6. Context(t)'
    BY <1>2, <1>3, <1>6, <2>1, <2>2, <2>4, <2>5 DEF Context, ContextInv
  <2> QED BY <2>3, <2>6 DEF ContextInv
<1> QED BY <1>7, <1>8, <1>9, <1>10, <1>11, <1>12

\* A query's row with its result.
RowOf(query) == <<query.cache, query.keys>>

LEMMA CopyHitInv == ASSUME Inv, NEW t \in Threads, CopyHit(t) PROVE Inv'
<1> USE DEF Inv, caches
<1> DEFINE res == result[t]
<1>1. /\ pc[t] = "hit" /\ pc' = [pc EXCEPT ![t] = "running"]
      /\ page' = [page EXCEPT ![t] = @ \union {<<RowOf(res.query), res.value.content>>}]
      /\ result' = [result EXCEPT ![t] = Null]
      /\ UNCHANGED <<caches, want, flushes, cacheUpdate, missed, db, own>>
  BY DEF CopyHit, RowOf
<1>2. /\ res.query.cache \in Caches /\ res.query.keys \in Tuples[res.query.cache]
      /\ res.value.content \in Contents /\ t \in holders[res.query.cache]
  <2>1. res \in Update /\ Good(t, res)
    BY <1>1 DEF ContextInv, Context
  <2> QED BY <2>1, QueryIs DEF Value, Good, Holds
<1>3. <<RowOf(res.query), res.value.content>> \in Pairs
  BY <1>2, RowIs DEF Pairs, RowOf
<1> HIDE DEF res
<1>4. TypeOK'
  BY <1>1, <1>3 DEF TypeOK
<1>5. LockInv'
  BY <1>1 DEF LockInv, TypeOK
<1>6. TreeInv' /\ TimeInv'
  BY <1>1 DEF TreeInv, TimeInv
<1>7. FreshInv'
  BY <1>1, FreshKept DEF FreshInv
<1>8. OwnInv'
  <2>1. ASSUME NEW u \in Threads, NEW c \in Caches, NEW ks \in Tuples[c], NEW v \in Contents,
               <<<<c, ks>>, v>> \in page'[u]
        PROVE  u \in holders[c]
    <3>1. CASE <<<<c, ks>>, v>> \in page[u]
      BY <3>1 DEF OwnInv
    <3>2. CASE <<<<c, ks>>, v>> \notin page[u]
      <4>1. u = t /\ <<<<c, ks>>, v>> = <<RowOf(res.query), res.value.content>>
        BY <1>1, <2>1, <3>2 DEF TypeOK
      <4> QED BY <1>2, <4>1 DEF RowOf
    <3> QED BY <3>1, <3>2
  <2>2. \A u \in Threads : pc[u] \in {"running", "missed", "hit"}
                             => pc'[u] \in {"running", "missed", "hit"}
    BY <1>1 DEF TypeOK
  <2> QED BY <1>1, <2>1, <2>2 DEF OwnInv
<1>9. ContextInv'
  <2>1. \A u, v : Good(u, v)' = Good(u, v)
    BY <1>1, GoodSame
  <2>2. \A u, q : Holds(u, q)' = Holds(u, q)
    BY <1>1 DEF Holds
  <2> QED BY <1>1, <2>1, <2>2 DEF ContextInv, Context, TypeOK
<1> QED BY <1>4, <1>5, <1>6, <1>7, <1>8, <1>9

LEMMA StoreInv == ASSUME Inv, NEW t \in Threads, Store(t) PROVE Inv'
<1> USE DEF Inv, caches
<1>1. /\ pc[t] = "missed" /\ pc' = [pc EXCEPT ![t] = "running"]
      /\ missed' = [missed EXCEPT ![t] = Null]
      /\ UNCHANGED <<caches, want, flushes, result, db, own>>
  BY DEF Store
<1>2. PICK q \in Query : missed[t] = q /\ t \in holders[q.cache]
  BY <1>1 DEF ContextInv, Context, Holds
<1>3. q.cache \in Caches /\ q.keys \in Tuples[q.cache] /\ RowOf(q) \in Rows
  BY <1>2, QueryIs, RowIs DEF RowOf
<1>4. PICK content \in Contents : content = Queried!View(t, RowOf(q))
  BY <1>3, ViewIs DEF RowOf
<1>5. PICK u : u = [query |-> q, value |-> [content |-> content, timeValid |-> timeNow[q.cache]]]
  OBVIOUS
<1>6. /\ page' = [page EXCEPT ![t] = @ \union {<<RowOf(q), content>>}]
      /\ cacheUpdate' = [cacheUpdate EXCEPT ![t] = Append(@, u)]
  BY <1>2, <1>4, <1>5 DEF Store, Stamp, RowOf
<1>7. u \in Update /\ Good(t, u)
  <2>1. timeNow[q.cache] \in Nat
    BY <1>3 DEF TypeOK
  <2> QED BY <1>2, <1>4, <1>5, <2>1 DEF Update, Value, Good, Holds, RowOf
<1>8. TypeOK'
  <2>1. <<RowOf(q), content>> \in Pairs
    BY <1>3 DEF Pairs
  <2>2. page' \in [Threads -> SUBSET Pairs]
    BY <1>6, <2>1 DEF TypeOK
  <2>3. cacheUpdate' \in [Threads -> Seq(Update)]
    BY <1>6, <1>7 DEF TypeOK
  <2> QED BY <1>1, <2>2, <2>3 DEF TypeOK
<1>9. LockInv'
  BY <1>1 DEF LockInv, TypeOK
<1>10. TreeInv' /\ TimeInv'
  BY <1>1 DEF TreeInv, TimeInv
<1>11. FreshInv'
  BY <1>1, FreshKept DEF FreshInv
<1>12. OwnInv'
  <2>1. ASSUME NEW s \in Threads, NEW c \in Caches, NEW ks \in Tuples[c], NEW v \in Contents,
               <<<<c, ks>>, v>> \in page'[s]
        PROVE  s \in holders[c]
    <3>1. CASE <<<<c, ks>>, v>> \in page[s]
      BY <3>1 DEF OwnInv
    <3>2. CASE <<<<c, ks>>, v>> \notin page[s]
      <4>1. s = t /\ <<<<c, ks>>, v>> = <<RowOf(q), content>>
        BY <1>6, <2>1, <3>2 DEF TypeOK
      <4> QED BY <1>2, <4>1 DEF RowOf
    <3> QED BY <3>1, <3>2
  <2>2. \A s \in Threads : pc[s] \in {"running", "missed", "hit"}
                             => pc'[s] \in {"running", "missed", "hit"}
    BY <1>1 DEF TypeOK
  <2> QED BY <1>1, <2>1, <2>2 DEF OwnInv
<1>13. ContextInv'
  <2>1. \A s, v : Good(s, v)' = Good(s, v)
    BY <1>1, GoodSame
  <2>2. \A s, p : Holds(s, p)' = Holds(s, p)
    BY <1>1 DEF Holds
  <2>3. ASSUME NEW s \in Threads, s # t PROVE Context(s)'
    BY <1>1, <1>6, <2>1, <2>2, <2>3 DEF Context, ContextInv, TypeOK
  <2>4. Context(t)'
    <3>1. pc'[t] = "running" /\ cacheUpdate[t] \in Seq(Update) /\ cacheUpdate'[t] = Append(cacheUpdate[t], u)
      BY <1>1, <1>6 DEF TypeOK
    <3>2. \A i \in 1..Len(cacheUpdate[t]) : \E v \in Update : cacheUpdate[t][i] = v /\ Good(t, v)
      BY DEF ContextInv, Context
    <3>3. \A i \in 1..Len(cacheUpdate'[t]) : \E v \in Update : cacheUpdate'[t][i] = v /\ Good(t, v)
      BY <1>7, <3>1, <3>2
    <3> QED BY <2>1, <3>1, <3>3 DEF Context
  <2> QED BY <2>3, <2>4 DEF ContextInv
<1> QED BY <1>8, <1>9, <1>10, <1>11, <1>12, <1>13

\* A row that a transaction has written is its own: it holds the lock for writing.
LEMMA Writing ==
  ASSUME TypeOK, LockInv, NEW t \in Threads, NEW c \in Caches, t \in holders[c], c \in flushes[t]
  PROVE  holders[c] = {t}
<1>1. writer[c]
  BY DEF LockInv
<1>2. PICK u \in Threads : holders[c] = {u}
  BY <1>1 DEF LockInv
<1> QED BY <1>2

LEMMA CommitInv == ASSUME Inv, NEW t \in Threads, Commit(t) PROVE Inv'
<1> USE DEF Inv, caches
<1>1. /\ pc[t] = "running" /\ pc' = [pc EXCEPT ![t] = "committed"]
      /\ db' = [r \in Rows |-> Queried!View(t, r)]
      /\ own' = [own EXCEPT ![t] = {}]
      /\ UNCHANGED <<caches, want, flushes, cacheUpdate, result, missed, page>>
  BY DEF Commit, Queried!Commit
<1>2. own'[t] = {} /\ \A s \in Threads \ {t} : own'[s] = own[s]
  BY <1>1 DEF TypeOK
<1>3. \A c \in Caches : \A ks \in Tuples[c] : db'[<<c, ks>>] = Queried!View(t, <<c, ks>>)
  BY <1>1, RowIs
<1>4. \A c \in Caches : \A ks \in Tuples[c] :
        (\A v \in Contents : <<<<c, ks>>, v>> \notin own[t]) => db'[<<c, ks>>] = db[<<c, ks>>]
  BY <1>3, ViewDb
<1>5. TypeOK'
  <2>1. \A r \in Rows : Queried!View(t, r) \in Contents
    <3> SUFFICES ASSUME NEW c \in Caches, NEW ks \in Tuples[c] PROVE Queried!View(t, <<c, ks>>) \in Contents
      BY DEF Rows
    <3> QED BY ViewIs
  <2>2. db' \in [Rows -> Contents]
    BY <1>1, <2>1
  <2> QED BY <1>1, <2>2 DEF TypeOK
<1>6. LockInv'
  BY <1>1 DEF LockInv, TypeOK
<1>7. TreeInv' /\ TimeInv'
  BY <1>1 DEF TreeInv, TimeInv
<1>8. FreshInv'
  <2>1. \A c \in Caches : \A ks \in Tuples[c] : Fresh(c, ks)' = Fresh(c, ks)
    BY <1>1, FreshKept
  <2>2. \A s \in Threads : own'[s] \subseteq own[s]
    BY <1>2
  <2> QED BY <1>1, <1>4, <2>1, <2>2 DEF FreshInv
<1>9. OwnInv'
  <2>1. \A s \in Threads \ {t} : pc'[s] = pc[s]
    BY <1>1 DEF TypeOK
  <2> QED BY <1>1, <1>2, <2>1 DEF OwnInv
<1>10. ContextInv'
  <2> SUFFICES ASSUME NEW s \in Threads PROVE Context(s)'
    BY DEF ContextInv
  <2>1. ASSUME NEW u \in Update, Good(s, u)
        PROVE  Queried!View(s, RowOf(u.query))' = Queried!View(s, RowOf(u.query))
    <3> DEFINE c == u.query.cache
               ks == u.query.keys
    <3>1. c \in Caches /\ ks \in Tuples[c] /\ s \in holders[c]
      BY <2>1, QueryIs DEF Good, Holds
    <3> HIDE DEF c, ks
    <3>2. CASE s = t
      <4>1. Queried!View(t, <<c, ks>>)' = db'[<<c, ks>>]
        BY <1>2 DEF Queried!View
      <4> QED BY <1>3, <3>1, <3>2, <4>1 DEF RowOf, c, ks
    <3>3. CASE s # t
      <4>1. \A v \in Contents : <<<<c, ks>>, v>> \notin own[t]
        BY <3>1, <3>3, Writing DEF OwnInv
      <4>2. db'[<<c, ks>>] = db[<<c, ks>>]
        BY <1>4, <3>1, <4>1
      <4>3. Queried!View(s, <<c, ks>>)' = Queried!View(s, <<c, ks>>)
        BY <1>2, <3>1, <3>3, <4>2, ViewKept
      <4> QED BY <4>3 DEF RowOf, c, ks
    <3> QED BY <3>2, <3>3
  <2>2. pc'[s] = pc[s] \/ pc'[s] \notin {"missed", "hit"}
    BY <1>1 DEF TypeOK
  <2> QED BY <1>1, <2>1, <2>2, ContextKept DEF ContextInv, RowOf
<1> QED BY <1>5, <1>6, <1>7, <1>8, <1>9, <1>10

LEMMA FreeUpdatesInv ==
  ASSUME Inv, NEW t \in Threads, FreeUpdates(t) PROVE Inv'
<1> USE DEF Inv
<1>1. /\ holders' = [c \in Caches |-> holders[c] \ {t}]
      /\ writer' = [c \in Caches |-> writer[c] /\ holders[c] # {t}]
      /\ want' = [want EXCEPT ![t] = <<>>]
      /\ flushes' = [flushes EXCEPT ![t] = {}]
      /\ cacheUpdate' = [cacheUpdate EXCEPT ![t] = <<>>]
      /\ result' = [result EXCEPT ![t] = Null]
      /\ missed' = [missed EXCEPT ![t] = Null]
      /\ pc' = [pc EXCEPT ![t] = "idle"]
      /\ own' = [own EXCEPT ![t] = {}] /\ page' = [page EXCEPT ![t] = {}]
      /\ UNCHANGED <<table, timeInvalid, timeNow, db>>
  BY DEF FreeUpdates, Queried!End, Queried!Finish
<1>2. \A s \in Threads \ {t} : /\ want'[s] = want[s] /\ flushes'[s] = flushes[s]
                               /\ cacheUpdate'[s] = cacheUpdate[s] /\ result'[s] = result[s]
                               /\ missed'[s] = missed[s] /\ pc'[s] = pc[s]
                               /\ own'[s] = own[s] /\ page'[s] = page[s]
  BY <1>1 DEF TypeOK
<1>3. /\ want'[t] = <<>> /\ cacheUpdate'[t] = <<>> /\ pc'[t] = "idle"
      /\ own'[t] = {} /\ page'[t] = {}
  BY <1>1 DEF TypeOK
<1>4. TypeOK'
  BY <1>1 DEF TypeOK
<1>5. LockInv'
  BY LocksFree DEF TypeOK, LockOK
<1>6. TreeInv' /\ TimeInv'
  BY <1>1 DEF TreeInv, TimeInv
<1>7. FreshInv'
  <2>1. \A c \in Caches : \A ks \in Tuples[c] : Fresh(c, ks)' = Fresh(c, ks)
    BY <1>1, FreshKept
  <2>2. \A s \in Threads : own'[s] \subseteq own[s]
    BY <1>2, <1>3
  <2> QED BY <1>1, <2>1, <2>2 DEF FreshInv
<1>8. \A c \in Caches : \A s \in Threads \ {t} : s \in holders[c] => s \in holders'[c]
  BY <1>1
<1>9. OwnInv'
  BY <1>2, <1>3, <1>8 DEF OwnInv
<1>10. ContextInv'
  <2> SUFFICES ASSUME NEW s \in Threads PROVE Context(s)'
    BY DEF ContextInv
  <2>1. CASE s = t
    BY <1>3, <2>1 DEF Context
  <2>2. CASE s # t
    <3>1. \A r : Queried!View(s, r)' = Queried!View(s, r)
      BY <1>1, <1>2, <2>2 DEF Queried!View
    <3> QED BY <1>2, <1>8, <2>2, <3>1, ContextKept DEF ContextInv
  <2> QED BY <2>1, <2>2
<1> QED BY <1>4, <1>5, <1>6, <1>7, <1>9, <1>10

-----------------------------------------------------------------------------
(* Flushes.                                                                 *)

\* The known keys lead to a place in the tree.
LEMMA KnownKey ==
  ASSUME NEW c \in Caches, NEW pat \in Patterns[c], Cardinality(Known(pat)) # 0
  PROVE  SubSeq(pat, 1, Cardinality(Known(pat))) \in TableKeys[c]
<1> DEFINE m == Cardinality(Known(pat))
           ks == [i \in 1..NumKeys[c] |-> IF i <= m THEN pat[i] ELSE pat[1]]
<1>1. /\ NumKeys[c] \in Nat /\ m \in 1..NumKeys[c] /\ \A i \in 1..m : pat[i] # Null
      /\ SubSeq(pat, 1, m) = [i \in 1..m |-> pat[i]]
  BY KnownIs, NumKeysIs
<1>2. pat \in [1..NumKeys[c] -> Keys \union {Null}]
  BY DEF Patterns
<1> HIDE DEF m
<1>3. \A i \in 1..m : pat[i] \in Keys
  BY <1>1, <1>2
<1>4. ks \in Tuples[c]
  BY <1>1, <1>3 DEF Tuples
<1>5. Len(ks) = NumKeys[c] /\ ks \in Seq(Keys)
  BY <1>4, TupleIs
<1>6. \A i \in 1..m : ks[i] = pat[i]
  BY <1>1
<1> HIDE DEF ks
<1>7. SubSeq(ks, 1, m) = SubSeq(pat, 1, m)
  BY <1>1, <1>5, <1>6
<1>8. SubSeq(ks, 1, m) \in Prefix[ks]
  <2>1. m \in (IF ks = <<>> THEN 0 ELSE 1)..Len(ks)
    BY <1>1, <1>5
  <2> QED BY <1>4, <2>1, PrefixIs
<1> QED BY <1>4, <1>7, <1>8, OwnPrefix DEF m

\* Lookups that still find something find what they found.
Kept ==
  \A c \in Caches : \A ks \in Tuples[c] :
    Fresh(c, ks)' => Fresh(c, ks) /\ table'[c][ks].value = table[c][ks].value

TableOK ==
  /\ table = [c \in Caches |-> table[c]]
  /\ \A c \in Caches : table[c] \in [TableKeys[c] -> Entry \cup {NoEntry}]

\* Times and one entry change: the entry is emptied, made older, or removed at its end.
LEMMA EntryChange ==
  ASSUME TypeOK, TreeInv, TimeInv, NEW c \in Caches, NEW k \in TableKeys[c], NEW e,
         table[c][k] # NoEntry,
         table' = [table EXCEPT ![c] = [@ EXCEPT ![k] = e]],
         timeInvalid' = timeInvalid, timeNow' \in [Caches -> Nat],
         \A d \in Caches : timeNow[d] <= timeNow'[d],
         \/ e = NoEntry /\ k \in Tuples[c]
         \/ /\ e \in Entry /\ e.timeInvalid <= timeNow'[c] /\ table[c][k].timeInvalid <= e.timeInvalid
            /\ e.value \in {Null, table[c][k].value}
  PROVE  TableOK' /\ TreeInv' /\ TimeInv' /\ Kept
<1>1. \A d \in Caches : d # c => table'[d] = table[d]
  BY DEF TypeOK
<1>2. table'[c] = [table[c] EXCEPT ![k] = e]
  BY DEF TypeOK
<1>3. \A j \in TableKeys[c] : j # k => table'[c][j] = table[c][j]
  BY <1>2, EntryIs DEF TypeOK
<1>4. table'[c][k] = e /\ table[c] \in [TableKeys[c] -> Entry \cup {NoEntry}]
  BY <1>2 DEF TypeOK
<1>5. table[c][k] \in Entry
  BY <1>4
<1>6. TableOK'
  <2>1. table'[c] \in [TableKeys[c] -> Entry \cup {NoEntry}]
    BY <1>2, <1>4
  <2>2. DOMAIN table' = Caches /\ table' = [d \in Caches |-> table'[d]]
    BY DEF TypeOK
  <2> QED BY <1>1, <2>1, <2>2 DEF TableOK, TypeOK
<1>7. TreeInv'
  <2> SUFFICES ASSUME NEW d \in Caches, NEW ks \in Tuples[d], table'[d][ks] # NoEntry,
                      NEW j \in Prefix[ks]
               PROVE  table'[d][j] # NoEntry
    BY DEF TreeInv
  <2>1. CASE d # c
    BY <1>1, <2>1 DEF TreeInv
  <2>2. CASE d = c
    <3>1. table[c][ks] # NoEntry
      BY <1>3, <2>2, OwnPrefix
    <3>2. table[c][j] # NoEntry /\ j \in TableKeys[c]
      BY <2>2, <3>1, OwnPrefix DEF TreeInv
    <3>3. CASE j # k
      BY <1>3, <2>2, <3>2, <3>3
    <3>4. CASE j = k /\ e # NoEntry
      BY <1>4, <2>2, <3>4
    <3>5. CASE j = k /\ e = NoEntry
      <4>1. j \in Tuples[c]
        BY <3>5, Records
      <4>2. j = ks
        BY <2>2, <4>1, LeafPrefix
      <4> QED BY <1>4, <2>2, <3>5, <4>2
    <3> QED BY <3>3, <3>4, <3>5
  <2> QED BY <2>1, <2>2
<1>8. TimeInv'
  <2> SUFFICES ASSUME NEW d \in Caches
               PROVE  /\ timeInvalid'[d] <= timeNow'[d]
                      /\ \A j \in TableKeys[d] : table'[d][j] # NoEntry =>
                           /\ table'[d][j].timeInvalid <= timeNow'[d]
                           /\ table'[d][j].value # Null => table'[d][j].value.timeValid < timeNow'[d]
    BY DEF TimeInv
  <2>1. /\ timeInvalid[d] \in Nat /\ timeNow[d] \in Nat /\ timeNow'[d] \in Nat
        /\ timeNow[d] <= timeNow'[d] /\ timeInvalid[d] <= timeNow[d]
    BY DEF TypeOK, TimeInv
  <2>2. ASSUME NEW j \in TableKeys[d], table[d][j] # NoEntry
        PROVE  /\ table[d][j].timeInvalid <= timeNow'[d]
               /\ table[d][j].value # Null => table[d][j].value.timeValid < timeNow'[d]
    <3>1. table[d][j] \in Entry
      BY <2>2, EntryIs
    <3>2. /\ table[d][j].timeInvalid \in Nat
          /\ table[d][j].value # Null => table[d][j].value.timeValid \in Nat
      BY <3>1 DEF Entry, Value
    <3>3. /\ table[d][j].timeInvalid <= timeNow[d]
          /\ table[d][j].value # Null => table[d][j].value.timeValid < timeNow[d]
      BY <2>2 DEF TimeInv
    <3> QED BY <2>1, <3>2, <3>3
  <2>3. ASSUME NEW j \in TableKeys[d], table'[d][j] # NoEntry
        PROVE  /\ table'[d][j].timeInvalid <= timeNow'[d]
               /\ table'[d][j].value # Null => table'[d][j].value.timeValid < timeNow'[d]
    <3>1. CASE d # c \/ j # k
      BY <1>1, <1>3, <2>2, <2>3, <3>1
    <3>2. CASE d = c /\ j = k
      BY <1>4, <2>2, <2>3, <3>2
    <3> QED BY <3>1, <3>2
  <2> QED BY <2>1, <2>3
<1>9. Kept
  <2> SUFFICES ASSUME NEW d \in Caches, NEW ks \in Tuples[d], Fresh(d, ks)'
               PROVE  Fresh(d, ks) /\ table'[d][ks].value = table[d][ks].value
    BY DEF Kept
  <2>1. CASE d # c
    BY <1>1, <2>1 DEF Fresh
  <2>2. CASE d = c
    <3>1. Prefix[ks] \subseteq TableKeys[c] /\ ks \in TableKeys[c] /\ ks \in Prefix[ks]
      BY <2>2, OwnPrefix
    <3>2. table'[c][ks].value # Null /\ \A j \in Prefix[ks] : table'[c][j] # NoEntry
      BY <2>2 DEF Fresh
    <3>3. ASSUME NEW j \in Prefix[ks]
          PROVE  /\ table[c][j] # NoEntry /\ table[c][j].timeInvalid \in Nat
                 /\ table'[c][j].timeInvalid \in Nat
                 /\ table[c][j].timeInvalid <= table'[c][j].timeInvalid
      <4>1. CASE j # k
        <5>1. table'[c][j] = table[c][j] /\ table[c][j] \in Entry
          BY <1>3, <3>1, <3>2, <4>1, EntryIs
        <5> QED BY <3>2, <5>1 DEF Entry
      <4>2. CASE j = k
        <5>1. e \in Entry /\ table[c][k].timeInvalid <= e.timeInvalid
          BY <1>4, <3>2, <4>2
        <5> QED BY <1>4, <1>5, <4>2, <5>1 DEF Entry
      <4> QED BY <4>1, <4>2
    <3>4. table'[c][ks].value = table[c][ks].value
      <4>1. CASE ks # k
        BY <1>3, <3>1, <4>1
      <4>2. CASE ks = k
        BY <1>4, <3>1, <3>2, <4>2
      <4> QED BY <4>1, <4>2
    <3>5. table[c][ks].value \in Value
      <4>1. table[c][ks] \in Entry
        BY <3>1, <3>3, EntryIs
      <4> QED BY <3>2, <3>4, <4>1 DEF Entry
    <3>6. /\ timeInvalid'[c] < table'[c][ks].value.timeValid
          /\ \A j \in Prefix[ks] : table'[c][j].timeInvalid < table'[c][ks].value.timeValid
      BY <2>2 DEF Fresh
    <3>7. table[c][ks].value.timeValid \in Nat
      BY <3>5 DEF Value
    <3>8. ASSUME NEW j \in Prefix[ks] PROVE table[c][j].timeInvalid < table[c][ks].value.timeValid
      BY <3>3, <3>4, <3>6, <3>7
    <3> QED BY <2>2, <3>2, <3>3, <3>4, <3>6, <3>8 DEF Fresh
  <2> QED BY <2>1, <2>2
<1> QED BY <1>6, <1>7, <1>8, <1>9

\* Only times change, and grow.
LEMMA TimesChange ==
  ASSUME TypeOK, TreeInv, TimeInv, table' = table,
         timeInvalid' \in [Caches -> Nat], timeNow' \in [Caches -> Nat],
         \A d \in Caches : /\ timeNow[d] <= timeNow'[d]
                           /\ timeInvalid[d] <= timeInvalid'[d] /\ timeInvalid'[d] <= timeNow'[d]
  PROVE  TableOK' /\ TreeInv' /\ TimeInv' /\ Kept
<1>1. TableOK'
  BY DEF TypeOK, TableOK
<1>2. TreeInv'
  BY DEF TreeInv
<1>3. ASSUME NEW d \in Caches, NEW j \in TableKeys[d], table[d][j] # NoEntry
      PROVE  /\ table[d][j].timeInvalid <= timeNow'[d]
             /\ table[d][j].value # Null => table[d][j].value.timeValid < timeNow'[d]
  <2>1. table[d][j] \in Entry
    BY <1>3, EntryIs
  <2>2. /\ table[d][j].timeInvalid \in Nat
        /\ table[d][j].value # Null => table[d][j].value.timeValid \in Nat
    BY <2>1 DEF Entry, Value
  <2>3. /\ table[d][j].timeInvalid <= timeNow[d]
        /\ table[d][j].value # Null => table[d][j].value.timeValid < timeNow[d]
    BY <1>3 DEF TimeInv
  <2>4. timeNow[d] \in Nat /\ timeNow'[d] \in Nat /\ timeNow[d] <= timeNow'[d]
    BY DEF TypeOK
  <2> QED BY <2>2, <2>3, <2>4
<1>4. TimeInv'
  BY <1>3 DEF TimeInv
<1>5. Kept
  <2> SUFFICES ASSUME NEW d \in Caches, NEW ks \in Tuples[d], Fresh(d, ks)' PROVE Fresh(d, ks)
    BY DEF Kept
  <2>1. /\ \A k \in Prefix[ks] : table[d][k] # NoEntry
        /\ table[d][ks].value # Null /\ timeInvalid'[d] < table[d][ks].value.timeValid
        /\ \A k \in Prefix[ks] : table[d][k].timeInvalid < table[d][ks].value.timeValid
    BY DEF Fresh
  <2>2. table[d][ks] \in Entry
    BY <2>1, OwnPrefix, EntryIs
  <2>3. table[d][ks].value.timeValid \in Nat /\ timeInvalid[d] \in Nat /\ timeInvalid'[d] \in Nat
    BY <2>1, <2>2 DEF Entry, Value, TypeOK
  <2>4. timeInvalid[d] < table[d][ks].value.timeValid
    BY <2>1, <2>3
  <2> QED BY <2>1, <2>4 DEF Fresh
<1> QED BY <1>1, <1>2, <1>4, <1>5

\* A flush invalidates every entry it is for, and revives none.
LEMMA FlushIs ==
  ASSUME TypeOK, TreeInv, TimeInv, NEW c \in Caches, NEW pat \in Patterns[c], Flush(c, pat)
  PROVE  /\ TableOK' /\ TreeInv' /\ TimeInv' /\ Kept
         /\ timeInvalid' \in [Caches -> Nat] /\ timeNow' \in [Caches -> Nat]
         /\ \A ks \in Tuples[c] : <<c, ks>> \in Matching(c, pat) => ~Fresh(c, ks)'
<1> DEFINE m == Cardinality(Known(pat))
           known == SubSeq(pat, 1, m)
<1>1. /\ m \in 0..NumKeys[c] /\ NumKeys[c] \in Nat /\ Len(pat) = NumKeys[c]
      /\ known = [i \in 1..m |-> pat[i]] /\ pat \in Seq(Keys \cup {Null})
      /\ pat \in [1..NumKeys[c] -> Keys \cup {Null}]
  BY KnownIs, NumKeysIs DEF Patterns
<1>2. Len(known) = m /\ (known = <<>> <=> m = 0)
  BY <1>1
<1>3. \A d \in Caches : /\ timeNow[d] \in Nat /\ timeInvalid[d] \in Nat
                        /\ timeInvalid[d] <= timeNow[d]
  BY DEF TypeOK, TimeInv
<1>4. \A ks \in Tuples[c] : <<c, ks>> \in Matching(c, pat) =>
        (m # 0 => known \in Prefix[ks]) /\ (m = NumKeys[c] => known = ks)
  BY MatchingIs
<1>5. m # 0 => known \in TableKeys[c]
  BY KnownKey
<1>6. CASE pat = <<>>
  <2>1. NumKeys[c] = 0 /\ pat \in Tuples[c] /\ \A ks \in Tuples[c] : ks = pat
    BY <1>1, <1>6 DEF Tuples
  <2>2. pat \in TableKeys[c] /\ pat \in Prefix[pat]
    BY <2>1, OwnPrefix
  <2>3. /\ table' = IF table[c][pat] = NoEntry THEN table
                    ELSE [table EXCEPT ![c][pat].value = Null]
        /\ UNCHANGED <<timeInvalid, timeNow>>
    BY <1>6 DEF Flush
  <2>4. /\ timeInvalid' \in [Caches -> Nat] /\ timeNow' \in [Caches -> Nat]
        /\ timeInvalid' = timeInvalid /\ timeNow' = timeNow
        /\ \A d \in Caches : timeNow[d] <= timeNow'[d]
        /\ \A d \in Caches : /\ timeNow[d] <= timeNow'[d]
                             /\ timeInvalid[d] <= timeInvalid'[d] /\ timeInvalid'[d] <= timeNow'[d]
    BY <1>3, <2>3 DEF TypeOK
  <2>5. CASE table[c][pat] = NoEntry
    <3>1. table' = table
      BY <2>3, <2>5
    <3>2. TableOK' /\ TreeInv' /\ TimeInv' /\ Kept
      BY <2>4, <3>1, TimesChange
    <3>3. ~Fresh(c, pat)'
      BY <2>2, <2>5, <3>1 DEF Fresh
    <3> QED BY <2>1, <2>4, <3>2, <3>3
  <2>6. CASE table[c][pat] # NoEntry
    <3>1. PICK e : e = [table[c][pat] EXCEPT !.value = Null]
      OBVIOUS
    <3>2. table' = [table EXCEPT ![c] = [@ EXCEPT ![pat] = e]]
      BY <2>3, <2>6, <3>1
    <3>3. table[c][pat] \in Entry
      BY <2>2, <2>6, EntryIs
    <3>4. e \in Entry /\ e.value = Null /\ e.timeInvalid = table[c][pat].timeInvalid
      BY <3>1, <3>3 DEF Entry
    <3>5. e.timeInvalid <= timeNow'[c] /\ table[c][pat].timeInvalid <= e.timeInvalid
      <4>1. table[c][pat].timeInvalid <= timeNow[c] /\ table[c][pat].timeInvalid \in Nat
        BY <2>2, <2>6, <3>3 DEF TimeInv, Entry
      <4> QED BY <2>4, <3>4, <4>1
    <3>6. TableOK' /\ TreeInv' /\ TimeInv' /\ Kept
      BY <2>2, <2>4, <2>6, <3>2, <3>4, <3>5, EntryChange
    <3>7. table'[c][pat].value = Null
      BY <2>2, <3>2, <3>4 DEF TypeOK
    <3>8. ~Fresh(c, pat)'
      BY <3>7 DEF Fresh
    <3> QED BY <2>1, <2>4, <3>6, <3>8
  <2> QED BY <2>5, <2>6
<1>7. CASE pat # <<>>
  <2>1. /\ timeNow' = [timeNow EXCEPT ![c] = @ + 1]
        /\ timeInvalid' = IF known = <<>> THEN [timeInvalid EXCEPT ![c] = timeNow[c]]
                          ELSE timeInvalid
        /\ table' = IF known = <<>> \/ table[c][known] = NoEntry THEN table
                    ELSE IF Len(known) = Len(pat) THEN [table EXCEPT ![c][known] = NoEntry]
                    ELSE [table EXCEPT ![c][known].timeInvalid = timeNow[c]]
    BY <1>7 DEF Flush
  <2> HIDE DEF known, m
  <2>2. /\ timeNow' \in [Caches -> Nat] /\ timeInvalid' \in [Caches -> Nat]
        /\ timeNow'[c] = timeNow[c] + 1
        /\ \A d \in Caches : timeNow[d] <= timeNow'[d]
    BY <1>3, <2>1 DEF TypeOK
  <2>3. CASE known = <<>>
    <3>1. table' = table /\ timeInvalid' = [timeInvalid EXCEPT ![c] = timeNow[c]]
      BY <2>1, <2>3
    <3>2. \A d \in Caches : timeInvalid[d] <= timeInvalid'[d] /\ timeInvalid'[d] <= timeNow'[d]
      <4>1. timeInvalid'[c] = timeNow[c] /\ timeNow'[c] = timeNow[c] + 1
        BY <2>1, <3>1 DEF TypeOK
      <4>2. \A d \in Caches : d # c => timeInvalid'[d] = timeInvalid[d] /\ timeNow'[d] = timeNow[d]
        BY <2>1, <3>1 DEF TypeOK
      <4> QED BY <1>3, <4>1, <4>2
    <3>3. TableOK' /\ TreeInv' /\ TimeInv' /\ Kept
      BY <2>2, <3>1, <3>2, TimesChange
    <3>4. ASSUME NEW ks \in Tuples[c], Fresh(c, ks)' PROVE FALSE
      <4>1. Fresh(c, ks) /\ ks \in TableKeys[c] /\ ks \in Prefix[ks]
        BY <3>3, <3>4, OwnPrefix DEF Kept
      <4>2. table[c][ks] # NoEntry /\ table[c][ks].value # Null
        BY <4>1 DEF Fresh
      <4>3. table[c][ks].value.timeValid < timeNow[c]
        BY <4>1, <4>2 DEF TimeInv
      <4>4. timeNow[c] < table[c][ks].value.timeValid
        BY <3>1, <3>4 DEF Fresh, TypeOK
      <4>5. table[c][ks].value.timeValid \in Nat
        BY <4>1, <4>2, EntryIs DEF Entry, Value
      <4> QED BY <1>3, <4>3, <4>4, <4>5
    <3> QED BY <2>2, <3>3, <3>4
  <2>4. CASE known # <<>> /\ table[c][known] = NoEntry
    <3>1. table' = table /\ timeInvalid' = timeInvalid
      BY <2>1, <2>4
    <3>2. \A d \in Caches : timeInvalid[d] <= timeInvalid'[d] /\ timeInvalid'[d] <= timeNow'[d]
      BY <1>3, <2>2, <3>1
    <3>3. TableOK' /\ TreeInv' /\ TimeInv' /\ Kept
      BY <2>2, <3>1, <3>2, TimesChange
    <3>4. ASSUME NEW ks \in Tuples[c], <<c, ks>> \in Matching(c, pat) PROVE ~Fresh(c, ks)'
      BY <1>2, <1>4, <2>4, <3>1, <3>4 DEF Fresh
    <3> QED BY <2>2, <3>3, <3>4
  <2>5. CASE known # <<>> /\ table[c][known] # NoEntry /\ Len(known) = Len(pat)
    <3>1. table' = [table EXCEPT ![c] = [@ EXCEPT ![known] = NoEntry]] /\ timeInvalid' = timeInvalid
      BY <2>1, <2>5
    <3>2. known = pat /\ \A i \in 1..m : pat[i] # Null
      BY <1>1, <1>2, <2>5, KnownIs DEF known, m
    <3>3. known \in Tuples[c]
      BY <1>1, <1>2, <2>5, <3>2 DEF Tuples
    <3>4. known \in TableKeys[c]
      BY <1>2, <1>5, <2>5
    <3>5. TableOK' /\ TreeInv' /\ TimeInv' /\ Kept
      BY <2>2, <2>5, <3>1, <3>3, <3>4, EntryChange
    <3>6. table'[c][known] = NoEntry
      BY <3>1, <3>4 DEF TypeOK
    <3>7. ASSUME NEW ks \in Tuples[c], <<c, ks>> \in Matching(c, pat) PROVE ~Fresh(c, ks)'
      BY <1>2, <1>4, <2>5, <3>6, <3>7 DEF Fresh
    <3> QED BY <2>2, <3>5, <3>7
  <2>6. CASE known # <<>> /\ table[c][known] # NoEntry /\ Len(known) # Len(pat)
    <3>1. PICK e : e = [table[c][known] EXCEPT !.timeInvalid = timeNow[c]]
      OBVIOUS
    <3>2. table' = [table EXCEPT ![c] = [@ EXCEPT ![known] = e]] /\ timeInvalid' = timeInvalid
      BY <2>1, <2>6, <3>1
    <3>3. known \in TableKeys[c]
      BY <1>2, <1>5, <2>6
    <3>4. table[c][known] \in Entry
      BY <2>6, <3>3, EntryIs
    <3>5. e \in Entry /\ e.value = table[c][known].value /\ e.timeInvalid = timeNow[c]
      BY <1>3, <3>1, <3>4 DEF Entry
    <3>6. table[c][known].timeInvalid <= timeNow[c] /\ timeNow[c] <= timeNow'[c]
      BY <2>2, <2>6, <3>3 DEF TimeInv
    <3>7. TableOK' /\ TreeInv' /\ TimeInv' /\ Kept
      BY <2>2, <2>6, <3>2, <3>3, <3>5, <3>6, EntryChange
    <3>8. ASSUME NEW ks \in Tuples[c], <<c, ks>> \in Matching(c, pat), Fresh(c, ks)' PROVE FALSE
      <4>1. known \in Prefix[ks] /\ ks \in TableKeys[c] /\ ks \in Prefix[ks]
        BY <1>2, <1>4, <2>6, <3>8, OwnPrefix
      <4>2. Fresh(c, ks) /\ table'[c][ks].value = table[c][ks].value
        BY <3>7, <3>8 DEF Kept
      <4>3. table[c][ks] # NoEntry /\ table[c][ks].value # Null
        BY <4>1, <4>2 DEF Fresh
      <4>4. table[c][ks].value.timeValid < timeNow[c] /\ table[c][ks].value.timeValid \in Nat
        BY <4>1, <4>3, EntryIs DEF TimeInv, Entry, Value
      <4>5. table'[c][known] = e
        BY <3>2, <3>3 DEF TypeOK
      <4>6. table'[c][known].timeInvalid < table'[c][ks].value.timeValid
        BY <3>8, <4>1 DEF Fresh
      <4> QED BY <1>3, <3>5, <4>2, <4>4, <4>5, <4>6
    <3> QED BY <2>2, <3>7, <3>8
  <2> QED BY <2>3, <2>4, <2>5, <2>6
<1> QED BY <1>6, <1>7

LEMMA DmlInv ==
  ASSUME Inv, ~ReadThenWrite, NEW t \in Threads, NEW c \in Caches, NEW pat \in Patterns[c],
         NEW content \in Contents, Dml(t, c, pat, content)
  PROVE  Inv'
<1> USE DEF Inv
<1>1. /\ pc[t] = "running" /\ t \in holders[c] /\ c \in flushes[t]
      /\ c \notin Waiting(t) /\ Flush(c, pat)
      /\ own' = [own EXCEPT ![t] = (@ \ (Matching(c, pat) \X Contents))
                                     \union (Matching(c, pat) \X {content})]
      /\ UNCHANGED <<holders, writer, thread, db, page>>
  BY DEF Dml
<1>2. /\ TableOK' /\ TreeInv' /\ TimeInv' /\ Kept
      /\ timeInvalid' \in [Caches -> Nat] /\ timeNow' \in [Caches -> Nat]
      /\ \A ks \in Tuples[c] : <<c, ks>> \in Matching(c, pat) => ~Fresh(c, ks)'
  BY <1>1, FlushIs
<1>3. \A s \in Threads \ {t} : own'[s] = own[s]
  BY <1>1 DEF TypeOK
<1>4. \A r, v : <<r, v>> \in own'[t] <=>
        \/ <<r, v>> \in own[t] /\ ~(r \in Matching(c, pat) /\ v \in Contents)
        \/ r \in Matching(c, pat) /\ v = content
  BY <1>1 DEF TypeOK
<1>5. \A d, ks : <<d, ks>> \in Matching(c, pat) => d = c /\ ks \in Tuples[c]
  BY DEF Matching
<1>6. holders[c] = {t}
  BY <1>1, Writing
<1>7. TypeOK'
  <2>1. Matching(c, pat) \subseteq Rows
    BY RowIs DEF Matching
  <2>2. own' \in [Threads -> SUBSET Pairs]
    BY <1>1, <2>1 DEF TypeOK, Pairs
  <2> QED BY <1>1, <1>2, <2>2 DEF TypeOK, TableOK, thread
<1>8. LockInv'
  BY <1>1 DEF LockInv, thread
<1>9. OwnInv'
  <2>1. ASSUME NEW s \in Threads, NEW d \in Caches, NEW ks \in Tuples[d], NEW v \in Contents,
               <<<<d, ks>>, v>> \in own'[s]
        PROVE  /\ s \in holders[d] /\ d \in flushes[s]
               /\ pc[s] \in {"running", "missed", "hit"}
               /\ \A w \in Contents : <<<<d, ks>>, w>> \in own'[s] => w = v
    <3>1. CASE s # t
      BY <1>3, <2>1, <3>1 DEF OwnInv
    <3>2. CASE s = t /\ <<d, ks>> \in Matching(c, pat)
      BY <1>1, <1>4, <1>5, <2>1, <3>2
    <3>3. CASE s = t /\ <<d, ks>> \notin Matching(c, pat)
      BY <1>4, <2>1, <3>3 DEF OwnInv
    <3> QED BY <3>1, <3>2, <3>3
  <2> QED BY <1>1, <2>1 DEF OwnInv, thread
<1>10. FreshInv'
  <2> SUFFICES ASSUME NEW d \in Caches, NEW ks \in Tuples[d], Fresh(d, ks)'
               PROVE  /\ table'[d][ks].value.content = db[<<d, ks>>]
                      /\ \A s \in Threads, v \in Contents : <<<<d, ks>>, v>> \notin own'[s]
    BY <1>1 DEF FreshInv
  <2>1. Fresh(d, ks) /\ table'[d][ks].value = table[d][ks].value
    BY <1>2 DEF Kept
  <2>2. <<d, ks>> \notin Matching(c, pat)
    BY <1>2, <1>5
  <2> QED BY <1>3, <1>4, <2>1, <2>2 DEF FreshInv
<1>11. ContextInv'
  <2> SUFFICES ASSUME NEW s \in Threads PROVE Context(s)'
    BY DEF ContextInv
  <2>1. \A r : s # t => Queried!View(s, r)' = Queried!View(s, r)
    BY <1>1, <1>3 DEF Queried!View
  <2>2. CASE s # t
    BY <1>1, <2>1, <2>2, ContextKept DEF ContextInv, thread
  <2>3. CASE s = t
    <3>1. ASSUME NEW i \in 1..Len(cacheUpdate[t])
          PROVE  \E u \in Update : cacheUpdate[t][i] = u /\ Good(t, u)'
      <4>1. PICK u \in Update : cacheUpdate[t][i] = u /\ Good(t, u)
        BY DEF ContextInv, Context
      <4>2. u.query.cache # c /\ u.query.cache \in Caches /\ u.query.keys \in Tuples[u.query.cache]
        BY <1>1, <4>1, QueryIs DEF Waiting
      <4>3. \A v \in Contents : <<RowOf(u.query), v>> \in own[t] <=> <<RowOf(u.query), v>> \in own'[t]
        BY <1>4, <1>5, <4>2 DEF RowOf
      <4>4. Queried!View(t, RowOf(u.query))' = Queried!View(t, RowOf(u.query))
        BY <1>1, <4>2, <4>3, ViewKept DEF RowOf
      <4>5. Good(t, u)'
        BY <1>1, <4>1, <4>4, GoodKept DEF RowOf
      <4> QED BY <4>1, <4>5
    <3> QED BY <1>1, <2>3, <3>1 DEF Context, thread
  <2> QED BY <2>2, <2>3
<1> QED BY <1>2, <1>7, <1>8, <1>9, <1>10, <1>11

-----------------------------------------------------------------------------
(* Late stores.                                                             *)

\* A store opens the way to its entry; no other entry becomes fresh by it.
LEMMA StoreOne ==
  ASSUME TypeOK, TreeInv, TimeInv, NEW c \in Caches, NEW ks \in Tuples[c], NEW value \in Value,
         StoreCommitOne(c, ks, value), UNCHANGED timeInvalid
  PROVE  /\ TableOK' /\ TreeInv' /\ TimeInv' /\ timeNow' \in [Caches -> Nat]
         /\ \A d \in Caches : \A ls \in Tuples[d] : Fresh(d, ls)' =>
              \/ Fresh(d, ls) /\ table'[d][ls].value = table[d][ls].value
              \/ d = c /\ ls = ks /\ table'[d][ls].value.content = value.content
<1> DEFINE path(k) == IF k \in Prefix[ks] /\ table[c][k] = NoEntry THEN NewEntry ELSE table[c][k]
           opened == [k \in TableKeys[c] |-> path(k)]
<1>1. PICK new : new = opened
  OBVIOUS
<1>2. PICK e : e = [new[ks] EXCEPT !.value = [value EXCEPT !.timeValid = timeNow[c]]]
  OBVIOUS
<1>3. \E last \in {new, [new EXCEPT ![ks] = e]} : table' = [table EXCEPT ![c] = last]
  <2>1. \/ table' = [table EXCEPT ![c] = [new EXCEPT ![ks] = e]]
        \/ table' = [table EXCEPT ![c] = new]
    BY <1>1, <1>2 DEF StoreCommitOne
  <2> QED BY <2>1
<1>4. PICK last \in {new, [new EXCEPT ![ks] = e]} : table' = [table EXCEPT ![c] = last]
  BY <1>3
<1>5. timeNow' = [timeNow EXCEPT ![c] = @ + 1]
  BY DEF StoreCommitOne
<1>6. /\ timeNow[c] \in Nat /\ timeNow' \in [Caches -> Nat] /\ timeNow'[c] = timeNow[c] + 1
      /\ \A d \in Caches : d # c => timeNow'[d] = timeNow[d]
  BY <1>5 DEF TypeOK
<1>7. ks \in Prefix[ks] /\ Prefix[ks] \subseteq TableKeys[c] /\ ks \in TableKeys[c]
  BY OwnPrefix
<1>8. \A k \in TableKeys[c] : new[k] = path(k)
  BY <1>1
<1>9. \A k \in TableKeys[c] : new[k] \in Entry \cup {NoEntry}
  BY <1>8, EntryIs, Records
<1>10. \A k \in Prefix[ks] : new[k] \in Entry /\ new[k] # NoEntry
  BY <1>7, <1>8, <1>9, Records
<1>11. /\ e \in Entry /\ e.timeInvalid = new[ks].timeInvalid
       /\ e.value \in Value /\ e.value.timeValid = timeNow[c] /\ e.value.content = value.content
  <2>1. [value EXCEPT !.timeValid = timeNow[c]] \in Value
    BY <1>6 DEF Value
  <2> QED BY <1>2, <1>7, <1>10, <2>1 DEF Entry, Value
<1>12. /\ new = [k \in TableKeys[c] |-> new[k]]
       /\ last = [k \in TableKeys[c] |-> last[k]]
       /\ \A k \in TableKeys[c] : k # ks => last[k] = new[k]
       /\ last[ks] = new[ks] \/ last[ks] = e
       /\ \A d \in Caches : d # c => table'[d] = table[d]
       /\ table'[c] = last
  <2>1. new = [k \in TableKeys[c] |-> new[k]]
    BY <1>1
  <2> HIDE DEF opened
  <2>2. DOMAIN table = Caches
    BY DEF TypeOK
  <2> QED BY <1>4, <1>7, <2>1, <2>2
<1> HIDE DEF opened
<1>13. \A k \in TableKeys[c] : last[k] \in Entry \cup {NoEntry}
  BY <1>9, <1>11, <1>12
<1>14. TableOK'
  <2>1. last \in [TableKeys[c] -> Entry \cup {NoEntry}]
    BY <1>12, <1>13
  <2>2. table' = [d \in Caches |-> table'[d]]
    BY <1>4 DEF TypeOK
  <2> QED BY <1>12, <2>1, <2>2 DEF TableOK, TypeOK
<1>15. ASSUME NEW ls \in Tuples[c], ls # ks, last[ls] # NoEntry
       PROVE  \A k \in Prefix[ls] : table[c][k] # NoEntry /\ last[k] = table[c][k]
  <2>1. ls \in TableKeys[c] /\ ls \notin Prefix[ks] /\ Prefix[ls] \subseteq TableKeys[c]
    BY <1>15, OwnPrefix, LeafPrefix
  <2>2. table[c][ls] # NoEntry
    BY <1>8, <1>12, <1>15, <2>1
  <2>3. \A k \in Prefix[ls] : table[c][k] # NoEntry
    BY <2>2 DEF TreeInv
  <2>4. ks \notin Prefix[ls]
    BY <1>15, LeafPrefix
  <2> QED BY <1>8, <1>12, <2>1, <2>3, <2>4
<1>16. TreeInv'
  <2> SUFFICES ASSUME NEW d \in Caches, NEW ls \in Tuples[d], table'[d][ls] # NoEntry,
                      NEW k \in Prefix[ls]
               PROVE  table'[d][k] # NoEntry
    BY DEF TreeInv
  <2>1. CASE d # c
    BY <1>12, <2>1 DEF TreeInv
  <2>2. CASE d = c /\ ls # ks
    BY <1>12, <1>15, <2>2
  <2>3. CASE d = c /\ ls = ks
    BY <1>7, <1>10, <1>11, <1>12, <2>3, Records
  <2> QED BY <2>1, <2>2, <2>3
<1>17. TimeInv'
  <2>1. timeInvalid[c] \in Nat /\ timeInvalid[c] <= timeNow[c]
    BY DEF TypeOK, TimeInv
  <2>2. ASSUME NEW k \in TableKeys[c], new[k] # NoEntry
        PROVE  /\ new[k].timeInvalid \in Nat /\ new[k].timeInvalid <= timeNow[c]
               /\ new[k].value # Null => new[k].value.timeValid < timeNow[c]
                                         /\ new[k].value.timeValid \in Nat
    <3>1. CASE new[k] = NewEntry
      BY <1>6, <3>1 DEF NewEntry
    <3>2. CASE new[k] # NewEntry
      <4>1. new[k] = table[c][k] /\ table[c][k] \in Entry
        BY <1>8, <2>2, <3>2, EntryIs
      <4>2. /\ table[c][k].timeInvalid <= timeNow[c]
            /\ table[c][k].value # Null => table[c][k].value.timeValid < timeNow[c]
        BY <2>2, <4>1 DEF TimeInv
      <4> QED BY <4>1, <4>2 DEF Entry, Value
    <3> QED BY <3>1, <3>2
  <2>3. ASSUME NEW k \in TableKeys[c], last[k] # NoEntry
        PROVE  /\ last[k].timeInvalid <= timeNow'[c]
               /\ last[k].value # Null => last[k].value.timeValid < timeNow'[c]
    <3>1. CASE last[k] = new[k]
      BY <1>6, <2>2, <2>3, <3>1
    <3>2. CASE k = ks /\ last[k] = e
      <4>1. e.timeInvalid \in Nat /\ e.timeInvalid <= timeNow[c]
        BY <1>7, <1>10, <1>11, <2>2
      <4> QED BY <1>6, <1>11, <3>2, <4>1
    <3> QED BY <1>12, <3>1, <3>2
  <2>4. timeInvalid'[c] <= timeNow'[c]
    BY <1>6, <2>1
  <2>5. \A d \in Caches : d # c => timeInvalid'[d] <= timeNow'[d]
    BY <1>6 DEF TimeInv
  <2>6. ASSUME NEW d \in Caches, NEW k \in TableKeys[d], table'[d][k] # NoEntry
        PROVE  /\ table'[d][k].timeInvalid <= timeNow'[d]
               /\ table'[d][k].value # Null => table'[d][k].value.timeValid < timeNow'[d]
    <3>1. CASE d = c
      BY <1>12, <2>3, <2>6, <3>1
    <3>2. CASE d # c
      BY <1>6, <1>12, <2>6, <3>2 DEF TimeInv
    <3> QED BY <3>1, <3>2
  <2> QED BY <2>4, <2>5, <2>6 DEF TimeInv
<1>18. ASSUME NEW d \in Caches, NEW ls \in Tuples[d], Fresh(d, ls)'
       PROVE  \/ Fresh(d, ls) /\ table'[d][ls].value = table[d][ls].value
              \/ d = c /\ ls = ks /\ table'[d][ls].value.content = value.content
  <2>1. CASE d # c
    BY <1>12, <1>18, <2>1 DEF Fresh
  <2>2. ls \in Prefix[ls]
    BY OwnPrefix
  <2>3. ASSUME d = c, \A k \in Prefix[ls] : last[k] = table[c][k]
        PROVE  Fresh(d, ls) /\ table'[d][ls].value = table[d][ls].value
    BY <1>12, <1>18, <2>2, <2>3 DEF Fresh
  <2>4. CASE d = c /\ ls # ks
    <3>1. last[ls] # NoEntry
      BY <1>12, <1>18, <2>2, <2>4 DEF Fresh
    <3> QED BY <1>15, <2>3, <2>4, <3>1
  <2>5. CASE d = c /\ ls = ks /\ last[ks] = e
    BY <1>11, <1>12, <2>5
  <2>6. CASE d = c /\ ls = ks /\ last[ks] = new[ks]
    <3>1. new[ks].value # Null
      BY <1>12, <1>18, <2>2, <2>6 DEF Fresh
    <3>2. table[c][ks] # NoEntry
      BY <1>7, <1>8, <3>1 DEF NewEntry
    <3>3. \A k \in Prefix[ks] : table[c][k] # NoEntry
      BY <3>2 DEF TreeInv
    <3>4. \A k \in Prefix[ks] : last[k] = table[c][k]
      BY <1>7, <1>8, <1>12, <2>6, <3>3
    <3> QED BY <2>3, <2>6, <3>4
  <2> QED BY <1>12, <2>1, <2>4, <2>5, <2>6
<1> QED BY <1>6, <1>14, <1>16, <1>17, <1>18

LEMMA StoreCommitInv == ASSUME Inv, NEW t \in Threads, StoreCommit(t) PROVE Inv'
<1> USE DEF Inv
<1>1. cacheUpdate[t] \in Seq(Update) /\ cacheUpdate[t] # <<>> /\ pc[t] = "committed"
  BY DEF StoreCommit, TypeOK
<1>2. /\ 1 \in 1..Len(cacheUpdate[t]) /\ Head(cacheUpdate[t]) = cacheUpdate[t][1]
      /\ Tail(cacheUpdate[t]) \in Seq(Update)
      /\ \A i \in 1..Len(Tail(cacheUpdate[t])) : /\ i + 1 \in 1..Len(cacheUpdate[t])
                                                 /\ Tail(cacheUpdate[t])[i] = cacheUpdate[t][i + 1]
  BY <1>1
<1>3. PICK u \in Update : Head(cacheUpdate[t]) = u /\ Good(t, u)
  BY <1>2 DEF ContextInv, Context
<1>4. PICK c \in Caches : c = u.query.cache
  BY <1>3, QueryIs
<1>5. PICK ks \in Tuples[c] : u.query.cache = c /\ u.query.keys = ks
  BY <1>3, <1>4, QueryIs
<1>6. PICK value \in Value : u.value = value
  BY <1>3, QueryIs
<1>7. /\ StoreCommitOne(c, ks, value)
      /\ cacheUpdate' = [cacheUpdate EXCEPT ![t] = Tail(@)]
      /\ UNCHANGED <<holders, writer, timeInvalid, pc, want, flushes, result, missed, data>>
  BY <1>3, <1>5, <1>6 DEF StoreCommit
<1>8. /\ TableOK' /\ TreeInv' /\ TimeInv' /\ timeNow' \in [Caches -> Nat]
      /\ \A d \in Caches : \A ls \in Tuples[d] : Fresh(d, ls)' =>
           \/ Fresh(d, ls) /\ table'[d][ls].value = table[d][ls].value
           \/ d = c /\ ls = ks /\ table'[d][ls].value.content = value.content
  BY <1>7, StoreOne
<1>9. t \in holders[c] /\ value.content = Queried!View(t, <<c, ks>>)
  BY <1>3, <1>5, <1>6 DEF Good, Holds
<1>10. \A s \in Threads, v \in Contents : <<<<c, ks>>, v>> \notin own[s]
  <2> SUFFICES ASSUME NEW s \in Threads, NEW v \in Contents, <<<<c, ks>>, v>> \in own[s] PROVE FALSE
    OBVIOUS
  <2>1. s \in holders[c] /\ c \in flushes[s] /\ pc[s] \in {"running", "missed", "hit"}
    BY DEF OwnInv
  <2>2. holders[c] = {s}
    BY <2>1, Writing
  <2> QED BY <1>1, <1>9, <2>1, <2>2
<1>11. value.content = db[<<c, ks>>]
  BY <1>9, <1>10, ViewDb
<1>12. TypeOK'
  <2>1. cacheUpdate' \in [Threads -> Seq(Update)]
    BY <1>2, <1>7 DEF TypeOK
  <2>2. /\ (holders \in [Caches -> SUBSET Threads])' /\ (writer \in [Caches -> BOOLEAN])'
        /\ (timeInvalid \in [Caches -> Nat])'
        /\ (pc \in [Threads -> {"idle", "locking", "running", "missed", "hit", "committed"}])'
        /\ (want \in [Threads -> Seq(Caches)])' /\ (flushes \in [Threads -> SUBSET Caches])'
        /\ (result \in [Threads -> Update \cup {Null}])' /\ (missed \in [Threads -> Query \cup {Null}])'
    BY <1>7 DEF TypeOK
  <2>3. /\ (db \in [Rows -> Contents])' /\ (own \in [Threads -> SUBSET Pairs])'
        /\ (page \in [Threads -> SUBSET Pairs])'
    BY <1>7 DEF TypeOK, data
  <2> QED BY <1>8, <2>1, <2>2, <2>3 DEF TypeOK, TableOK
<1>13. LockInv' /\ OwnInv'
  BY <1>7 DEF LockInv, OwnInv, data
<1>14. FreshInv'
  <2> SUFFICES ASSUME NEW d \in Caches, NEW ls \in Tuples[d], Fresh(d, ls)'
               PROVE  /\ table'[d][ls].value.content = db[<<d, ls>>]
                      /\ \A s \in Threads, v \in Contents : <<<<d, ls>>, v>> \notin own[s]
    BY <1>7 DEF FreshInv, data
  <2>1. CASE Fresh(d, ls) /\ table'[d][ls].value = table[d][ls].value
    BY <2>1 DEF FreshInv
  <2>2. CASE d = c /\ ls = ks /\ table'[d][ls].value.content = value.content
    BY <1>10, <1>11, <2>2
  <2> QED BY <1>8, <2>1, <2>2
<1>15. ContextInv'
  <2> SUFFICES ASSUME NEW s \in Threads PROVE Context(s)'
    BY DEF ContextInv
  <2>1. \A v : Good(s, v)' = Good(s, v)
    BY <1>7, GoodSame DEF data
  <2>2. \A q : Holds(s, q)' = Holds(s, q)
    BY <1>7 DEF Holds
  <2>3. CASE s # t
    <3>1. cacheUpdate'[s] = cacheUpdate[s]
      BY <1>7, <2>3 DEF TypeOK
    <3> QED BY <1>7, <2>1, <2>2, <3>1 DEF ContextInv, Context
  <2>4. CASE s = t
    <3>1. cacheUpdate'[t] = Tail(cacheUpdate[t])
      BY <1>7 DEF TypeOK
    <3>2. \A i \in 1..Len(cacheUpdate[t]) : \E v \in Update : cacheUpdate[t][i] = v /\ Good(t, v)
      BY DEF ContextInv, Context
    <3>3. \A i \in 1..Len(Tail(cacheUpdate[t])) :
            \E v \in Update : Tail(cacheUpdate[t])[i] = v /\ Good(t, v)
      BY <1>2, <3>2
    <3> QED BY <1>1, <1>7, <2>1, <2>4, <3>1, <3>3 DEF Context
  <2> QED BY <2>3, <2>4
<1> QED BY <1>8, <1>12, <1>13, <1>14, <1>15

-----------------------------------------------------------------------------
(* The theorems.                                                            *)

LEMMA StepInv == ASSUME Inv, ~ReadThenWrite, [Next]_vars PROVE Inv'
<1>1. ASSUME NEW t \in Threads, NEW c \in Caches, NEW ks \in Tuples[c], Check(t, c, ks) PROVE Inv'
  BY <1>1, CheckInv
<1>2. ASSUME NEW t \in Threads, NEW c \in Caches, NEW v \in Contents, NEW pat \in Patterns[c],
             Dml(t, c, pat, v)
      PROVE  Inv'
  BY <1>2, DmlInv
<1>3. ASSUME NEW t \in Threads,
             \/ Begin(t) \/ Lock(t) \/ CopyHit(t) \/ Store(t) \/ Commit(t) \/ StoreCommit(t)
             \/ Finish(t) \/ Abort(t)
      PROVE  Inv'
  BY <1>3, BeginInv, LockStepInv, CopyHitInv, StoreInv, CommitInv, StoreCommitInv, FreeUpdatesInv
     DEF Finish, Abort
<1>4. CASE UNCHANGED vars
  <2> USE DEF vars, caches, thread, data
  <2>1. UNCHANGED <<holders, writer, table, timeInvalid, timeNow, pc, want, flushes, cacheUpdate,
                    result, missed, db, own, page>>
    BY <1>4
  <2>2. TypeOK' /\ LockInv'
    BY <2>1 DEF Inv, TypeOK, LockInv
  <2>3. TreeInv' /\ TimeInv' /\ OwnInv'
    BY <2>1 DEF Inv, TreeInv, TimeInv, OwnInv
  <2>4. FreshInv'
    BY <2>1, FreshKept DEF Inv, FreshInv
  <2>5. ContextInv'
    BY <2>1, ContextSame DEF Inv
  <2> QED BY <2>2, <2>3, <2>4, <2>5 DEF Inv
<1> QED BY <1>1, <1>2, <1>3, <1>4 DEF Next

\* What the cache finds is committed and nobody is writing it, in every state.
THEOREM Invariant == ~ReadThenWrite => (Spec => []Inv)
<1> SUFFICES ASSUME ~ReadThenWrite PROVE Spec => []Inv
  OBVIOUS
<1>1. Inv /\ [Next]_vars => Inv'
  BY StepInv
<1> QED BY InitInv, <1>1, PTL DEF Spec

LEMMA CoherentIs == Inv => Coherent
<1> SUFFICES ASSUME Inv, NEW c \in Caches, NEW ks \in Tuples[c], Lookup(c, ks) # Null
             PROVE  Lookup(c, ks).content
                      = IF writer[c] THEN Queried!View(CHOOSE t \in holders[c] : TRUE, <<c, ks>>)
                        ELSE db[<<c, ks>>]
  BY DEF Coherent
<1> USE DEF Inv
<1>1. Fresh(c, ks) /\ Lookup(c, ks) = table[c][ks].value
  BY LookupIs
<1>2. /\ table[c][ks].value.content = db[<<c, ks>>]
      /\ \A t \in Threads, v \in Contents : <<<<c, ks>>, v>> \notin own[t]
  BY <1>1 DEF FreshInv
<1>3. CASE writer[c]
  <2>1. PICK t \in Threads : holders[c] = {t}
    BY <1>3 DEF LockInv
  <2>2. (CHOOSE u \in holders[c] : TRUE) = t
    BY <2>1
  <2>3. Queried!View(t, <<c, ks>>) = db[<<c, ks>>]
    BY <1>2, ViewDb
  <2> QED BY <1>1, <1>2, <1>3, <2>2, <2>3
<1> QED BY <1>1, <1>2, <1>3

\* A value a lookup would return is what the database holds for the transaction
\* that may read it, if handlers do not write what they have read and stored.
THEOREM CoherentCache == ~ReadThenWrite => (Spec => []Coherent)
BY Invariant, CoherentIs, PTL

\* A query answered from the page of the cache is answered as by the database.
LEMMA CopyHitReads ==
  ASSUME Inv, NEW t \in Threads, CopyHit(t) PROVE \E r \in Rows : Queried!Read(t, r)
<1>1. PICK u \in Update : result[t] = u /\ Good(t, u)
  BY DEF Inv, ContextInv, Context, CopyHit
<1>2. RowOf(u.query) \in Rows
  BY QueryIs, RowIs DEF RowOf
<1>3. /\ page' = [page EXCEPT ![t] = @ \union {<<RowOf(u.query), u.value.content>>}]
      /\ UNCHANGED <<db, own>>
  BY <1>1 DEF CopyHit, RowOf
<1>4. u.value.content = Queried!View(t, RowOf(u.query))
  BY <1>1 DEF Good, RowOf
<1>5. Queried!Read(t, RowOf(u.query))
  BY <1>3, <1>4 DEF Queried!Read
<1> QED BY <1>2, <1>5

LEMMA StoreReads ==
  ASSUME Inv, NEW t \in Threads, Store(t) PROVE \E r \in Rows : Queried!Read(t, r)
<1>1. PICK q \in Query : missed[t] = q
  BY DEF Inv, ContextInv, Context, Store
<1>2. RowOf(q) \in Rows
  BY QueryIs, RowIs DEF RowOf
<1>3. Queried!Read(t, RowOf(q))
  BY <1>1 DEF Store, Queried!Read, RowOf
<1> QED BY <1>2, <1>3

\* What another transaction has read is not written: it holds the lock.
LEMMA DmlWrites ==
  ASSUME Inv, NEW t \in Threads, NEW c \in Caches, NEW pat \in Patterns[c],
         NEW content \in Contents, Dml(t, c, pat, content)
  PROVE  \E rows \in SUBSET Rows : Queried!Write(t, rows, content)
<1>1. Matching(c, pat) \in SUBSET Rows
  BY RowIs DEF Matching
<1>2. holders[c] = {t}
  BY Writing DEF Inv, Dml
<1>3. ASSUME NEW u \in Threads \ {t}, NEW ks \in Tuples[c], NEW w \in Contents,
             <<<<c, ks>>, w>> \in page[u]
      PROVE  FALSE
  <2>1. u \in holders[c]
    BY <1>3 DEF Inv, OwnInv
  <2> QED BY <1>2, <2>1
<1>4. \A u \in Threads \ {t}, r \in Matching(c, pat), w \in Contents : <<r, w>> \notin page[u]
  BY <1>3 DEF Matching
<1>5. Queried!Write(t, Matching(c, pat), content)
  BY <1>4 DEF Queried!Write, Dml
<1> QED BY <1>1, <1>5

LEMMA StepQueried == ASSUME Inv, [Next]_vars PROVE [Queried!Next]_(Queried!vars)
<1> USE DEF caches, thread, data
<1>1. ASSUME NEW t \in Threads, CopyHit(t) \/ Store(t) PROVE Queried!Next
  BY <1>1, CopyHitReads, StoreReads DEF Queried!Next
<1>2. ASSUME NEW t \in Threads, NEW c \in Caches, NEW v \in Contents, NEW pat \in Patterns[c],
             Dml(t, c, pat, v)
      PROVE  Queried!Next
  BY <1>2, DmlWrites DEF Queried!Next
<1>3. ASSUME NEW t \in Threads, Commit(t) PROVE Queried!Next
  BY <1>3 DEF Queried!Next, Commit
<1>4. ASSUME NEW t \in Threads, Finish(t) \/ Abort(t) PROVE Queried!Next
  BY <1>4 DEF Queried!Next, Finish, Abort, FreeUpdates
<1>5. ASSUME NEW t \in Threads,
             \/ Begin(t) \/ Lock(t) \/ StoreCommit(t)
             \/ \E c \in Caches : \E ks \in Tuples[c] : Check(t, c, ks)
      PROVE  UNCHANGED Queried!vars
  BY <1>5 DEF Queried!vars, Begin, Lock, StoreCommit, Check
<1>6. CASE UNCHANGED vars
  BY <1>6 DEF vars, Queried!vars
<1> QED BY <1>1, <1>2, <1>3, <1>4, <1>5, <1>6 DEF Next

\* Transactions with the cache behave as transactions without one.
THEOREM Refinement == ~ReadThenWrite => (Spec => Invisible)
<1> SUFFICES ASSUME ~ReadThenWrite PROVE Spec => Invisible
  OBVIOUS
<1>1. Init => Queried!Init
  BY DEF Init
<1>2. Inv /\ [Next]_vars => [Queried!Next]_(Queried!vars)
  BY StepQueried
<1> QED BY Invariant, <1>1, <1>2, PTL DEF Spec, Invisible, Queried!Spec
=============================================================================
