------------------------------ MODULE Sqlcache ------------------------------
(***************************************************************************)
(* The cache of query results of the flag -sqlcache: uw_Sqlcache_* in      *)
(* src/urweb/src/c/urweb.c, the functions lru_cache.sml generates around   *)
(* them and the locks sqlcache.sml puts at the start of each handler.      *)
(* A transaction of a thread holds the outer lock of each cache it may     *)
(* touch until its end.  The inner lock makes each operation on one cache  *)
(* atomic: an operation is one action here.                                *)
(***************************************************************************)
EXTENDS Integers, Sequences, FiniteSets, FiniteSetsExt, SequencesExt

CONSTANTS
  Threads,
  Keys,           \* values of the parameters of cached queries
  NumKeys,        \* the caches, with the number of parameters of each
  Contents,       \* what the database may hold for a query
  ReadThenWrite,  \* a handler may write what it has read and not found cached
  MaxQueries,     \* bound: different results a transaction has on its page
  MaxTime         \* bound: timeNow of a cache

Caches == DOMAIN NumKeys

ASSUME CachesAssumption == NumKeys \in Seq(Nat)

ASSUME SqlcacheAssumption ==
  MaxTime \in Nat /\ MaxQueries \in Nat /\ ReadThenWrite \in BOOLEAN

VARIABLES
  holders,      \* per cache: threads that hold lockOut,
  writer,       \* ... and whether it is held for writing
  table,        \* per cache and key: the entry, or NoEntry
  timeInvalid, timeNow, \* per cache
  \* per thread: where it is, the locks still to take, those it may write under,
  \* the updates of its context, and the hit or miss it is working on
  pc, want, flushes, cacheUpdate, result, missed,
  db, own, page \* the database, and the queries' results as in Queries

caches == <<holders, writer, table, timeInvalid, timeNow>>
thread == <<pc, want, flushes, cacheUpdate, result, missed>>
data   == <<db, own, page>>
vars   == <<caches, thread, data>>

-----------------------------------------------------------------------------
\* The null pointer among keys and values.
Null == [null |-> TRUE]

Tuples == [c \in Caches |-> [1..NumKeys[c] -> Keys]]

\* The keys on the way to the entry of ks, "_k1", "_k1_k2", and so on.
Prefix == [ks \in UNION {Tuples[c] : c \in Caches} |->
             {SubSeq(ks, 1, n) : n \in (IF ks = <<>> THEN 0 ELSE 1)..Len(ks)}]

TableKeys == [c \in Caches |-> UNION {Prefix[ks] : ks \in Tuples[c]}]
\* What a flush is given: null stands for a key that is not known.
Patterns == [c \in Caches |-> [1..NumKeys[c] -> Keys \union {Null}]]
Rows == UNION {{c} \X Tuples[c] : c \in Caches}

Value    == [content : Contents, timeValid : Nat]
NoEntry  == [none |-> TRUE]
NewEntry == [value |-> Null, timeInvalid |-> 0]

Queried == INSTANCE Queries WITH Values <- Contents, Rows <- Rows,
                                 db <- db, own <- own, page <- page

Init ==
  /\ holders = [c \in Caches |-> {}]
  /\ writer = [c \in Caches |-> FALSE]
  /\ table = [c \in Caches |-> [k \in TableKeys[c] |-> NoEntry]]
  /\ timeInvalid = [c \in Caches |-> 0]
  /\ timeNow = [c \in Caches |-> 0]
  /\ pc = [t \in Threads |-> "idle"]
  /\ want = [t \in Threads |-> <<>>]
  /\ flushes = [t \in Threads |-> {}]
  /\ cacheUpdate = [t \in Threads |-> <<>>]
  /\ result = [t \in Threads |-> Null]
  /\ missed = [t \in Threads |-> Null]
  /\ Queried!Init

-----------------------------------------------------------------------------
(* The cache.                                                               *)

\* Mutant: only the entry itself is asked whether it was invalidated.
LookupLeaf(c, ks) ==
  LET path == {table[c][k] : k \in Prefix[ks]}
      value == table[c][ks].value
  IN IF NoEntry \in path \/ value = Null THEN Null
     ELSE IF Max({timeInvalid[c], table[c][ks].timeInvalid}) < value.timeValid THEN value ELSE Null

\* The value a lookup of ks finds, or Null.
Lookup(c, ks) ==
  LET path == {table[c][k] : k \in Prefix[ks]}
      invalid == Max({timeInvalid[c]} \union {e.timeInvalid : e \in path})
      value == table[c][ks].value
  IN IF NoEntry \in path \/ value = Null THEN Null
     ELSE IF invalid < value.timeValid THEN value ELSE Null

\* A pending update enters the table: its value is dropped if a later one is there.
StoreCommitOne(c, ks, value) ==
  LET new == [k \in TableKeys[c] |->
                IF k \in Prefix[ks] /\ table[c][k] = NoEntry THEN NewEntry ELSE table[c][k]]
      old == new[ks].value
  IN /\ timeNow' = [timeNow EXCEPT ![c] = @ + 1]
     /\ table' = [table EXCEPT ![c] =
          IF (IF old = Null THEN TRUE ELSE old.timeValid < value.timeValid)
          THEN [new EXCEPT ![ks].value = [value EXCEPT !.timeValid = timeNow[c]]]
          ELSE new]

\* The keys of a flush before the first null one.
Known(pat) == {n \in 1..Len(pat) : \A i \in 1..n : pat[i] # Null}

\* A flush of all keys from the first null one on.
Flush(c, pat) ==
  LET known == SubSeq(pat, 1, Cardinality(Known(pat)))
      all == Len(known) = Len(pat)
  IN IF pat = <<>>
     THEN /\ table' = IF table[c][pat] = NoEntry THEN table
                      ELSE [table EXCEPT ![c][pat].value = Null]
          /\ UNCHANGED <<timeInvalid, timeNow>>
     ELSE /\ timeNow' = [timeNow EXCEPT ![c] = @ + 1]
          /\ timeInvalid' = IF known = <<>> THEN [timeInvalid EXCEPT ![c] = timeNow[c]]
                            ELSE timeInvalid
          /\ table' = IF known = <<>> \/ table[c][known] = NoEntry THEN table
                      ELSE IF all THEN [table EXCEPT ![c][known] = NoEntry]
                      ELSE [table EXCEPT ![c][known].timeInvalid = timeNow[c]]

-----------------------------------------------------------------------------
(* A transaction of a handler.                                              *)

\* The members of a set of numbers, sorted.
Sorted(S) == CHOOSE s \in [1..Cardinality(S) -> S] :
               \A i, j \in 1..Cardinality(S) : i < j => s[i] < s[j]

\* Mutant: the locks are not sorted.
LockListKinds(fs, ss) == Sorted(fs) \o Sorted(ss)

\* The locks a handler takes, in the order it takes them: by the caches' numbers.
LockList(fs, ss) == Sorted(fs \union ss)

\* A handler that may flush the caches in fs and only stores in those of ss.
Begin(t) ==
  /\ pc[t] = "idle"
  /\ \E fs, ss \in SUBSET Caches :
       /\ fs \intersect ss = {} /\ fs \union ss # {}
       /\ want' = [want EXCEPT ![t] = LockList(fs, ss)]
       /\ flushes' = [flushes EXCEPT ![t] = fs]
  /\ pc' = [pc EXCEPT ![t] = "locking"]
  /\ UNCHANGED <<caches, cacheUpdate, result, missed, data>>

\* Mutant: all locks are shared.
LockFreeShared(t) == ~writer[Head(want[t])]

\* Whether thread t gets the next lock: a wlock when nobody holds it, an rlock
\* when nobody holds it for writing.
LockFree(t) == LET c == Head(want[t]) IN
  IF c \in flushes[t] THEN holders[c] = {} ELSE ~writer[c]

Lock(t) ==
  /\ pc[t] = "locking" /\ LockFree(t)
  /\ LET c == Head(want[t]) IN
       /\ holders' = [holders EXCEPT ![c] = @ \union {t}]
       /\ writer' = [writer EXCEPT ![c] = c \in flushes[t]]
  /\ want' = [want EXCEPT ![t] = Tail(@)]
  /\ pc' = [pc EXCEPT ![t] = IF Len(want[t]) = 1 THEN "running" ELSE @]
  /\ UNCHANGED <<table, timeInvalid, timeNow, flushes, cacheUpdate, result, missed, data>>

\* A query first looks into its cache.
Check(t, c, ks) ==
  /\ pc[t] = "running" /\ t \in holders[c]
  /\ Cardinality(page[t]) < MaxQueries
  /\ LET value == Lookup(c, ks)
         query == [cache |-> c, keys |-> ks]
     IN IF value = Null
        THEN /\ missed' = [missed EXCEPT ![t] = query]
             /\ pc' = [pc EXCEPT ![t] = "missed"]
             /\ UNCHANGED result
        ELSE /\ result' = [result EXCEPT ![t] = [query |-> query, value |-> value]]
             /\ pc' = [pc EXCEPT ![t] = "hit"]
             /\ UNCHANGED missed
  /\ UNCHANGED <<caches, want, flushes, cacheUpdate, data>>

\* After a hit the page is written from the strings of the value.
CopyHit(t) ==
  /\ pc[t] = "hit"
  /\ LET r == result[t] IN
       page' = [page EXCEPT ![t] =
                  @ \union {<<<<r.query.cache, r.query.keys>>, r.value.content>>}]
  /\ result' = [result EXCEPT ![t] = Null]
  /\ pc' = [pc EXCEPT ![t] = "running"]
  /\ UNCHANGED <<caches, want, flushes, cacheUpdate, missed, db, own>>

\* The time of a value that waits.
Stamp(c) == timeNow[c]

\* After a miss the database answers; the value waits for the COMMIT.
Store(t) ==
  /\ pc[t] = "missed"
  /\ LET m == missed[t]
         row == <<m.cache, m.keys>>
         content == Queried!View(t, row)
     IN /\ cacheUpdate' = [cacheUpdate EXCEPT ![t] = Append(@,
             [query |-> m, value |-> [content |-> content, timeValid |-> Stamp(m.cache)]])]
        /\ page' = [page EXCEPT ![t] = @ \union {<<row, content>>}]
  /\ missed' = [missed EXCEPT ![t] = Null]
  /\ pc' = [pc EXCEPT ![t] = "running"]
  /\ UNCHANGED <<caches, want, flushes, result, db, own>>

\* A query whose value waits already.
Waiting(t) == {cacheUpdate[t][i].query.cache : i \in 1..Len(cacheUpdate[t])}

Matching(c, pat) == {<<c, ks>> : ks \in {k \in Tuples[c] :
                                     \A i \in 1..Len(k) : pat[i] \in {k[i], Null}}}

\* A statement that changes rows is preceded by the flush of what it may change.
Dml(t, c, pat, content) ==
  /\ pc[t] = "running" /\ t \in holders[c] /\ c \in flushes[t]
  /\ timeNow[c] < MaxTime
  /\ ReadThenWrite \/ c \notin Waiting(t)
  /\ Flush(c, pat)
  /\ own' = [own EXCEPT ![t] = (@ \ (Matching(c, pat) \X Contents))
                                 \union (Matching(c, pat) \X {content})]
  /\ UNCHANGED <<holders, writer, thread, db, page>>

Commit(t) ==
  /\ pc[t] = "running"
  /\ Queried!Commit(t)
  /\ pc' = [pc EXCEPT ![t] = "committed"]
  /\ UNCHANGED <<caches, want, flushes, cacheUpdate, result, missed>>

\* After COMMIT, uw_Sqlcache_commit stores the waiting values, one by one.
StoreCommit(t) ==
  /\ pc[t] = "committed" /\ cacheUpdate[t] # <<>>
  /\ LET u == Head(cacheUpdate[t]) IN
       /\ timeNow[u.query.cache] < MaxTime
       /\ StoreCommitOne(u.query.cache, u.query.keys, u.value)
  /\ cacheUpdate' = [cacheUpdate EXCEPT ![t] = Tail(@)]
  /\ UNCHANGED <<holders, writer, timeInvalid, pc, want, flushes, result, missed, data>>

\* The locks are given back and what still waits is forgotten.
FreeUpdates(t) ==
  /\ holders' = [c \in Caches |-> holders[c] \ {t}]
  /\ writer' = [c \in Caches |-> writer[c] /\ holders[c] # {t}]
  /\ want' = [want EXCEPT ![t] = <<>>]
  /\ flushes' = [flushes EXCEPT ![t] = {}]
  /\ cacheUpdate' = [cacheUpdate EXCEPT ![t] = <<>>]
  /\ result' = [result EXCEPT ![t] = Null]
  /\ missed' = [missed EXCEPT ![t] = Null]
  /\ pc' = [pc EXCEPT ![t] = "idle"]
  /\ Queried!End(t)
  /\ UNCHANGED <<table, timeInvalid, timeNow>>

Finish(t) == pc[t] = "committed" /\ cacheUpdate[t] = <<>> /\ FreeUpdates(t)

\* An error anywhere before COMMIT: flushes stay, nothing is stored.
Abort(t) == pc[t] \in {"running", "missed", "hit"} /\ FreeUpdates(t)

Next == \E t \in Threads :
  \/ Begin(t) \/ Lock(t)
  \/ \E c \in Caches : \E ks \in Tuples[c] : Check(t, c, ks)
  \/ CopyHit(t) \/ Store(t)
  \/ \E c \in Caches, v \in Contents :
       \E pat \in Patterns[c] : Dml(t, c, pat, v)
  \/ Commit(t) \/ StoreCommit(t) \/ Finish(t) \/ Abort(t)

Spec == Init /\ [][Next]_vars
-----------------------------------------------------------------------------
(* Properties.                                                              *)

\* Nobody notices the cache: with it, the transactions behave as in Queries.
Invisible == Queried!Spec

\* A value that a lookup would return is what the database holds, in the eyes of
\* the transaction that is writing this cache, if there is one: whatever flushes,
\* late stores and aborted writers came before.
Coherent ==
  \A c \in Caches : \A ks \in Tuples[c] :
    LET value == Lookup(c, ks) IN
    value # Null =>
      value.content = IF writer[c] THEN Queried!View(CHOOSE t \in holders[c] : TRUE, <<c, ks>>)
                      ELSE db[<<c, ks>>]

\* Transactions that hold outer locks until their end never all wait for each other.
NoLockCycle == (\E t \in Threads : pc[t] = "locking") =>
  \E t \in Threads : pc[t] # "idle" /\ (pc[t] = "locking" => LockFree(t))

\* What uw_Sqlcache_check says of the value it returns outside of the lock: it is
\* not freed before the page is written from it.
ValueNotFreed == \A t \in Threads : pc[t] = "hit" =>
  LET r == result[t] IN
  /\ table[r.query.cache][r.query.keys] # NoEntry
  /\ table[r.query.cache][r.query.keys].value = r.value
=============================================================================
