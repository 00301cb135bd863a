-------------------------- MODULE MessagingProofs --------------------------
(***************************************************************************)
(* Theorems about Messaging, for every value of its constants: the counts  *)
(* and locks, the channels, which belong to the page views that created    *)
(* them although their clients' ids are used again, and the messages.      *)
(***************************************************************************)
EXTENDS Messaging, FiniteSetTheorems, TLAPS

\* A counter of wrap values stays in its range.
LEMMA ModInRange == ASSUME NEW n \in Nat, NEW k \in Nat \ {0} PROVE n % k \in 0..(k - 1)
  OBVIOUS

LEMMA DecInRange ==
  ASSUME NEW k \in Nat \ {0}, NEW n \in 0..(k - 1) PROVE Dec(n, k) \in 0..(k - 1)
  BY DEF Dec

LEMMA ReaderWrapPositive == ReaderWrap \in Nat \ {0}
<1>1. Cardinality(Workers) \in Nat
  BY ThreadsAssumption, FS_CardinalityType
<1> QED BY <1>1, WidthAssumption

LEMMA IncInRange ==
  ASSUME NEW k \in Nat \ {0}, NEW n \in 0..(k - 1) PROVE (n + 1) % k \in 0..(k - 1)
<1>1. n + 1 \in Nat
  OBVIOUS
<1> QED BY <1>1, ModInRange

\* A queued delta keeps its shape when a channel is added to the queue.
LEMMA AddToDeltasType ==
  ASSUME NEW ds \in Seq(Delta), NEW ch \in Channel
  PROVE  AddToDeltas(ds, ch) \in Seq(Delta)
<1>1. ch.cli \in Slots
  BY DEF Channel
<1>2. CASE \E i \in DOMAIN ds : ds[i].client = ch.cli
  <2> DEFINE d(i) == IF ds[i].client = ch.cli
                     THEN [ds[i] EXCEPT !.msgs = Append(ds[i].msgs, ch)] ELSE ds[i]
  <2>1. ASSUME NEW i \in 1..Len(ds) PROVE d(i) \in Delta
    <3>1. ds[i] \in Delta
      OBVIOUS
    <3>2. Append(ds[i].msgs, ch) \in Seq(Channel)
      BY <3>1 DEF Delta
    <3> QED BY <3>1, <3>2 DEF Delta
  <2>2. [i \in 1..Len(ds) |-> d(i)] \in Seq(Delta)
    BY <2>1
  <2>3. DOMAIN ds = 1..Len(ds)
    OBVIOUS
  <2>4. AddToDeltas(ds, ch) = [i \in 1..Len(ds) |-> d(i)]
    BY <1>2, <2>3, Zenon DEF AddToDeltas
  <2> QED BY <2>2, <2>4, Zenon
<1>3. CASE ~\E i \in DOMAIN ds : ds[i].client = ch.cli
  <2>1. [client |-> ch.cli, msgs |-> <<ch>>] \in Delta
    BY <1>1 DEF Delta
  <2> QED BY <1>3, <2>1 DEF AddToDeltas
<1> QED BY <1>2, <1>3

LEMMA StampedType ==
  ASSUME NEW chans \in Seq(Channel), NEW n \in Nat
  PROVE  Stamped(chans, n) \in Seq(Message)
<1>1. \A i \in 1..Len(chans) :
        [chan |-> chans[i], txn |-> n, pos |-> i] \in Message
  BY DEF Message
<1> QED BY <1>1 DEF Stamped

\* TypeOK is inductive.  One lemma for each group of actions; ControlOK is what
\* the types of a step need to know about the thread that takes it.
LEMMA TypeInit == Init => TypeOK
<1> SUFFICES ASSUME Init PROVE TypeOK
  OBVIOUS
<1>1. ClientTypes
  BY WidthAssumption DEF Init, ClientTypes
<1>2. LockTypes
  <2>1. 0 \in 0..(ReaderWrap - 1)
    BY ReaderWrapPositive
  <2> QED BY <2>1, Zenon DEF Init, LockTypes
<1>3. ThreadTypes
  BY DEF Init, ThreadTypes, WorkerLabels, PrunerLabels
<1>4. OtherTypes
  BY DEF Init, OtherTypes
<1>5. ControlOK
  BY ThreadsAssumption DEF Init, ControlOK, Threads, WorkerLabels, PrunerLabels
<1> QED BY <1>1, <1>2, <1>3, <1>4, <1>5 DEF TypeOK, TypesOK

LEMMA TypeServer == ASSUME TypeOK, Initialize \/ Crash PROVE TypesOK'
<1> USE DEF TypeOK, TypesOK, ClientTypes, LockTypes, ThreadTypes, OtherTypes,
            WorkerLabels, PrunerLabels
<1> USE DEF Threads, Goto, memory, clientVars, pollVars, useVars,
            tableVars, locks, threadVars, contextVars, requestVars, pruneVars, world,
            pageVars, bounds
<1>1. CASE Initialize
  BY <1>1 DEF Initialize, InitialRows
<1>2. CASE Crash
  <2>1. ClientTypes'
    BY <1>2, WidthAssumption DEF Crash
  <2>2. LockTypes'
    <3>1. 0 \in 0..(ReaderWrap - 1)
      BY ReaderWrapPositive
    <3> QED BY <1>2, <3>1, Zenon DEF Crash
  <2>3. ThreadTypes'
    BY <1>2 DEF Crash
  <2>4. OtherTypes'
    BY <1>2 DEF Crash
  <2> QED BY <2>1, <2>2, <2>3, <2>4
<1> QED BY <1>1, <1>2

LEMMA TypeLogin ==
  ASSUME TypeOK, NEW w \in Workers, Request(w) \/ ArriveAgain(w) \/ Login(w)
  PROVE  TypesOK'
<1> USE DEF TypeOK, TypesOK, ClientTypes, LockTypes, ThreadTypes, OtherTypes,
            WorkerLabels, PrunerLabels
<1> USE DEF Threads, Goto, memory, clientVars, pollVars, useVars,
            tableVars, locks, threadVars, contextVars, requestVars, pruneVars, world,
            pageVars, bounds
<1>1. (readers + 1) % ReaderWrap \in 0..(ReaderWrap - 1)
  BY IncInRange, ReaderWrapPositive
<1>2. CASE Request(w)
  BY <1>1, <1>2, ZenonT(40) DEF Request
<1>3. CASE ArriveAgain(w)
  BY <1>1, <1>3 DEF ArriveAgain
<1>4. CASE SkipLogin(w)
  BY <1>4 DEF SkipLogin
<1>5. CASE RefuseLogin(w)
  BY <1>5 DEF RefuseLogin, Refused
<1>6. ASSUME NEW s \in Slots, NEW p \in Pages, NewClient(w, s, p)
      PROVE  TypesOK'
  <2>1. 1 % RefWrap \in 0..(RefWrap - 1)
    BY ModInRange, WidthAssumption
  <2>2. ClientTypes'
    BY <1>6, <2>1, SMTT(30) DEF NewClient
  <2>3. LockTypes'
    BY <1>6 DEF NewClient
  <2>4. ThreadTypes'
    BY <1>6 DEF NewClient
  <2>5. OtherTypes'
    BY <1>6 DEF NewClient
  <2> QED BY <2>2, <2>3, <2>4, <2>5
<1>7. CASE FindClient(w)
  <2> DEFINE s == at[view[w]]
  <2>1. s \in Slots
    BY <1>7 DEF FindClient
  <2>2. (refcount[s] + 1) % RefWrap \in 0..(RefWrap - 1)
    BY IncInRange, WidthAssumption, <2>1
  <2> QED BY <1>7, <2>1, <2>2 DEF FindClient
<1> QED BY <1>2, <1>3, <1>4, <1>5, <1>6, <1>7 DEF Login

\* The steps that uw_commit takes for a worker and for the pruner alike.
LEMMA TypeCommit ==
  ASSUME TypeOK, NEW t \in Threads, StartCommit(t) \/ Deliver(t) \/ FinishDelivery(t)
  PROVE  TypesOK'
<1> USE DEF TypeOK, TypesOK, ClientTypes, LockTypes, ThreadTypes, OtherTypes,
            WorkerLabels, PrunerLabels
<1> USE DEF Threads, Goto, memory, clientVars, pollVars, useVars,
            tableVars, locks, threadVars, contextVars, requestVars, pruneVars, world,
            pageVars, bounds
<1>1. CASE StartCommit(t)
  BY <1>1 DEF StartCommit, Lock
<1>2. CASE Deliver(t)
  <2> DEFINE d == Head(outbox[t])
             block == Stamped(d.msgs, stamp[t])
  <2>1. outbox[t] \in Seq(Delta) /\ outbox[t] # <<>>
    BY <1>2 DEF Deliver
  <2>2. d \in Delta /\ Tail(outbox[t]) \in Seq(Delta)
    BY <2>1
  <2>3. d.client \in Slots /\ block \in Seq(Message)
    BY <2>2, StampedType DEF Delta
  <2>4. ClientSend(d.client, block)
    BY <1>2 DEF Deliver
  <2>5. outbox' = [outbox EXCEPT ![t] = Tail(outbox[t])]
    BY <1>2 DEF Deliver
  <2> HIDE DEF d, block
  <2>6. sock' \in [Slots -> Pages \cup {None}]
    BY <2>3, <2>4 DEF ClientSend
  <2>7. msgs' \in [Slots -> Seq(Message)]
    <3>1. msgs[d.client] \o block \in Seq(Message)
      BY <2>3
    <3> QED BY <2>3, <2>4, <3>1, ZenonT(40) DEF ClientSend
  <2>8. got' \in [Pages -> Seq(Message)] /\ listening' \in SUBSET Pages
    <3>1. \A p \in Pages : got[p] \o block \in Seq(Message)
      BY <2>3
    <3>2. sock[d.client] \in Pages \cup {None}
      BY <2>3
    <3> QED BY <2>4, <3>1, <3>2, ZenonT(40) DEF ClientSend, Hearing
  <2>9. outbox' \in [Threads -> Seq(Delta)]
    BY <2>2, <2>5
  <2> QED BY <1>2, <2>6, <2>7, <2>8, <2>9 DEF Deliver
<1>3. CASE FinishDelivery(t)
  BY <1>3 DEF FinishDelivery, AfterTransaction
<1> QED BY <1>1, <1>2, <1>3

LEMMA TypeTransaction ==
  ASSUME TypeOK, NEW w \in Workers,
         Pull(w) \/ Handle(w) \/ EndCommit(w) \/ Leaving(w)
  PROVE  TypesOK'
<1> USE DEF TypeOK, TypesOK, ClientTypes, LockTypes, ThreadTypes, OtherTypes,
            WorkerLabels, PrunerLabels
<1> USE DEF Threads, Goto, memory, clientVars, pollVars, useVars,
            tableVars, locks, threadVars, contextVars, requestVars, pruneVars, world,
            pageVars, bounds
<1>1. CASE Pull(w)
  <2>1. pullLock' \in [Slots -> Workers \cup {None}]
    BY <1>1 DEF Pull
  <2>2. pc' \in [Threads -> WorkerLabels \cup PrunerLabels]
    <3>1. pc' = [pc EXCEPT ![w] = "handler"] \/ pc' = [pc EXCEPT ![w] = "release"]
      BY <1>1, Zenon DEF Pull
    <3> QED BY <3>1
  <2>3. fate' \in [Workers -> {"served", "failed", "retry", "onError", "commitError"}]
    <3>1. \/ UNCHANGED fate
          \/ \E f \in {"failed", "onError"} : fate' = [fate EXCEPT ![w] = f]
      BY <1>1, Zenon DEF Pull, Refused
    <3> QED BY <3>1
  <2> QED BY <1>1, <2>1, <2>2, <2>3 DEF Pull
<1>2. CASE NewChannel(w)
  <2> DEFINE s == slot[w]
             ch == [cli |-> s, chn |-> nChannels[s], own |-> view[w]]
  <2>1. s \in Slots
    BY <1>2 DEF NewChannel
  <2>2. view[w] \in Pages
    BY <2>1, ThreadsAssumption DEF ControlOK
  <2>3. ch \in Channel
    BY <2>1, <2>2 DEF Channel
  <2>4. inserts' \in [Workers -> SUBSET Channel]
    BY <1>2, <2>3 DEF NewChannel
  <2>5. nChannels' \in [Slots -> Nat]
    BY <1>2, <2>1 DEF NewChannel
  <2> QED BY <1>2, <2>4, <2>5 DEF NewChannel
<1>3. ASSUME NEW ch \in rows \cup inserts[w], Send(w, ch) PROVE TypesOK'
  <2>1. AddToDeltas(outbox[w], ch) \in Seq(Delta)
    BY <1>3, AddToDeltasType
  <2> QED BY <1>3, <2>1 DEF Send
<1>4. ASSUME NEW f \in Failure(w), HandlerFails(w, f) PROVE TypesOK'
  BY <1>4 DEF HandlerFails, Failure, AfterTransaction
<1>5. CASE Commit(w)
  <2>1. commits' \in Nat /\ stamp' \in [Threads -> Nat]
    <3>1. CASE outbox[w] = <<>>
      BY <1>5, <3>1 DEF Commit, TakePlace
    <3>2. CASE outbox[w] # <<>>
      <4>1. commits' = commits + 1 /\ stamp' = [stamp EXCEPT ![w] = commits + 1]
        BY <1>5, <3>2, Zenon DEF Commit, TakePlace
      <4> QED BY <4>1
    <3> QED BY <3>1, <3>2
  <2> QED BY <1>5, <2>1 DEF Commit, Holder
<1>6. CASE CommitFails(w)
  <2>1. msgMutex' \in Threads \cup {None}
    BY <1>6 DEF CommitFails, Unlock
  <2>2. rows' \in SUBSET Channel
    BY <1>6 DEF CommitFails
  <2>3. outbox' \in [Threads -> Seq(Delta)]
    BY <1>6 DEF CommitFails
  <2> QED BY <1>6, <2>1, <2>2, <2>3 DEF CommitFails, AfterTransaction
<1>7. CASE Release(w)
  <2> DEFINE s == slot[w]
  <2>1. s \in Slots
    BY <1>7 DEF Release, ControlOK
  <2>2. Dec(refcount[s], RefWrap) \in 0..(RefWrap - 1)
    BY <2>1, DecInRange, WidthAssumption
  <2> QED BY <1>7, <2>1, <2>2 DEF Release
<1>8. CASE Depart(w)
  <2>1. readers' \in 0..(ReaderWrap - 1)
    BY <1>8, DecInRange, ReaderWrapPositive DEF Depart, Departs
  <2>2. tab' \in [Pages -> {"unborn", "loading", "aborted", "open", "gone"}]
    BY <1>8 DEF Depart, Respond
  <2>3. ThreadTypes'
    <3>1. pc' \in [Threads -> WorkerLabels \cup PrunerLabels]
      <4>1. \E l \in {"idle", "arrive", "rollback"} : pc' = [pc EXCEPT ![w] = l]
        <5> HIDE DEF TypeOK
        <5>1. CASE fate[w] = "onError"
          BY <1>8, <5>1, Zenon DEF Depart
        <5>2. CASE fate[w] # "onError"
          BY <1>8, <5>2, Zenon DEF Depart
        <5> QED BY <5>1, <5>2
      <4> QED BY <4>1
    <3>2. kind' \in [Workers -> {"page", "rpc", "plain", "error"}]
      BY <1>8 DEF Depart
    <3>3. view' \in [Workers -> Pages \cup {None}]
      BY <1>8 DEF Depart
    <3>4. fate' \in [Workers -> {"served", "failed", "retry", "onError", "commitError"}]
      BY <1>8 DEF Depart
    <3> QED BY <1>8, <3>1, <3>2, <3>3, <3>4 DEF Depart
  <2> QED BY <1>8, <2>1, <2>2, <2>3 DEF Depart
<1>9. CASE DepartAgain(w)
  <2>1. readers' \in 0..(ReaderWrap - 1)
    BY <1>9, DecInRange, ReaderWrapPositive DEF DepartAgain, Departs
  <2> QED BY <1>9, <2>1 DEF DepartAgain
<1> QED BY <1>1, <1>2, <1>3, <1>4, <1>5, <1>6, <1>7, <1>8, <1>9
        DEF Handle, EndCommit, Leaving

LEMMA TypePruner ==
  ASSUME TypeOK,
         \/ ExpungerArrives \/ ExpungerDeparts \/ FreeClient
         \/ ExpungeCommit \/ ExpungeAgain \/ ExpungeLost \/ ExpungeBlocked
         \/ \E s \in Slots : Skip(s) \/ Unlink(s)
         \/ \E ch \in rows : LeaveSend(ch)
  PROVE  TypesOK'
<1> USE DEF TypeOK, TypesOK, ClientTypes, LockTypes, ThreadTypes, OtherTypes,
            WorkerLabels, PrunerLabels
<1> USE DEF Threads, Goto, memory, clientVars, pollVars, useVars,
            tableVars, locks, threadVars, contextVars, requestVars, pruneVars, world,
            pageVars, bounds
<1>1. CASE ExpungerArrives
  BY <1>1 DEF ExpungerArrives
<1>2. CASE ExpungerDeparts
  BY <1>2 DEF ExpungerDeparts
<1>3. CASE FreeClient
  BY <1>3 DEF FreeClient, ControlOK
<1>4. CASE ExpungeCommit
  <2>1. commits' \in Nat /\ stamp' \in [Threads -> Nat]
    <3>1. CASE outbox[Pruner] = <<>>
      BY <1>4, <3>1 DEF ExpungeCommit, TakePlace
    <3>2. CASE outbox[Pruner] # <<>>
      <4>1. commits' = commits + 1 /\ stamp' = [stamp EXCEPT ![Pruner] = commits + 1]
        BY <1>4, <3>2, Zenon DEF ExpungeCommit, TakePlace
      <4> QED BY <4>1
    <3> QED BY <3>1, <3>2
  <2> QED BY <1>4, <2>1 DEF ExpungeCommit
<1>5. CASE ExpungeAgain
  BY <1>5 DEF ExpungeAgain, Unlock
<1>6. CASE ExpungeLost
  BY <1>6 DEF ExpungeLost, Unlock
<1>7. CASE ExpungeBlocked
  BY <1>7 DEF ExpungeBlocked
<1>8. ASSUME NEW s \in Slots, Skip(s) PROVE TypesOK'
  BY <1>8 DEF Skip
<1>9. ASSUME NEW s \in Slots, Unlink(s) PROVE TypesOK'
  BY <1>9 DEF Unlink
<1>10. ASSUME NEW ch \in rows, LeaveSend(ch) PROVE TypesOK'
  <2>1. AddToDeltas(outbox[Pruner], ch) \in Seq(Delta)
    BY <1>10, AddToDeltasType
  <2> QED BY <1>10, <2>1 DEF LeaveSend
<1> QED BY <1>1, <1>2, <1>3, <1>4, <1>5, <1>6, <1>7, <1>8, <1>9, <1>10

LEMMA TypeBrowser ==
  ASSUME TypeOK, \/ \E p \in Pages : Browse(p)
                 \/ \E s \in Slots : Expire(s)
  PROVE  TypesOK'
<1> USE DEF TypeOK, TypesOK, ClientTypes, LockTypes, ThreadTypes, OtherTypes,
            WorkerLabels, PrunerLabels
<1> USE DEF Threads, Goto, memory, clientVars, pollVars, useVars,
            tableVars, locks, threadVars, contextVars, requestVars, pruneVars, world,
            pageVars, bounds
<1>1. ASSUME NEW p \in Pages, Connect(p) PROVE TypesOK'
  <2> DEFINE s == at[p]
  <2>1. s \in Slots
    BY <1>1, ThreadsAssumption DEF Connect, ControlOK
  <2>2. got[p] \o msgs[s] \in Seq(Message)
    BY <2>1
  <2> DEFINE refused == s \notin allocated \/ mode[s] # "USED" \/ pass[s] # p
  <2>3. CASE refused
    BY <1>1, <2>1, <2>3, ZenonT(40) DEF Connect
  <2>4. CASE ~refused
    <3> HIDE DEF TypeOK
    <3>1. /\ stale' = [stale EXCEPT ![s] = FALSE]
          /\ UNCHANGED tab
          /\ \/ /\ sock' = [sock EXCEPT ![s] = None]
                /\ got' = [got EXCEPT ![p] = @ \o msgs[s]]
                /\ msgs' = [msgs EXCEPT ![s] = <<>>]
                /\ listening' = listening \ {p}
             \/ /\ sock' = [sock EXCEPT ![s] = p]
                /\ listening' = listening \cup {p}
                /\ UNCHANGED <<msgs, got>>
      BY <1>1, <2>4, Zenon DEF Connect
    <3>2. UNCHANGED <<mode, pass, useVars, tableVars, locks, threadVars, pruneVars,
                      rows, at, bounds>>
      BY <1>1, Zenon DEF Connect
    <3> USE DEF TypeOK
    <3>3. sock' \in [Slots -> Pages \cup {None}] /\ stale' \in [Slots -> BOOLEAN]
      BY <2>1, <3>1
    <3>4. msgs' \in [Slots -> Seq(Message)]
      <4>1. msgs' = msgs \/ msgs' = [msgs EXCEPT ![s] = <<>>]
        BY <3>1
      <4>2. msgs \in [Slots -> Seq(Message)] /\ <<>> \in Seq(Message)
        OBVIOUS
      <4> HIDE DEF s
      <4> QED BY <2>1, <4>1, <4>2
    <3>5. got' \in [Pages -> Seq(Message)]
      BY <2>2, <3>1, ZenonT(40)
    <3>6. listening' \in SUBSET Pages
      BY <3>1
    <3>7. tab' = tab
      BY <3>1
    <3> QED BY <3>2, <3>3, <3>4, <3>5, <3>6, <3>7
  <2> QED BY <2>3, <2>4
<1>2. ASSUME NEW p \in Pages, HangUp(p) PROVE TypesOK'
  BY <1>2 DEF HangUp
<1>3. ASSUME NEW p \in Pages, Leave(p) PROVE TypesOK'
  BY <1>3 DEF Leave
<1>4. ASSUME NEW s \in Slots, Expire(s) PROVE TypesOK'
  BY <1>4 DEF Expire
<1> QED BY <1>1, <1>2, <1>3, <1>4 DEF Browse

\* ControlOK is preserved by every action.
LEMMA ControlServer == ASSUME TypeOK, Initialize \/ Crash PROVE ControlOK'
<1> USE DEF TypeOK, TypesOK, ThreadTypes, OtherTypes, ControlOK, WorkerLabels,
            PrunerLabels, Threads, Goto
<1> USE ThreadsAssumption
<1>1. CASE Initialize
  BY <1>1 DEF Initialize, contextVars, requestVars, pruneVars, pageVars
<1>2. CASE Crash
  BY <1>2 DEF Crash
<1> QED BY <1>1, <1>2

LEMMA ControlWorker ==
  ASSUME TypeOK, NEW w \in Workers, Request(w) \/ Work(w)
  PROVE  ControlOK'
<1> USE DEF TypeOK, TypesOK, ThreadTypes, OtherTypes, ControlOK, WorkerLabels,
            PrunerLabels, Threads, Goto
<1> USE ThreadsAssumption
<1> USE DEF locks, threadVars, contextVars, requestVars, pruneVars, world,
            pageVars
<1>1. CASE Request(w)
  BY <1>1 DEF Request
<1>2. CASE ArriveAgain(w)
  BY <1>2 DEF ArriveAgain
<1>3. CASE SkipLogin(w)
  BY <1>3 DEF SkipLogin
<1>4. CASE RefuseLogin(w)
  BY <1>4 DEF RefuseLogin
<1>5. CASE FindClient(w)
  BY <1>5 DEF FindClient, ClientTypes
<1>6. CASE Pull(w)
  BY <1>6 DEF Pull
<1>7. CASE NewChannel(w)
  BY <1>7 DEF NewChannel
<1>8. CASE StartCommit(w)
  BY <1>8 DEF StartCommit
<1>9. CASE Commit(w)
  BY <1>9 DEF Commit
<1>10. CASE CommitFails(w)
  BY <1>10 DEF CommitFails, AfterTransaction
<1>11. CASE Deliver(w)
  BY <1>11 DEF Deliver
<1>12. CASE FinishDelivery(w)
  BY <1>12 DEF FinishDelivery, AfterTransaction
<1>13. CASE Release(w)
  BY <1>13 DEF Release
<1>14. CASE Depart(w)
  <2>1. slot' = slot /\ at' = at /\ victim' = victim
    BY <1>14 DEF Depart
  <2>2. \A p \in Pages : tab'[p] # "unborn" <=> tab[p] # "unborn"
    BY <1>14 DEF Depart, Respond
  <2>3. \E l \in {"idle", "arrive", "rollback"} : pc' = [pc EXCEPT ![w] = l]
    <3> HIDE DEF TypeOK
    <3>1. CASE fate[w] = "onError"
      BY <1>14, <3>1, Zenon DEF Depart
    <3>2. CASE fate[w] # "onError"
      BY <1>14, <3>2, Zenon DEF Depart
    <3> QED BY <3>1, <3>2
  <2>4. \/ kind' = kind /\ view' = [view EXCEPT ![w] = None] /\ kind[w] # "rpc"
        \/ kind' = kind /\ view' = view
        \/ \E k \in {"plain", "error"} : /\ kind' = [kind EXCEPT ![w] = k]
                                        /\ view' = [view EXCEPT ![w] = None]
    BY <1>14 DEF Depart
  <2>5. slot[w] = None
    BY <1>14 DEF Depart
  <2> QED BY <2>1, <2>2, <2>3, <2>4, <2>5
<1>15. CASE DepartAgain(w)
  BY <1>15 DEF DepartAgain
<1>16. ASSUME NEW s \in Slots, NEW p \in Pages, NewClient(w, s, p) PROVE ControlOK'
  BY <1>16 DEF NewClient
<1>17. ASSUME NEW ch \in rows \cup inserts[w], Send(w, ch) PROVE ControlOK'
  BY <1>17 DEF Send
<1>18. ASSUME NEW f \in Failure(w), HandlerFails(w, f) PROVE ControlOK'
  BY <1>18 DEF HandlerFails, AfterTransaction
<1> QED BY <1>1, <1>2, <1>3, <1>4, <1>5, <1>6, <1>7, <1>8, <1>9, <1>10, <1>11,
           <1>12, <1>13, <1>14, <1>15, <1>16, <1>17, <1>18
        DEF Work, Login, Handle, EndCommit, Leaving

LEMMA ControlPruner == ASSUME TypeOK, Prune PROVE ControlOK'
<1> USE DEF TypeOK, TypesOK, ThreadTypes, OtherTypes, ControlOK, WorkerLabels,
            PrunerLabels, Threads, Goto
<1> USE ThreadsAssumption
<1> USE DEF locks, threadVars, contextVars, requestVars, pruneVars, world,
            pageVars
<1>1. CASE ExpungerArrives
  BY <1>1 DEF ExpungerArrives
<1>2. CASE ExpungerDeparts
  BY <1>2 DEF ExpungerDeparts
<1>3. CASE FreeClient
  BY <1>3 DEF FreeClient
<1>4. CASE ExpungeCommit
  BY <1>4 DEF ExpungeCommit
<1>5. CASE ExpungeAgain
  BY <1>5 DEF ExpungeAgain
<1>6. CASE ExpungeLost
  BY <1>6 DEF ExpungeLost
<1>7. CASE ExpungeBlocked
  BY <1>7 DEF ExpungeBlocked
<1>8. CASE StartCommit(Pruner)
  BY <1>8 DEF StartCommit
<1>9. CASE Deliver(Pruner)
  BY <1>9 DEF Deliver
<1>10. CASE FinishDelivery(Pruner)
  BY <1>10 DEF FinishDelivery
<1>11. ASSUME NEW s \in Slots, Skip(s) PROVE ControlOK'
  BY <1>11 DEF Skip, threadVars
<1>12. ASSUME NEW s \in Slots, Unlink(s) PROVE ControlOK'
  BY <1>12 DEF Unlink
<1>13. ASSUME NEW ch \in rows, LeaveSend(ch) PROVE ControlOK'
  BY <1>13 DEF LeaveSend
<1> QED BY <1>1, <1>2, <1>3, <1>4, <1>5, <1>6, <1>7, <1>8, <1>9, <1>10, <1>11, <1>12, <1>13
        DEF Prune

LEMMA ControlBrowser ==
  ASSUME TypeOK, \/ \E p \in Pages : Browse(p)
                 \/ \E s \in Slots : Expire(s)
  PROVE  ControlOK'
<1> USE DEF TypeOK, TypesOK, ThreadTypes, OtherTypes, ControlOK, WorkerLabels,
            PrunerLabels, Threads, Goto
<1> USE ThreadsAssumption
<1> USE DEF locks, threadVars, contextVars, requestVars, pruneVars, world,
            pageVars
<1>1. ASSUME NEW p \in Pages, Connect(p) PROVE ControlOK'
  <2>1. \A q \in Pages : tab'[q] # "unborn" <=> tab[q] # "unborn"
    BY <1>1 DEF Connect
  <2>2. UNCHANGED <<threadVars, pruneVars, at>>
    BY <1>1 DEF Connect
  <2> QED BY <2>1, <2>2
<1>2. ASSUME NEW p \in Pages, HangUp(p) PROVE ControlOK'
  BY <1>2 DEF HangUp
<1>3. ASSUME NEW p \in Pages, Leave(p) PROVE ControlOK'
  BY <1>3 DEF Leave
<1>4. ASSUME NEW s \in Slots, Expire(s) PROVE ControlOK'
  BY <1>4 DEF Expire
<1> QED BY <1>1, <1>2, <1>3, <1>4 DEF Browse

LEMMA TypeStep == ASSUME TypeOK, [Next]_vars PROVE TypeOK'
<1>1. CASE Initialize \/ Crash
  BY <1>1, TypeServer, ControlServer DEF TypeOK
<1>2. ASSUME NEW w \in Workers, Request(w) \/ Work(w) PROVE TypeOK'
  <2>1. w \in Threads
    BY DEF Threads
  <2>2. TypesOK'
    BY <1>2, <2>1, TypeLogin, TypeCommit, TypeTransaction DEF Work
  <2> QED BY <1>2, <2>2, ControlWorker DEF TypeOK
<1>3. CASE Prune
  <2>1. Pruner \in Threads
    BY DEF Threads
  <2>2. TypesOK'
    BY <1>3, <2>1, TypePruner, TypeCommit DEF Prune
  <2> QED BY <1>3, <2>2, ControlPruner DEF TypeOK
<1>4. CASE (\E p \in Pages : Browse(p)) \/ (\E s \in Slots : Expire(s))
  BY <1>4, TypeBrowser, ControlBrowser DEF TypeOK
<1>5. CASE UNCHANGED vars
  BY <1>5 DEF vars, memory, clientVars, pollVars, useVars, tableVars, locks, threadVars,
     contextVars, requestVars, pruneVars, world, pageVars, bounds,
     TypeOK, TypesOK, ClientTypes, LockTypes, ThreadTypes, OtherTypes, ControlOK
<1> QED BY <1>1, <1>2, <1>3, <1>4, <1>5 DEF Next

\* Every reachable state has the types the code declares, and each thread holds
\* what its place in the code says: a transaction that is in use_client or
\* release_client has a client, a pruner inside uw_expunge has a victim.
THEOREM TypeCorrect == Spec => []TypeOK
<1>1. Init => TypeOK
  BY TypeInit
<1>2. TypeOK /\ [Next]_vars => TypeOK'
  BY TypeStep
<1> QED BY <1>1, <1>2, PTL DEF Spec

-----------------------------------------------------------------------------
(* The expunger runs alone, if no failed COMMIT meets an onError handler: the *)
(* count of readers is the number of transactions, which needs that every     *)
(* arrival is matched by one departure.                                       *)

Inside == {w \in Workers : InTransaction(w)}

LockInv ==
  /\ TypeOK
  /\ readers = Cardinality(Inside)
  /\ writer => readers = 0
  /\ \A w \in Workers : pc[w] # "rollback" /\ fate[w] # "commitError"

LEMMA InsideFinite ==
  /\ IsFiniteSet(Inside)
  /\ Cardinality(Inside) \in Nat
  /\ Cardinality(Inside) <= Cardinality(Workers)
  /\ Cardinality(Workers) \in Nat
<1>1. Inside \subseteq Workers
  BY DEF Inside
<1> QED BY <1>1, ThreadsAssumption, FS_Subset, FS_CardinalityType

LEMMA LockInit == Init => LockInv
<1> SUFFICES ASSUME Init PROVE LockInv
  OBVIOUS
<1>1. Inside = {}
  BY ThreadsAssumption DEF Init, Inside, InTransaction, Threads
<1>2. readers = Cardinality(Inside)
  BY <1>1, FS_EmptySet DEF Init
<1>3. \A w \in Workers : pc[w] # "rollback" /\ fate[w] # "commitError"
  BY ThreadsAssumption DEF Init, Threads
<1>4. writer = FALSE
  BY DEF Init
<1> QED BY <1>2, <1>3, <1>4, TypeInit DEF LockInv

\* A worker arrives: one more transaction, and the count does not wrap.
LEMMA LockArrives ==
  ASSUME LockInv, NEW w \in Workers, pc[w] \in {"idle", "arrive"},
         pc' = [pc EXCEPT ![w] = "login"], readers' = (readers + 1) % ReaderWrap
  PROVE  readers' = Cardinality(Inside')
<1>1. Inside' = Inside \cup {w} /\ w \notin Inside
  BY DEF LockInv, TypeOK, TypesOK, ThreadTypes, Inside, InTransaction, Threads
<1>2. Cardinality(Inside') = readers + 1
  BY <1>1, InsideFinite, FS_AddElement DEF LockInv
<1>3. Cardinality(Inside') <= Cardinality(Workers)
  <2>1. Inside' \subseteq Workers
    BY DEF Inside
  <2> QED BY <2>1, ThreadsAssumption, FS_Subset
<1>4. readers + 1 \in Nat /\ readers + 1 < ReaderWrap
  BY <1>2, <1>3, InsideFinite, WidthAssumption DEF LockInv
<1>5. (readers + 1) % ReaderWrap = readers + 1
  BY <1>4, ReaderWrapPositive
<1> QED BY <1>2, <1>5

\* A worker departs: it was counted, so the count does not wrap.
LEMMA LockDeparts ==
  ASSUME LockInv, NEW w \in Workers, pc[w] = "depart", NEW l \in {"idle", "arrive"},
         pc' = [pc EXCEPT ![w] = l], Departs
  PROVE  readers' = Cardinality(Inside') /\ readers # 0
<1>1. Inside' = Inside \ {w} /\ w \in Inside
  BY DEF LockInv, TypeOK, TypesOK, ThreadTypes, Inside, InTransaction, Threads
<1>2. Cardinality(Inside') = readers - 1
  BY <1>1, InsideFinite, FS_RemoveElement DEF LockInv
<1>3. readers # 0
  BY <1>1, InsideFinite, FS_EmptySet DEF LockInv
<1> QED BY <1>2, <1>3, InsideFinite DEF LockInv, Departs, Dec

\* All other steps leave the lock and the set of transactions alone.
LEMMA LockKept ==
  ASSUME LockInv, TypeOK', UNCHANGED <<readers, writer>>, Inside' = Inside,
         \A w \in Workers : pc'[w] # "rollback" /\ fate'[w] # "commitError"
  PROVE  LockInv'
  BY DEF LockInv

LEMMA LockWorker ==
  ASSUME LockInv, TypeOK', ~(OnError /\ CommitErrors),
         NEW w \in Workers, Request(w) \/ Work(w)
  PROVE  LockInv'
<1> USE DEF LockInv, TypeOK, TypesOK, ThreadTypes, ControlOK, Threads, Goto,
            locks, threadVars, contextVars, requestVars, world
<1> DEFINE Kept == /\ UNCHANGED <<readers, writer>>
                   /\ Inside' = Inside
                   /\ \A v \in Workers : pc'[v] # "rollback" /\ fate'[v] # "commitError"
<1>1. ASSUME Request(w) \/ ArriveAgain(w) PROVE LockInv'
  <2>1. /\ pc[w] \in {"idle", "arrive"}
        /\ pc' = [pc EXCEPT ![w] = "login"]
        /\ readers' = (readers + 1) % ReaderWrap
        /\ ~writer /\ writer' = writer /\ fate' = fate
    BY <1>1 DEF Request, ArriveAgain
  <2>2. readers' = Cardinality(Inside')
    BY <2>1, LockArrives
  <2> QED BY <2>1, <2>2
<1>2. CASE Depart(w)
  <2>1. \E l \in {"idle", "arrive"} : pc' = [pc EXCEPT ![w] = l]
    <3>1. CASE fate[w] = "onError"
      BY <1>2, <3>1 DEF Depart
    <3>2. CASE fate[w] # "onError"
      BY <1>2, <3>2 DEF Depart
    <3> QED BY <3>1, <3>2
  <2>2. Departs /\ pc[w] = "depart" /\ writer' = writer
        /\ fate' = [fate EXCEPT ![w] = "served"]
    BY <1>2 DEF Depart
  <2>3. readers' = Cardinality(Inside') /\ readers # 0
    BY <2>1, <2>2, LockDeparts
  <2> QED BY <2>1, <2>2, <2>3
<1>3. CASE DepartAgain(w)
  BY <1>3 DEF DepartAgain
<1>4. CASE SkipLogin(w)
  <2>1. Kept
    BY <1>4 DEF SkipLogin, Inside, InTransaction
  <2> QED BY <2>1, LockKept
<1>5. CASE RefuseLogin(w)
  <2>1. Kept
    BY <1>5 DEF RefuseLogin, Refused, Inside, InTransaction
  <2> QED BY <2>1, LockKept
<1>6. CASE FindClient(w)
  <2>1. Kept
    BY <1>6 DEF FindClient, Inside, InTransaction
  <2> QED BY <2>1, LockKept
<1>7. CASE Pull(w)
  <2>1. Kept
    BY <1>7 DEF Pull, Refused, Inside, InTransaction
  <2> QED BY <2>1, LockKept
<1>8. CASE NewChannel(w)
  <2>1. Kept
    BY <1>8 DEF NewChannel, Inside, InTransaction
  <2> QED BY <2>1, LockKept
<1>9. CASE StartCommit(w)
  <2>1. Kept
    BY <1>9 DEF StartCommit, Inside, InTransaction
  <2> QED BY <2>1, LockKept
<1>10. CASE Commit(w)
  <2>1. Kept
    BY <1>10 DEF Commit, Inside, InTransaction
  <2> QED BY <2>1, LockKept
<1>11. CASE CommitFails(w)
  <2>1. Kept
    BY <1>11 DEF CommitFails, AfterTransaction, Inside, InTransaction
  <2> QED BY <2>1, LockKept
<1>12. CASE Deliver(w)
  <2>1. Kept
    BY <1>12 DEF Deliver, Inside, InTransaction
  <2> QED BY <2>1, LockKept
<1>13. CASE FinishDelivery(w)
  <2>1. Kept
    BY <1>13, ThreadsAssumption
    DEF FinishDelivery, AfterTransaction, Inside, InTransaction
  <2> QED BY <2>1, LockKept
<1>14. CASE Release(w)
  <2>1. Kept
    BY <1>14 DEF Release, Inside, InTransaction
  <2> QED BY <2>1, LockKept
<1>15. ASSUME NEW s \in Slots, NEW p \in Pages, NewClient(w, s, p) PROVE LockInv'
  <2>1. Kept
    BY <1>15 DEF NewClient, Inside, InTransaction
  <2> QED BY <2>1, LockKept
<1>16. ASSUME NEW ch \in rows \cup inserts[w], Send(w, ch) PROVE LockInv'
  <2>1. Kept
    BY <1>16 DEF Send, Inside, InTransaction
  <2> QED BY <2>1, LockKept
<1>17. ASSUME NEW f \in Failure(w), HandlerFails(w, f) PROVE LockInv'
  <2>1. Kept
    BY <1>17 DEF HandlerFails, AfterTransaction, Failure, Inside, InTransaction
  <2> QED BY <2>1, LockKept
<1> QED BY <1>1, <1>2, <1>3, <1>4, <1>5, <1>6, <1>7, <1>8, <1>9, <1>10, <1>11,
           <1>12, <1>13, <1>14, <1>15, <1>16, <1>17
        DEF Work, Login, Handle, EndCommit, Leaving

LEMMA LockOthers ==
  ASSUME LockInv, TypeOK',
         \/ Initialize \/ Crash \/ Prune
         \/ \E p \in Pages : Browse(p)
         \/ \E s \in Slots : Expire(s)
  PROVE  LockInv'
<1> USE DEF LockInv, TypeOK, TypesOK, ThreadTypes, Threads, Goto,
            locks, threadVars, contextVars, requestVars, world
<1> USE ThreadsAssumption
<1> DEFINE KeptBy == /\ UNCHANGED <<readers, fate>>
                     /\ Inside' = Inside
                     /\ \A v \in Workers : pc'[v] = pc[v]
<1>1. CASE Crash
  <2>1. Inside' = {}
    BY <1>1 DEF Crash, Inside, InTransaction
  <2>2. readers' = Cardinality(Inside')
    BY <1>1, <2>1, FS_EmptySet DEF Crash
  <2>3. \A v \in Workers : pc'[v] # "rollback" /\ fate'[v] # "commitError"
    BY <1>1 DEF Crash
  <2>4. writer' = FALSE
    BY <1>1 DEF Crash
  <2> QED BY <2>2, <2>3, <2>4
<1>2. CASE ExpungerArrives
  <2>1. KeptBy
    BY <1>2 DEF ExpungerArrives, MayArrive, Inside, InTransaction
  <2>2. readers = 0
    BY <1>2 DEF ExpungerArrives, MayArrive
  <2> QED BY <2>1, <2>2
<1>3. CASE ExpungerDeparts
  <2>1. KeptBy
    BY <1>3 DEF ExpungerDeparts, Inside, InTransaction
  <2>2. writer' = FALSE
    BY <1>3 DEF ExpungerDeparts
  <2> QED BY <2>1, <2>2
<1>4. CASE Initialize
  <2>1. KeptBy /\ writer' = writer
    BY <1>4 DEF Initialize, Inside, InTransaction
  <2> QED BY <2>1
<1>5. CASE FreeClient
  <2>1. KeptBy /\ writer' = writer
    BY <1>5 DEF FreeClient, Inside, InTransaction
  <2> QED BY <2>1
<1>6. CASE ExpungeCommit
  <2>1. KeptBy /\ writer' = writer
    BY <1>6 DEF ExpungeCommit, Inside, InTransaction
  <2> QED BY <2>1
<1>7. CASE ExpungeAgain
  <2>1. KeptBy /\ writer' = writer
    BY <1>7 DEF ExpungeAgain, Inside, InTransaction
  <2> QED BY <2>1
<1>8. CASE ExpungeLost
  <2>1. KeptBy /\ writer' = writer
    BY <1>8 DEF ExpungeLost, Inside, InTransaction
  <2> QED BY <2>1
<1>9. CASE ExpungeBlocked
  <2>1. KeptBy /\ writer' = writer
    BY <1>9 DEF ExpungeBlocked, Inside, InTransaction
  <2> QED BY <2>1
<1>10. CASE StartCommit(Pruner)
  <2>1. KeptBy /\ writer' = writer
    BY <1>10 DEF StartCommit, Inside, InTransaction
  <2> QED BY <2>1
<1>11. CASE Deliver(Pruner)
  <2>1. KeptBy /\ writer' = writer
    BY <1>11 DEF Deliver, Inside, InTransaction
  <2> QED BY <2>1
<1>12. CASE FinishDelivery(Pruner)
  <2>1. KeptBy /\ writer' = writer
    BY <1>12 DEF FinishDelivery, Inside, InTransaction
  <2> QED BY <2>1
<1>13. ASSUME NEW s \in Slots, Skip(s) PROVE LockInv'
  <2>1. KeptBy /\ writer' = writer
    BY <1>13 DEF Skip, threadVars, Inside, InTransaction
  <2> QED BY <2>1
<1>14. ASSUME NEW s \in Slots, Unlink(s) PROVE LockInv'
  <2>1. KeptBy /\ writer' = writer
    BY <1>14 DEF Unlink, Inside, InTransaction
  <2> QED BY <2>1
<1>15. ASSUME NEW ch \in rows, LeaveSend(ch) PROVE LockInv'
  <2>1. KeptBy /\ writer' = writer
    BY <1>15 DEF LeaveSend, Inside, InTransaction
  <2> QED BY <2>1
<1>16. ASSUME NEW p \in Pages, Connect(p) PROVE LockInv'
  <2>1. KeptBy /\ writer' = writer
    BY <1>16 DEF Connect, threadVars, Inside, InTransaction
  <2> QED BY <2>1
<1>17. ASSUME NEW p \in Pages, HangUp(p) PROVE LockInv'
  <2>1. KeptBy /\ writer' = writer
    BY <1>17 DEF HangUp, threadVars, Inside, InTransaction
  <2> QED BY <2>1
<1>18. ASSUME NEW p \in Pages, Leave(p) PROVE LockInv'
  <2>1. KeptBy /\ writer' = writer
    BY <1>18 DEF Leave, threadVars, Inside, InTransaction
  <2> QED BY <2>1
<1>19. ASSUME NEW s \in Slots, Expire(s) PROVE LockInv'
  <2>1. KeptBy /\ writer' = writer
    BY <1>19 DEF Expire, threadVars, Inside, InTransaction
  <2> QED BY <2>1
<1> QED BY <1>1, <1>2, <1>3, <1>4, <1>5, <1>6, <1>7, <1>8, <1>9, <1>10, <1>11,
           <1>12, <1>13, <1>14, <1>15, <1>16, <1>17, <1>18, <1>19
        DEF Prune, Browse

LEMMA LockStep ==
  ASSUME ~(OnError /\ CommitErrors), LockInv, [Next]_vars PROVE LockInv'
<1>1. TypeOK'
  BY TypeStep DEF LockInv
<1>2. CASE Next
  BY <1>1, <1>2, LockWorker, LockOthers DEF Next
<1>3. CASE UNCHANGED vars
  <2>1. UNCHANGED <<readers, writer>> /\ Inside' = Inside /\ pc' = pc /\ fate' = fate
    BY <1>3 DEF vars, locks, threadVars, contextVars, Inside, InTransaction
  <2> QED BY <1>1, <2>1, LockKept DEF LockInv
<1> QED BY <1>2, <1>3

\* The comment on expunge_lock, for any number of workers: while the pruner
\* holds the lock no request is between its arrival and its departure.  It needs
\* that the application has no onError handler, or that COMMIT never fails for
\* good: with both, uw_request departs twice (MessagingDepartTwice.cfg).
THEOREM ExpungerIsAlone == ~(OnError /\ CommitErrors) => (Spec => []ExpungerAlone)
<1> SUFFICES ASSUME ~(OnError /\ CommitErrors) PROVE Spec => []ExpungerAlone
  OBVIOUS
<1>1. Init => LockInv
  BY LockInit
<1>2. LockInv /\ [Next]_vars => LockInv'
  BY LockStep
<1>3. LockInv => ExpungerAlone
  <2> SUFFICES ASSUME LockInv, writer PROVE \A w \in Workers : ~InTransaction(w)
    BY DEF ExpungerAlone
  <2>1. Inside = {}
    BY InsideFinite, FS_EmptySet DEF LockInv
  <2> QED BY <2>1 DEF Inside
<1> QED BY <1>1, <1>2, <1>3, PTL DEF Spec

-----------------------------------------------------------------------------
(* The invariant.                                                           *)

Sending == {"handler", "commit", "deliver"}

\* Where messages and rows wait for the end of a transaction.
Emptied ==
  /\ \A t \in Threads : pc[t] \notin Sending => outbox[t] = <<>>
  /\ \A w \in Workers : pc[w] \notin {"handler", "commit"} => inserts[w] = {}

\* A request that has a client is of the page view whose client it is.
Users ==
  \A w \in Workers : pc[w] \in Sending /\ slot[w] # None =>
    mode[slot[w]] = "USED" /\ pass[slot[w]] = view[w]

\* The pruner works as the writer; it frees a client when its rows are gone.
Pruning ==
  /\ pc[Pruner] \notin {"boot", "sleep"} => writer
  /\ pc[Pruner] = "boot" => \A w \in Workers : pc[w] = "idle"
  /\ pc[Pruner] \in {"deliver", "free"} => \A ch \in rows : ch.cli # victim

Control == Emptied /\ Users /\ Pruning

\* A slot that new_client may take is not used.
FreeSlots == \A s \in Slots : s \in freeList \/ s \notin allocated => mode[s] = "UNUSED"

\* Buffer and parked poll of a client are its page's.
Clients ==
  \A s \in Slots : mode[s] = "USED" =>
    /\ \A i \in DOMAIN msgs[s] : msgs[s][i].chan.own = pass[s]
    /\ sock[s] \in {None, pass[s]}

\* Queued messages are for the clients of their channels, and no queue is without one.
Box(ds) ==
  \A i \in DOMAIN ds :
    /\ 1 \in DOMAIN ds[i].msgs
    /\ \A j \in DOMAIN ds[i].msgs :
         ds[i].msgs[j].cli = ds[i].client /\ Owned(ds[i].msgs[j])

Boxes == \A t \in Threads : Box(outbox[t])

Data == FreeSlots /\ Clients /\ Boxes /\ ChannelsOwned /\ NoForeignDelivery

OwnInv == Control /\ Data

-----------------------------------------------------------------------------
(* Queues.                                                                  *)

\* A queue that was changed nowhere is as good as it was.
LEMMA OwnedFrame == UNCHANGED <<mode, pass>> => \A ch : Owned(ch)' = Owned(ch)
BY DEF Owned

LEMMA BoxFrame == UNCHANGED <<mode, pass>> => \A ds : Box(ds) => Box(ds)'
BY OwnedFrame DEF Box

LEMMA AddToBox ==
  ASSUME NEW ds \in Seq(Delta), NEW ch \in Channel, Box(ds), Owned(ch)
  PROVE  Box(AddToDeltas(ds, ch))
<1> DEFINE es == AddToDeltas(ds, ch)
<1> SUFFICES ASSUME NEW i \in DOMAIN es
             PROVE  /\ 1 \in DOMAIN es[i].msgs
                    /\ \A j \in DOMAIN es[i].msgs :
                         es[i].msgs[j].cli = es[i].client /\ Owned(es[i].msgs[j])
  BY DEF Box
<1>1. CASE \E k \in DOMAIN ds : ds[k].client = ch.cli
  <2>1. /\ i \in DOMAIN ds
        /\ es[i] = IF ds[i].client = ch.cli
                   THEN [ds[i] EXCEPT !.msgs = Append(ds[i].msgs, ch)] ELSE ds[i]
    BY <1>1, Zenon DEF AddToDeltas
  <2>2. ds[i] \in Delta
    BY <2>1
  <2>3. CASE ds[i].client = ch.cli
    <3>1. es[i].client = ds[i].client /\ es[i].msgs = Append(ds[i].msgs, ch)
      BY <2>1, <2>2, <2>3 DEF Delta
    <3>2. ds[i].msgs \in Seq(Channel)
      BY <2>2 DEF Delta
    <3>3. /\ 1 \in DOMAIN es[i].msgs
          /\ \A j \in DOMAIN es[i].msgs :
               \/ j \in DOMAIN ds[i].msgs /\ es[i].msgs[j] = ds[i].msgs[j]
               \/ es[i].msgs[j] = ch
      BY <3>1, <3>2
    <3> QED BY <2>1, <2>3, <3>1, <3>3 DEF Box
  <2>4. CASE ds[i].client # ch.cli
    BY <2>1, <2>4 DEF Box
  <2> QED BY <2>3, <2>4
<1>2. CASE ~\E k \in DOMAIN ds : ds[k].client = ch.cli
  <2> DEFINE d == [client |-> ch.cli, msgs |-> <<ch>>]
  <2>1. es = Append(ds, d)
    BY <1>2, Zenon DEF AddToDeltas
  <2>2. (i \in DOMAIN ds /\ es[i] = ds[i]) \/ es[i] = d
    BY <2>1
  <2>3. CASE i \in DOMAIN ds /\ es[i] = ds[i]
    BY <2>3 DEF Box
  <2>4. CASE es[i] = d
    <3>1. es[i].client = ch.cli /\ es[i].msgs = <<ch>>
      BY <2>4
    <3>2. 1 \in DOMAIN es[i].msgs /\ \A j \in DOMAIN es[i].msgs : es[i].msgs[j] = ch
      BY <3>1
    <3> QED BY <3>1, <3>2
  <2> QED BY <2>2, <2>3, <2>4
<1> QED BY <1>1, <1>2

LEMMA TailOfBox ==
  ASSUME NEW ds \in Seq(Delta), ds # <<>>, Box(ds)
  PROVE  /\ Box(Tail(ds)) /\ Head(ds) = ds[1] /\ 1 \in DOMAIN ds /\ Head(ds) \in Delta
<1>1. /\ Head(ds) = ds[1] /\ 1 \in DOMAIN ds /\ Head(ds) \in Delta
      /\ \A i \in DOMAIN Tail(ds) : Tail(ds)[i] = ds[i + 1] /\ i + 1 \in DOMAIN ds
  OBVIOUS
<1> QED BY <1>1 DEF Box

\* The messages of the first queue are for the page that has the client.
LEMMA BlockOwned ==
  ASSUME NEW d \in Delta, NEW n \in Nat, NEW p,
         \A j \in DOMAIN d.msgs : d.msgs[j].own = p
  PROVE  /\ Stamped(d.msgs, n) \in Seq(Message)
         /\ \A i \in DOMAIN Stamped(d.msgs, n) : Stamped(d.msgs, n)[i].chan.own = p
<1>1. d.msgs \in Seq(Channel)
  BY DEF Delta
<1> DEFINE b == Stamped(d.msgs, n)
<1>2. b \in Seq(Message)
  BY <1>1, StampedType
<1>3. b = [i \in 1..Len(d.msgs) |-> [chan |-> d.msgs[i], txn |-> n, pos |-> i]]
  BY Zenon DEF Stamped
<1>4. \A i \in DOMAIN b : i \in DOMAIN d.msgs /\ b[i].chan = d.msgs[i]
  BY <1>1, <1>3
<1> QED BY <1>2, <1>4

LEMMA JoinedOwned ==
  ASSUME NEW a \in Seq(Message), NEW b \in Seq(Message), NEW p,
         \A i \in DOMAIN a : a[i].chan.own = p, \A i \in DOMAIN b : b[i].chan.own = p
  PROVE  \A i \in DOMAIN (a \o b) : (a \o b)[i].chan.own = p
<1>1. \A i \in DOMAIN (a \o b) :
        \/ i \in DOMAIN a /\ (a \o b)[i] = a[i]
        \/ i - Len(a) \in DOMAIN b /\ (a \o b)[i] = b[i - Len(a)]
  OBVIOUS
<1> QED BY <1>1

-----------------------------------------------------------------------------
(* Control.                                                                 *)

\* Requests begin when the server is up, and add rows when the pruner is asleep.
LEMMA ControlOfWorker ==
  ASSUME TypeOK, Control, FreeSlots, ExpungerAlone, NEW w \in Workers, Request(w) \/ Work(w)
  PROVE  Control'
<1> USE DEF Control, Emptied, Users, Pruning, ExpungerAlone, InTransaction, TypeOK, TypesOK,
            ThreadTypes, ControlOK, Threads, Goto, Sending, memory, clientVars, locks,
            threadVars, contextVars, requestVars, pruneVars, world
<1> USE ThreadsAssumption
<1>1. CASE Request(w)
  BY <1>1 DEF Request
<1>2. CASE ArriveAgain(w)
  BY <1>2 DEF ArriveAgain
<1>3. CASE SkipLogin(w)
  BY <1>3 DEF SkipLogin
<1>4. CASE RefuseLogin(w)
  BY <1>4 DEF RefuseLogin
<1>5. CASE FindClient(w)
  BY <1>5 DEF FindClient
<1>6. CASE Pull(w)
  <2>1. pc[w] = "pull" /\ UNCHANGED <<mode, pass, slot, view, inserts, outbox>>
    BY <1>6 DEF Pull
  <2>2. CASE Admits(w, slot[w])
    <3>1. pc' = [pc EXCEPT ![w] = "handler"]
      BY <1>6, <2>2, Zenon DEF Pull
    <3>2. mode[slot[w]] = "USED" /\ pass[slot[w]] = view[w]
      BY <2>2, Zenon DEF Admits
    <3> QED BY <2>1, <3>1, <3>2
  <2>3. CASE ~Admits(w, slot[w])
    <3>1. pc' = [pc EXCEPT ![w] = "release"]
      BY <1>6, <2>3, Zenon DEF Pull
    <3> QED BY <2>1, <3>1
  <2> QED BY <2>2, <2>3
<1>7. CASE NewChannel(w)
  BY <1>7 DEF NewChannel
<1>8. ASSUME NEW ch \in rows \cup inserts[w], Send(w, ch) PROVE Control'
  BY <1>8 DEF Send
<1>9. ASSUME NEW f \in Failure(w), HandlerFails(w, f) PROVE Control'
  BY <1>9 DEF HandlerFails, AfterTransaction
<1>10. CASE StartCommit(w)
  BY <1>10 DEF StartCommit
<1>11. CASE Commit(w)
  BY <1>11 DEF Commit
<1>12. CASE CommitFails(w)
  BY <1>12 DEF CommitFails, AfterTransaction
<1>13. CASE Deliver(w)
  BY <1>13 DEF Deliver
<1>14. CASE FinishDelivery(w)
  BY <1>14 DEF FinishDelivery, AfterTransaction
<1>15. CASE Release(w)
  BY <1>15 DEF Release
<1>16. CASE Depart(w)
  <2>1. \E l \in {"idle", "arrive", "rollback"} : pc' = [pc EXCEPT ![w] = l]
    <3>1. CASE fate[w] = "onError"
      BY <1>16, <3>1 DEF Depart
    <3>2. CASE fate[w] # "onError"
      BY <1>16, <3>2 DEF Depart
    <3> QED BY <3>1, <3>2
  <2>2. /\ pc[w] = "depart" /\ UNCHANGED <<mode, pass, slot, inserts, outbox>>
        /\ \E v : view' = [view EXCEPT ![w] = v]
    <3>1. CASE view' = view
      <4>1. view' = [view EXCEPT ![w] = view[w]]
        BY <3>1
      <4> QED BY <1>16, <4>1 DEF Depart
    <3>2. CASE view' = [view EXCEPT ![w] = None]
      BY <1>16, <3>2 DEF Depart
    <3> QED BY <1>16, <3>1, <3>2 DEF Depart
  <2> QED BY <2>1, <2>2
<1>17. CASE DepartAgain(w)
  BY <1>17 DEF DepartAgain
<1>18. ASSUME NEW s \in Slots, NEW p \in Pages, NewClient(w, s, p) PROVE Control'
  <2>1. mode[s] = "UNUSED"
    BY <1>18 DEF NewClient, FreeSlots
  <2>2. \A v \in Workers : pc[v] \in Sending => slot[v] # s
    BY <2>1, ZenonT(40)
  <2>3. /\ pc[w] = "login" /\ pc' = [pc EXCEPT ![w] = "pull"] /\ UNCHANGED <<inserts, outbox>>
        /\ mode' = [mode EXCEPT ![s] = "USED"] /\ pass' = [pass EXCEPT ![s] = p]
        /\ slot' = [slot EXCEPT ![w] = s] /\ view' = [view EXCEPT ![w] = p]
    BY <1>18 DEF NewClient
  <2>4. Users'
    BY <2>2, <2>3 DEF ClientTypes
  <2>5. Emptied' /\ Pruning'
    BY <2>3
  <2> QED BY <2>4, <2>5
<1> QED BY <1>1, <1>2, <1>3, <1>4, <1>5, <1>6, <1>7, <1>8, <1>9, <1>10, <1>11, <1>12, <1>13,
           <1>14, <1>15, <1>16, <1>17, <1>18
        DEF Work, Login, Handle, EndCommit, Leaving

LEMMA ControlOfPruner ==
  ASSUME TypeOK, TypeOK', Control, ExpungerAlone, ExpungerAlone', ~CleanupErrors, Prune
  PROVE  Control'
<1> USE DEF Control, Emptied, Users, Pruning, TypeOK, TypesOK, ThreadTypes, ControlOK, Threads,
            Goto, Sending, memory, clientVars, locks, threadVars, contextVars, requestVars,
            pruneVars, world
<1> USE ThreadsAssumption
<1>1. CASE ExpungerArrives
  BY <1>1 DEF ExpungerArrives
<1>2. ASSUME NEW s \in Slots, Skip(s) PROVE Control'
  BY <1>2 DEF Skip
<1>3. ASSUME NEW s \in Slots, Unlink(s) PROVE Control'
  BY <1>3 DEF Unlink
<1>4. ASSUME NEW ch \in rows, LeaveSend(ch) PROVE Control'
  BY <1>4 DEF LeaveSend
<1>5. CASE StartCommit(Pruner)
  BY <1>5 DEF StartCommit
<1>6. CASE Deliver(Pruner)
  BY <1>6 DEF Deliver
<1>7. CASE FinishDelivery(Pruner)
  BY <1>7 DEF FinishDelivery
<1>8. CASE ExpungeCommit
  BY <1>8 DEF ExpungeCommit, Expunged
<1>9. CASE ExpungeAgain
  BY <1>9 DEF ExpungeAgain
<1>10. CASE ExpungeLost
  BY <1>10 DEF ExpungeLost
<1>11. CASE ExpungeBlocked
  BY <1>11 DEF ExpungeBlocked
<1>12. CASE FreeClient
  <2>1. \A w \in Workers : pc[w] \notin Sending
    BY <1>12 DEF FreeClient, ExpungerAlone, InTransaction
  <2> QED BY <1>12, <2>1 DEF FreeClient
<1>13. CASE ExpungerDeparts
  BY <1>13 DEF ExpungerDeparts
<1> QED BY <1>1, <1>2, <1>3, <1>4, <1>5, <1>6, <1>7, <1>8, <1>9, <1>10, <1>11, <1>12, <1>13
        DEF Prune

-----------------------------------------------------------------------------
(* Data.                                                                    *)

\* A step that leaves the clients alone changes rows and queues only.
LEMMA QueuesFrame ==
  ASSUME Data, UNCHANGED <<mode, pass, msgs, sock, freeList, allocated, got>>,
         Boxes', ChannelsOwned'
  PROVE  Data'
BY DEF Data, FreeSlots, Clients, NoForeignDelivery

LEMMA DataFrame ==
  ASSUME Data, UNCHANGED <<mode, pass, msgs, sock, freeList, allocated, got>>,
         UNCHANGED <<rows, inserts, outbox>>, pc'[Pruner] # "boot" => pc[Pruner] # "boot"
  PROVE  Data'
<1>1. Boxes'
  BY BoxFrame DEF Data, Boxes
<1>2. ChannelsOwned'
  BY OwnedFrame DEF Data, ChannelsOwned
<1> QED BY <1>1, <1>2, QueuesFrame

\* A thread's queue changes.
LEMMA BoxStep ==
  ASSUME TypeOK, Data, NEW t \in Threads, NEW ds, Box(ds), UNCHANGED <<mode, pass>>,
         outbox' = [outbox EXCEPT ![t] = ds]
  PROVE  Boxes'
<1>1. \A u \in Threads : outbox'[u] = IF u = t THEN ds ELSE outbox[u]
  BY DEF TypeOK, TypesOK, ThreadTypes
<1>2. ASSUME NEW u \in Threads PROVE Box(outbox[u])' 
  <2>1. Box(outbox'[u])
    BY <1>1 DEF Data, Boxes
  <2> QED BY <2>1, OwnedFrame DEF Box
<1> QED BY <1>2 DEF Boxes

LEMMA EmptyBox == Box(<<>>)
BY DEF Box

\* What a handler makes, sends and gives up.
LEMMA DataOfHandler ==
  ASSUME TypeOK, Control, Data, NEW w \in Workers, Handle(w) \/ EndCommit(w)
  PROVE  Data'
<1> USE DEF Threads
<1>1. /\ UNCHANGED <<mode, pass, msgs, sock, freeList, allocated, got>>
      /\ pc[w] \in {"handler", "commit"} /\ pc'[Pruner] = pc[Pruner]
  BY ThreadsAssumption
     DEF Handle, EndCommit, NewChannel, Send, HandlerFails, Commit, CommitFails, memory,
         clientVars, pollVars, tableVars, world, pageVars, Goto, TypeOK, TypesOK, ThreadTypes
<1>2. pc[Pruner] # "boot"
  BY <1>1 DEF Control, Pruning
<1>3. /\ \A ch \in rows : Owned(ch)
      /\ \A v \in Workers : \A ch \in inserts[v] : Owned(ch)
  BY <1>2 DEF Data, ChannelsOwned
<1>4. CASE NewChannel(w)
  <2> DEFINE ch == [cli |-> slot[w], chn |-> nChannels[slot[w]], own |-> view[w]]
  <2>1. /\ pc[w] = "handler" /\ slot[w] # None /\ UNCHANGED <<rows, outbox>>
        /\ inserts' = [inserts EXCEPT ![w] = @ \cup {ch}]
    BY <1>4 DEF NewChannel, world
  <2>2. Owned(ch)
    BY <2>1 DEF Control, Users, Sending, Owned
  <2>3. \A v \in Workers : \A c \in inserts'[v] : c \in inserts[v] \/ c = ch
    BY <2>1 DEF TypeOK, TypesOK, ThreadTypes
  <2>4. Boxes'
    BY <1>1, <2>1, BoxFrame DEF Data, Boxes
  <2>5. ChannelsOwned'
    BY <1>1, <1>3, <2>1, <2>2, <2>3, OwnedFrame DEF ChannelsOwned
  <2> QED BY <1>1, <2>4, <2>5, QueuesFrame
<1>5. ASSUME NEW ch \in rows \cup inserts[w], Send(w, ch) PROVE Data'
  <2>1. /\ outbox' = [outbox EXCEPT ![w] = AddToDeltas(outbox[w], ch)]
        /\ UNCHANGED <<rows, inserts>>
    BY <1>5 DEF Send, requestVars
  <2>2. ch \in Channel /\ outbox[w] \in Seq(Delta) /\ Owned(ch) /\ Box(outbox[w])
    BY <1>3 DEF TypeOK, TypesOK, ThreadTypes, OtherTypes, Data, Boxes
  <2>3. Boxes'
    BY <1>1, <2>1, <2>2, AddToBox, BoxStep
  <2>4. ChannelsOwned'
    BY <1>1, <1>3, <2>1, OwnedFrame DEF ChannelsOwned
  <2> QED BY <1>1, <2>3, <2>4, QueuesFrame
<1>6. ASSUME \/ \E f \in Failure(w) : HandlerFails(w, f)
             \/ CommitFails(w)
      PROVE  Data'
  <2>1. /\ outbox' = [outbox EXCEPT ![w] = <<>>] /\ inserts' = [inserts EXCEPT ![w] = {}]
        /\ rows' \subseteq rows \cup inserts[w]
    BY <1>6, Zenon DEF HandlerFails, CommitFails, world
  <2>2. Boxes'
    BY <1>1, <2>1, EmptyBox, BoxStep
  <2>3. \A v \in Workers : inserts'[v] \subseteq inserts[v]
    BY <2>1 DEF TypeOK, TypesOK, ThreadTypes
  <2>4. ChannelsOwned'
    BY <1>1, <1>3, <2>1, <2>3, OwnedFrame DEF ChannelsOwned
  <2> QED BY <1>1, <2>2, <2>4, QueuesFrame
<1>7. CASE Commit(w)
  <2>1. /\ inserts' = [inserts EXCEPT ![w] = {}] /\ rows' = rows \cup inserts[w]
        /\ outbox' = outbox
    BY <1>7 DEF Commit
  <2>2. Boxes'
    BY <1>1, <2>1, BoxFrame DEF Data, Boxes
  <2>3. \A v \in Workers : inserts'[v] \subseteq inserts[v]
    BY <2>1 DEF TypeOK, TypesOK, ThreadTypes
  <2>4. ChannelsOwned'
    BY <1>1, <1>3, <2>1, <2>3, OwnedFrame DEF ChannelsOwned
  <2> QED BY <1>1, <2>2, <2>4, QueuesFrame
<1> QED BY <1>4, <1>5, <1>6, <1>7 DEF Handle, EndCommit

\* Messages go to the page that has the client, or to its buffer.
LEMMA DataOfDeliver ==
  ASSUME TypeOK, Control, Data, NEW t \in Threads, Deliver(t) PROVE Data'
<1> DEFINE d == Head(outbox[t])
           s == d.client
           block == Stamped(d.msgs, stamp[t])
<1>1. /\ outbox[t] # <<>> /\ ClientSend(s, block)
      /\ outbox' = [outbox EXCEPT ![t] = Tail(outbox[t])]
      /\ UNCHANGED <<mode, pass, freeList, allocated, rows, inserts, pc>>
  BY DEF Deliver, tableVars, requestVars
<1>2. /\ outbox[t] \in Seq(Delta) /\ stamp[t] \in Nat /\ Box(outbox[t])
      /\ msgs \in [Slots -> Seq(Message)] /\ sock \in [Slots -> Pages \cup {None}]
      /\ got \in [Pages -> Seq(Message)] /\ None \notin Pages
  BY ThreadsAssumption DEF TypeOK, TypesOK, ThreadTypes, ClientTypes, OtherTypes, Data, Boxes
<1>3. Box(Tail(outbox[t])) /\ d = outbox[t][1] /\ 1 \in DOMAIN outbox[t] /\ d \in Delta
  BY <1>1, <1>2, TailOfBox
<1>4. \A j \in DOMAIN d.msgs : d.msgs[j].cli = s /\ Owned(d.msgs[j])
  BY <1>2, <1>3 DEF Box
<1>5. s \in Slots /\ \A j \in DOMAIN d.msgs : d.msgs[j].own = pass[s]
  BY <1>3, <1>4 DEF Delta, Owned
<1>6. block \in Seq(Message) /\ \A i \in DOMAIN block : block[i].chan.own = pass[s]
  BY <1>2, <1>3, <1>5, BlockOwned
<1>7. Boxes'
  BY <1>1, <1>3, BoxStep
<1>8. ChannelsOwned'
  BY <1>1, OwnedFrame DEF Data, ChannelsOwned
<1>9. FreeSlots'
  BY <1>1 DEF Data, FreeSlots
<1> HIDE DEF d, s, block
<1>10. CASE mode[s] # "USED"
  BY <1>1, <1>7, <1>8, <1>9, <1>10 DEF ClientSend, Data, Clients, NoForeignDelivery
<1>11. CASE mode[s] = "USED" /\ sock[s] # None
  <2>1. sock' = [sock EXCEPT ![s] = None] /\ msgs' = msgs
    BY <1>1, <1>11 DEF ClientSend
  <2>2. sock[s] = pass[s] /\ sock[s] \in Pages
    BY <1>2, <1>5, <1>11 DEF Data, Clients
  <2>3. Clients'
    BY <1>1, <1>2, <2>1 DEF Data, Clients
  <2>4. NoForeignDelivery'
    <3>1. CASE got' = [got EXCEPT ![sock[s]] = @ \o block]
      <4>1. \A i \in DOMAIN (got[sock[s]] \o block) :
              (got[sock[s]] \o block)[i].chan.own = sock[s]
        BY <1>2, <1>6, <2>2, JoinedOwned DEF Data, NoForeignDelivery
      <4>2. \A p \in Pages : got'[p] = IF p = sock[s] THEN got[sock[s]] \o block ELSE got[p]
        BY <3>1, <1>2
      <4> QED BY <4>1, <4>2 DEF Data, NoForeignDelivery
    <3>2. CASE got' = got
      BY <3>2 DEF Data, NoForeignDelivery
    <3> QED BY <3>1, <3>2, <1>1, <1>11 DEF ClientSend
  <2> QED BY <1>7, <1>8, <1>9, <2>3, <2>4 DEF Data
<1>12. CASE mode[s] = "USED" /\ sock[s] = None
  <2>1. UNCHANGED <<sock, got>> /\ (msgs' = msgs \/ msgs' = [msgs EXCEPT ![s] = @ \o block])
    BY <1>1, <1>12 DEF ClientSend
  <2>2. \A i \in DOMAIN (msgs[s] \o block) : (msgs[s] \o block)[i].chan.own = pass[s]
    BY <1>2, <1>5, <1>6, <1>12, JoinedOwned DEF Data, Clients
  <2>3. CASE msgs' = [msgs EXCEPT ![s] = @ \o block]
    <3>1. \A r \in Slots : msgs'[r] = IF r = s THEN msgs[s] \o block ELSE msgs[r]
      BY <1>2, <2>3
    <3>2. Clients'
      BY <1>1, <2>1, <2>2, <3>1 DEF Data, Clients
    <3> QED BY <1>7, <1>8, <1>9, <2>1, <3>2 DEF Data, NoForeignDelivery
  <2>4. CASE msgs' = msgs
    BY <1>1, <1>7, <1>8, <1>9, <2>1, <2>4 DEF Data, Clients, NoForeignDelivery
  <2> QED BY <2>1, <2>3, <2>4
<1> QED BY <1>10, <1>11, <1>12

\* A page view gets a client that nothing is left of.
LEMMA DataOfNewClient ==
  ASSUME TypeOK, Control, Data, NEW w \in Workers, NEW s \in Slots, NEW p \in Pages,
         NewClient(w, s, p)
  PROVE  Data'
<1>1. /\ mode' = [mode EXCEPT ![s] = "USED"] /\ pass' = [pass EXCEPT ![s] = p]
      /\ msgs' = [msgs EXCEPT ![s] = <<>>] /\ sock' = [sock EXCEPT ![s] = None]
      /\ allocated' = allocated \cup {s} /\ freeList' = freeList \ {s}
      /\ UNCHANGED <<rows, inserts, outbox, got>>
      /\ s \in freeList \/ s \notin allocated
      /\ pc' = [pc EXCEPT ![w] = "pull"]
  BY DEF NewClient, Goto
<1>2. /\ mode \in [Slots -> {"UNUSED", "USED"}] /\ pass \in [Slots -> Pages \cup {None}]
      /\ msgs \in [Slots -> Seq(Message)] /\ sock \in [Slots -> Pages \cup {None}]
  BY DEF TypeOK, TypesOK, ClientTypes
<1>3. mode[s] = "UNUSED"
  BY <1>1 DEF Data, FreeSlots
<1>4. ASSUME NEW ch, Owned(ch) PROVE Owned(ch)'
  <2>1. ch.cli # s /\ mode'[ch.cli] = mode[ch.cli] /\ pass'[ch.cli] = pass[ch.cli]
    BY <1>1, <1>2, <1>3, <1>4 DEF Owned
  <2> QED BY <1>4, <2>1 DEF Owned
<1>5. Boxes'
  BY <1>1, <1>4 DEF Data, Boxes, Box
<1>6. ChannelsOwned'
  <2>1. pc'[Pruner] # "boot" => pc[Pruner] # "boot"
    BY <1>1, ThreadsAssumption DEF TypeOK, TypesOK, ThreadTypes, Threads
  <2> QED BY <1>1, <1>4, <2>1 DEF Data, ChannelsOwned
<1>7. Clients'
  BY <1>1, <1>2 DEF Data, Clients
<1>8. FreeSlots'
  BY <1>1, <1>2 DEF Data, FreeSlots
<1> QED BY <1>1, <1>5, <1>6, <1>7, <1>8 DEF Data, NoForeignDelivery

\* Steps of a worker that touch neither clients nor messages.
LEMMA DataOfWorker ==
  ASSUME TypeOK, Control, Data, NEW w \in Workers, Request(w) \/ Work(w) PROVE Data'
<1> USE DEF Threads, memory, clientVars, pollVars, useVars, tableVars, locks, threadVars,
            contextVars, requestVars, pruneVars, world, pageVars
<1> DEFINE Quiet == /\ UNCHANGED <<mode, pass, msgs, sock, freeList, allocated, got>>
                    /\ UNCHANGED <<rows, inserts, outbox>>
                    /\ \E l : pc' = [pc EXCEPT ![w] = l]
<1>1. ASSUME Quiet PROVE Data'
  <2>1. pc'[Pruner] = pc[Pruner]
    BY <1>1, ThreadsAssumption DEF TypeOK, TypesOK, ThreadTypes
  <2> QED BY <1>1, <2>1, DataFrame
<1>2. ASSUME \/ Request(w) \/ ArriveAgain(w) \/ SkipLogin(w) \/ RefuseLogin(w) \/ FindClient(w)
             \/ StartCommit(w) \/ FinishDelivery(w) \/ Release(w) \/ DepartAgain(w)
      PROVE  Data'
  <2>1. Quiet
    BY <1>2, Zenon DEF Request, ArriveAgain, SkipLogin, RefuseLogin, FindClient, StartCommit,
                FinishDelivery, Release, DepartAgain, Goto
  <2> QED BY <1>1, <2>1
<1>3. ASSUME Pull(w) \/ Depart(w) PROVE Data'
  <2>1. Quiet
    BY <1>3, Zenon DEF Pull, Depart, Goto
  <2> QED BY <1>1, <2>1
<1> QED BY <1>2, <1>3, DataOfHandler, DataOfDeliver, DataOfNewClient DEF Work, Login, Leaving

\* The pruner frees a client that nobody has a channel of any more.
LEMMA DataOfPruner ==
  ASSUME TypeOK, Control, Data, ExpungerAlone, ~CleanupErrors, Prune PROVE Data'
<1> USE DEF Threads, memory, clientVars, pollVars, useVars, tableVars, locks, threadVars,
            contextVars, requestVars, pruneVars, world, pageVars
<1> USE ThreadsAssumption
<1> DEFINE Quiet == /\ UNCHANGED <<mode, pass, msgs, sock, freeList, allocated, got>>
                    /\ UNCHANGED <<rows, inserts, outbox>>
<1>1. pc[Pruner] # "boot"
  BY DEF Prune, ExpungerArrives, Skip, Unlink, LeaveSend, StartCommit, Deliver, FinishDelivery,
         ExpungeCommit, ExpungeAgain, ExpungeLost, ExpungeBlocked, FreeClient, ExpungerDeparts
<1>2. ASSUME \/ ExpungerArrives \/ StartCommit(Pruner) \/ FinishDelivery(Pruner)
             \/ ExpungerDeparts \/ \E s \in Slots : Skip(s) \/ Unlink(s)
      PROVE  Data'
  <2>1. Quiet
    BY <1>2, Zenon DEF ExpungerArrives, StartCommit, FinishDelivery, ExpungerDeparts, Skip,
                       Unlink
  <2> QED BY <1>1, <2>1, DataFrame
<1>3. ASSUME NEW ch \in rows, LeaveSend(ch) PROVE Data'
  <2>1. /\ UNCHANGED <<mode, pass, msgs, sock, freeList, allocated, got, rows, inserts>>
        /\ outbox' = [outbox EXCEPT ![Pruner] = AddToDeltas(outbox[Pruner], ch)]
    BY <1>3 DEF LeaveSend
  <2>2. ch \in Channel /\ outbox[Pruner] \in Seq(Delta) /\ Owned(ch) /\ Box(outbox[Pruner])
    BY <1>1 DEF TypeOK, TypesOK, ThreadTypes, OtherTypes, Data, Boxes, ChannelsOwned
  <2>3. Boxes'
    BY <2>1, <2>2, AddToBox, BoxStep
  <2>4. ChannelsOwned'
    BY <1>1, <2>1, OwnedFrame DEF Data, ChannelsOwned
  <2> QED BY <2>1, <2>3, <2>4, QueuesFrame
<1>4. CASE ExpungeCommit
  <2>1. /\ UNCHANGED <<mode, pass, msgs, sock, freeList, allocated, got, outbox, inserts>>
        /\ rows' \subseteq rows
    BY <1>4 DEF ExpungeCommit
  <2>2. Boxes'
    BY <2>1, BoxFrame DEF Data, Boxes
  <2>3. ChannelsOwned'
    BY <1>1, <2>1, OwnedFrame DEF Data, ChannelsOwned
  <2> QED BY <2>1, <2>2, <2>3, QueuesFrame
<1>5. CASE ExpungeAgain \/ ExpungeBlocked
  <2>1. /\ UNCHANGED <<mode, pass, msgs, sock, freeList, allocated, got, rows, inserts>>
        /\ outbox' = [outbox EXCEPT ![Pruner] = <<>>]
    BY <1>5, Zenon DEF ExpungeAgain, ExpungeBlocked
  <2>2. Boxes'
    BY <2>1, EmptyBox, BoxStep
  <2>3. ChannelsOwned'
    BY <1>1, <2>1, OwnedFrame DEF Data, ChannelsOwned
  <2> QED BY <2>1, <2>2, <2>3, QueuesFrame
<1>6. CASE FreeClient
  <2>1. /\ pc[Pruner] = "free"
        /\ mode' = [mode EXCEPT ![victim] = "UNUSED"] /\ pass' = [pass EXCEPT ![victim] = None]
        /\ freeList' = freeList \cup {victim}
        /\ UNCHANGED <<msgs, sock, allocated, got, rows, inserts, outbox>>
    BY <1>6 DEF FreeClient
  <2>2. /\ mode \in [Slots -> {"UNUSED", "USED"}] /\ pass \in [Slots -> Pages \cup {None}]
    BY DEF TypeOK, TypesOK, ClientTypes
  <2>3. \A w \in Workers : pc[w] \notin Sending
    BY <2>1 DEF Control, Pruning, ExpungerAlone, InTransaction, Sending
  <2>4. \A t \in Threads : outbox[t] = <<>>
    BY <2>1, <2>3 DEF Control, Emptied, Sending
  <2>5. \A w \in Workers : inserts[w] = {}
    BY <2>3 DEF Control, Emptied, Sending
  <2>6. ASSUME NEW ch \in rows PROVE Owned(ch)'
    <3>1. ch.cli # victim /\ Owned(ch)
      BY <1>1, <2>1 DEF Control, Pruning, Data, ChannelsOwned
    <3>2. mode'[ch.cli] = mode[ch.cli] /\ pass'[ch.cli] = pass[ch.cli]
      BY <2>1, <2>2, <3>1
    <3> QED BY <3>1, <3>2 DEF Owned
  <2>7. Boxes'
    BY <2>1, <2>4, EmptyBox DEF Boxes, Box
  <2>8. ChannelsOwned'
    BY <2>1, <2>5, <2>6 DEF ChannelsOwned
  <2>9. Clients' /\ FreeSlots'
    BY <2>1, <2>2 DEF Data, Clients, FreeSlots
  <2> QED BY <2>1, <2>7, <2>8, <2>9 DEF Data, NoForeignDelivery
<1> QED BY <1>2, <1>3, <1>4, <1>5, <1>6, DataOfDeliver DEF Prune, ExpungeLost

\* The server starts and dies.
LEMMA OwnServer == ASSUME TypeOK, OwnInv, ~CleanupErrors, Initialize \/ Crash PROVE OwnInv'
<1> USE ThreadsAssumption DEF Threads
<1>1. CASE Initialize
  <2>1. /\ pc[Pruner] = "boot" /\ rows' = {} /\ pc' = [pc EXCEPT ![Pruner] = "sleep"]
        /\ UNCHANGED <<mode, pass, msgs, sock, freeList, allocated, got, inserts, outbox, slot>>
        /\ UNCHANGED <<writer, view, victim>>
    BY <1>1 DEF Initialize, InitialRows, Goto, memory, clientVars, pollVars, tableVars, locks,
                contextVars, requestVars, pruneVars, pageVars
  <2>2. \A w \in Workers : pc[w] = "idle" /\ pc'[w] = "idle"
    BY <2>1 DEF OwnInv, Control, Pruning, TypeOK, TypesOK, ThreadTypes
  <2>3. Control'
    BY <2>1, <2>2 DEF OwnInv, Control, Emptied, Users, Pruning, Sending, TypeOK, TypesOK,
                      ThreadTypes
  <2>4. \A w \in Workers : inserts'[w] = {}
    BY <2>1, <2>2 DEF OwnInv, Control, Emptied
  <2>5. Boxes' /\ ChannelsOwned'
    BY <2>1, <2>4, BoxFrame DEF OwnInv, Data, Boxes, ChannelsOwned
  <2> QED BY <2>1, <2>3, <2>5, QueuesFrame DEF OwnInv
<1>2. CASE Crash
  <2>1. Control'
    BY <1>2 DEF Crash, Control, Emptied, Users, Pruning, Sending
  <2>2. Boxes'
    BY <1>2 DEF Crash, Boxes, Box
  <2>3. ChannelsOwned' /\ Clients' /\ FreeSlots' /\ NoForeignDelivery'
    BY <1>2 DEF Crash, ChannelsOwned, Clients, FreeSlots, NoForeignDelivery, OwnInv, Data
  <2> QED BY <2>1, <2>2, <2>3 DEF OwnInv, Data
<1> QED BY <1>1, <1>2

\* A step that leaves threads alone.
LEMMA ControlFrame ==
  ASSUME Control, UNCHANGED <<pc, outbox, inserts, slot, view, writer, victim, rows>>,
         UNCHANGED <<mode, pass>>
  PROVE  Control'
BY DEF Control, Emptied, Users, Pruning

\* A poll takes what is in its client's buffer, or is parked there, if the client is its page's.
LEMMA OwnBrowser ==
  ASSUME TypeOK, OwnInv, (\E p \in Pages : Browse(p)) \/ (\E s \in Slots : Expire(s))
  PROVE  OwnInv'
<1>1. /\ UNCHANGED <<pc, outbox, inserts, slot, view, writer, victim, rows>>
      /\ UNCHANGED <<mode, pass, freeList, allocated>>
  <2> USE DEF memory, clientVars, useVars, tableVars, locks, threadVars, contextVars,
              requestVars, pruneVars
  <2>1. ASSUME NEW p \in Pages, Connect(p)
        PROVE  /\ UNCHANGED <<mode, pass, useVars, tableVars, locks, threadVars, pruneVars>>
               /\ UNCHANGED rows
    BY <2>1, Zenon DEF Connect
  <2>2. ASSUME NEW p \in Pages, HangUp(p) \/ Leave(p)
        PROVE  UNCHANGED <<memory, locks, threadVars, pruneVars, rows>>
    BY <2>2, Zenon DEF HangUp, Leave
  <2>3. ASSUME NEW s \in Slots, Expire(s)
        PROVE  UNCHANGED <<mode, pass, tableVars, locks, threadVars, pruneVars, rows>>
    BY <2>3, Zenon DEF Expire, world
  <2> QED BY <2>1, <2>2, <2>3 DEF Browse
<1>2. Control'
  BY <1>1, ControlFrame DEF OwnInv
<1>3. CASE UNCHANGED <<msgs, sock, got>>
  BY <1>1, <1>2, <1>3, DataFrame DEF OwnInv
<1>4. ASSUME NEW p \in Pages, Connect(p), ~UNCHANGED <<msgs, sock, got>> PROVE Data'
  <2> DEFINE s == at[p]
  <2>1. /\ s \in allocated /\ mode[s] = "USED" /\ pass[s] = p
        /\ IF Waiting(s)
           THEN /\ sock' = [sock EXCEPT ![s] = None]
                /\ got' = [got EXCEPT ![p] = @ \o msgs[s]]
                /\ msgs' = [msgs EXCEPT ![s] = <<>>]
           ELSE sock' = [sock EXCEPT ![s] = p] /\ UNCHANGED <<msgs, got>>
    BY <1>4, Zenon DEF Connect, pollVars
  <2>2. /\ s \in Slots /\ msgs \in [Slots -> Seq(Message)]
        /\ sock \in [Slots -> Pages \cup {None}] /\ got \in [Pages -> Seq(Message)]
    BY <2>1 DEF TypeOK, TypesOK, ClientTypes, OtherTypes
  <2>3. Boxes' /\ ChannelsOwned' /\ FreeSlots'
    BY <1>1, BoxFrame, OwnedFrame DEF OwnInv, Data, Boxes, ChannelsOwned, FreeSlots
  <2>4. \A i \in DOMAIN (got[p] \o msgs[s]) : (got[p] \o msgs[s])[i].chan.own = p
    BY <2>1, <2>2, JoinedOwned DEF OwnInv, Data, Clients, NoForeignDelivery
  <2>5. ASSUME NEW r \in Slots, mode'[r] = "USED"
        PROVE  /\ \A i \in DOMAIN msgs'[r] : msgs'[r][i].chan.own = pass'[r]
               /\ sock'[r] \in {None, pass'[r]}
    <3>1. /\ \A i \in DOMAIN msgs[r] : msgs[r][i].chan.own = pass'[r]
          /\ sock[r] \in {None, pass'[r]}
      BY <1>1, <2>5 DEF OwnInv, Data, Clients
    <3>2. msgs'[r] = msgs[r] \/ msgs'[r] = <<>>
      BY <2>1, <2>2
    <3>3. sock'[r] \in {sock[r], None} \/ (r = s /\ sock'[r] = p)
      BY <2>1, <2>2
    <3> QED BY <1>1, <2>1, <3>1, <3>2, <3>3
  <2>6. NoForeignDelivery'
    <3>1. \A q \in Pages : got'[q] = got[q] \/ (q = p /\ got'[q] = got[p] \o msgs[s])
      BY <2>1, <2>2
    <3> QED BY <2>4, <3>1 DEF OwnInv, Data, NoForeignDelivery
  <2> QED BY <2>3, <2>5, <2>6 DEF Data, Clients
<1>5. ASSUME (\E p \in Pages : HangUp(p) \/ Leave(p)) \/ (\E s \in Slots : Expire(s))
      PROVE  UNCHANGED <<msgs, sock, got>>
  <2>1. ASSUME NEW p \in Pages, HangUp(p) \/ Leave(p) PROVE UNCHANGED <<msgs, sock, got>>
    BY <2>1, Zenon DEF HangUp, Leave, memory, clientVars, pollVars
  <2>2. ASSUME NEW s \in Slots, Expire(s) PROVE UNCHANGED <<msgs, sock, got>>
    BY <2>2, Zenon DEF Expire, world, pageVars
  <2> QED BY <1>5, <2>1, <2>2
<1> QED BY <1>2, <1>3, <1>4, <1>5 DEF Browse, OwnInv

-----------------------------------------------------------------------------
(* The theorems.                                                            *)

LEMMA OwnInit == Init => OwnInv
BY ThreadsAssumption DEF Init, OwnInv, Control, Emptied, Users, Pruning, Sending, Threads, Data,
   FreeSlots, Clients, Boxes, Box, ChannelsOwned, NoForeignDelivery

LEMMA OwnStep ==
  ASSUME TypeOK, TypeOK', ExpungerAlone, ExpungerAlone', ~CleanupErrors, OwnInv, [Next]_vars
  PROVE  OwnInv'
<1>1. ASSUME NEW w \in Workers, Request(w) \/ Work(w) PROVE OwnInv'
  BY <1>1, ControlOfWorker, DataOfWorker DEF OwnInv, Data
<1>2. CASE Prune
  BY <1>2, ControlOfPruner, DataOfPruner DEF OwnInv
<1>3. CASE UNCHANGED vars
  <2>1. /\ UNCHANGED <<pc, outbox, inserts, slot, view, writer, victim, rows>>
        /\ UNCHANGED <<mode, pass, msgs, sock, freeList, allocated, got>>
    BY <1>3 DEF vars, memory, clientVars, pollVars, tableVars, locks, threadVars, contextVars,
                requestVars, pruneVars, world, pageVars
  <2> QED BY <2>1, ControlFrame, DataFrame DEF OwnInv
<1> QED BY <1>1, <1>2, <1>3, OwnServer, OwnBrowser DEF Next

\* The theorems need that the expunger is alone (ExpungerIsAlone), and that the statements
\* that delete channels are committed (see MessagingLostCleanup.cfg).
LEMMA OwnAlways == ~(OnError /\ CommitErrors) /\ ~CleanupErrors => (Spec => []OwnInv)
<1> SUFFICES ASSUME ~(OnError /\ CommitErrors), ~CleanupErrors PROVE Spec => []OwnInv
  OBVIOUS
<1>1. TypeOK /\ TypeOK' /\ ExpungerAlone /\ ExpungerAlone' /\ OwnInv /\ [Next]_vars => OwnInv'
  BY OwnStep
<1>2. Spec => []ExpungerAlone
  BY ExpungerIsAlone
<1> QED BY <1>1, <1>2, OwnInit, TypeCorrect, PTL DEF Spec

\* The expunger leaves no row, no running transaction and no queued message with a channel of
\* a client that it frees, so a client that gets the same id has none but its own.
THEOREM ChannelsAreOwned ==
  ~(OnError /\ CommitErrors) /\ ~CleanupErrors => (Spec => []ChannelsOwned)
<1> SUFFICES ASSUME ~(OnError /\ CommitErrors), ~CleanupErrors PROVE Spec => []ChannelsOwned
  OBVIOUS
<1>1. OwnInv => ChannelsOwned
  BY DEF OwnInv, Data
<1> QED BY <1>1, OwnAlways, PTL

\* Whatever id its client has had before, whatever is in flight when a client is freed or the
\* server restarts, and whichever poll takes it, a message reaches no page but its own.
THEOREM NoneIsForeign ==
  ~(OnError /\ CommitErrors) /\ ~CleanupErrors => (Spec => []NoForeignDelivery)
<1> SUFFICES ASSUME ~(OnError /\ CommitErrors), ~CleanupErrors PROVE Spec => []NoForeignDelivery
  OBVIOUS
<1>1. OwnInv => NoForeignDelivery
  BY DEF OwnInv, Data
<1> QED BY <1>1, OwnAlways, PTL

\* uw_commit never meets a message for a client that this process has not allocated, which
\* it asserts: a queue has a message, its channel is owned, and owned clients are allocated.
THEOREM ClientIsKnown ==
  ~(OnError /\ CommitErrors) /\ ~CleanupErrors => (Spec => []KnownClient)
<1> SUFFICES ASSUME ~(OnError /\ CommitErrors), ~CleanupErrors PROVE Spec => []KnownClient
  OBVIOUS
<1>1. TypeOK /\ OwnInv => KnownClient
  <2> SUFFICES ASSUME TypeOK, OwnInv, NEW t \in Threads, NEW i \in DOMAIN outbox[t]
               PROVE  outbox[t][i].client \in allocated
    BY DEF KnownClient
  <2>1. mode[outbox[t][i].client] = "USED"
    BY DEF OwnInv, Data, Boxes, Box, Owned
  <2>2. outbox[t][i] \in Delta
    BY DEF TypeOK, TypesOK, ThreadTypes
  <2> QED BY <2>1, <2>2 DEF OwnInv, Data, FreeSlots, Delta
<1> QED BY <1>1, OwnAlways, TypeCorrect, PTL

-----------------------------------------------------------------------------
(* Collecting.                                                              *)

\* The client that is being expunged has not been heard from.
Silent == pc[Pruner] \in {"handler", "commit", "deliver", "free"} => stale[victim]

\* While the pruner works, no request does more than depart for the second time.
LEMMA WorkersOutside ==
  ASSUME TypeOK, Control, ExpungerAlone, pc[Pruner] \notin {"boot", "sleep"},
         NEW w \in Workers, Request(w) \/ Work(w)
  PROVE  DepartAgain(w)
<1>1. writer /\ ~InTransaction(w)
  BY DEF Control, Pruning, ExpungerAlone
<1> QED
  BY <1>1 DEF InTransaction, Request, Work, ArriveAgain, Login, SkipLogin, RefuseLogin, NewClient,
              FindClient, Pull, Handle, NewChannel, Send, HandlerFails, StartCommit, EndCommit,
              Commit, CommitFails, Deliver, FinishDelivery, Leaving, Release, Depart

LEMMA SilentStep ==
  ASSUME TypeOK, TypeOK', ExpungerAlone, OwnInv, Silent, [Next]_vars PROVE Silent'
<1> USE DEF Silent, TypeOK, TypesOK, ClientTypes, ThreadTypes, ControlOK, Threads, Goto, memory,
            clientVars, pollVars, locks, threadVars, contextVars, requestVars, pruneVars, world
<1> USE ThreadsAssumption
<1>1. ASSUME NEW w \in Workers, Request(w) \/ Work(w) PROVE Silent'
  <2>1. pc'[Pruner] = pc[Pruner] /\ victim' = victim
    BY <1>1, SMTT(30) DEF Request, Work, ArriveAgain, Login, SkipLogin, RefuseLogin, NewClient, FindClient,
                Pull, Handle, NewChannel, Send, HandlerFails, StartCommit, EndCommit, Commit,
                CommitFails, Deliver, FinishDelivery, Leaving, Release, Depart, DepartAgain
  <2>2. CASE pc[Pruner] \in {"boot", "sleep"}
    BY <2>1, <2>2
  <2>3. CASE pc[Pruner] \notin {"boot", "sleep"}
    <3>1. stale' = stale
      BY <1>1, <2>3, WorkersOutside DEF OwnInv, DepartAgain
    <3> QED BY <2>1, <3>1
  <2> QED BY <2>2, <2>3
<1>2. CASE Initialize \/ Crash
  BY <1>2 DEF Initialize, Crash
<1>3. ASSUME NEW s \in Slots, Unlink(s) PROVE Silent'
  BY <1>3 DEF Unlink, Doomed
<1>4. CASE Prune /\ ~\E s \in Slots : Unlink(s)
  BY <1>4 DEF Prune, ExpungerArrives, Skip, LeaveSend, StartCommit, Deliver, FinishDelivery,
              ExpungeCommit, ExpungeAgain, ExpungeLost, ExpungeBlocked, FreeClient,
              ExpungerDeparts
<1>5. ASSUME NEW p \in Pages, Browse(p) PROVE Silent'
  <2>1. UNCHANGED <<pc, victim>>
    BY <1>5, Zenon DEF Browse, Connect, HangUp, Leave
  <2>2. \A s \in Slots : ~LockFree(s) => stale'[s] = stale[s]
    <3>1. stale' = stale \/ (LockFree(at[p]) /\ stale' = [stale EXCEPT ![at[p]] = FALSE])
      BY <1>5, Zenon DEF Browse, Connect, HangUp, Leave
    <3> QED BY <3>1, SMTT(30) DEF LockFree
  <2> QED BY <2>1, <2>2 DEF LockFree, OtherTypes
<1>6. ASSUME NEW s \in Slots, Expire(s) PROVE Silent'
  BY <1>6 DEF Expire
<1>7. CASE UNCHANGED vars
  BY <1>7 DEF vars
<1> QED BY <1>1, <1>2, <1>3, <1>4, <1>5, <1>6, <1>7 DEF Next

\* Only free_client collects.
LEMMA OnlyFreeClient ==
  ASSUME TypeOK, OwnInv, [Next]_vars, NEW s \in Slots, Collects(s)
  PROVE  FreeClient /\ s = victim
<1> USE DEF Collects, memory, clientVars, pollVars, useVars, tableVars, world, bounds
<1>1. mode \in [Slots -> {"UNUSED", "USED"}] /\ crashes \in Nat
  BY DEF TypeOK, TypesOK, ClientTypes, OtherTypes
<1>2. ASSUME NEW w \in Workers, Request(w) \/ Work(w) PROVE FALSE
  <2>1. mode' = mode \/ \E r \in Slots : mode' = [mode EXCEPT ![r] = "USED"]
    BY <1>2 DEF Request, Work, ArriveAgain, Login, SkipLogin, RefuseLogin, NewClient, FindClient,
                Pull, Handle, NewChannel, Send, HandlerFails, StartCommit, EndCommit, Commit,
                CommitFails, Deliver, FinishDelivery, Leaving, Release, Depart, DepartAgain
  <2> QED BY <1>1, <2>1
<1>3. ASSUME Initialize \/ Crash PROVE FALSE
  BY <1>1, <1>3 DEF Initialize, Crash
<1>4. ASSUME Prune, ~FreeClient PROVE FALSE
  <2>1. mode' = mode
    BY <1>4 DEF Prune, ExpungerArrives, Skip, Unlink, LeaveSend, StartCommit, Deliver,
                FinishDelivery, ExpungeCommit, ExpungeAgain, ExpungeLost, ExpungeBlocked,
                ExpungerDeparts
  <2> QED BY <2>1
<1>5. ASSUME (\E p \in Pages : Browse(p)) \/ (\E r \in Slots : Expire(r)) \/ UNCHANGED vars
      PROVE  FALSE
  <2>1. mode' = mode
    BY <1>5, Zenon DEF Browse, Connect, HangUp, Leave, Expire, vars
  <2> QED BY <2>1
<1>6. FreeClient
  BY <1>2, <1>3, <1>4, <1>5 DEF Next
<1>7. mode' = [mode EXCEPT ![victim] = "UNUSED"]
  BY <1>6 DEF FreeClient
<1> QED BY <1>1, <1>6, <1>7

\* A client is freed only if nobody has polled for it since the pruner has found it stale, no
\* request uses it and no row has a channel of it: uw_client_connect waits for the client's
\* lock, requests for the expunger.
THEOREM CollectsTheStale ==
  ~(OnError /\ CommitErrors) /\ ~CleanupErrors => (Spec => CollectedOnlyIfStale)
<1> SUFFICES ASSUME ~(OnError /\ CommitErrors), ~CleanupErrors PROVE Spec => CollectedOnlyIfStale
  OBVIOUS
<1> DEFINE Collected(s) == /\ stale[s]
                           /\ \A w \in Workers : slot[w] # s
                           /\ \A ch \in rows' : ch.cli # s
           A == \A s \in Slots : Collects(s) => Collected(s)
<1>1. ASSUME TypeOK, ExpungerAlone, OwnInv, Silent, [Next]_vars PROVE A
  <2> SUFFICES ASSUME NEW s \in Slots, Collects(s) PROVE Collected(s)
    OBVIOUS
  <2>1. FreeClient /\ s = victim
    BY <1>1, OnlyFreeClient
  <2>2. pc[Pruner] = "free" /\ rows' = rows
    BY <2>1 DEF FreeClient, world
  <2>3. stale[s] /\ \A ch \in rows : ch.cli # s
    BY <1>1, <2>1, <2>2 DEF Silent, OwnInv, Control, Pruning
  <2>4. ASSUME NEW w \in Workers PROVE slot[w] = None
    <3>1. ~InTransaction(w)
      BY <1>1, <2>2 DEF OwnInv, Control, Pruning, ExpungerAlone
    <3> QED BY <1>1, <3>1 DEF TypeOK, ControlOK, InTransaction, WorkerLabels
  <2>5. s # None
    BY ThreadsAssumption
  <2> QED BY <2>2, <2>3, <2>4, <2>5
<1>2. Init => Silent
  BY ThreadsAssumption DEF Init, Silent, Threads
<1>3. TypeOK /\ TypeOK' /\ ExpungerAlone /\ OwnInv /\ Silent /\ [Next]_vars => Silent'
  BY SilentStep
<1>4. Spec => []OwnInv /\ []ExpungerAlone
  BY OwnAlways, ExpungerIsAlone
<1>5. TypeOK /\ ExpungerAlone /\ OwnInv /\ Silent /\ [Next]_vars => [A]_vars
  BY <1>1
<1>6. [][A]_vars => CollectedOnlyIfStale
  BY DEF CollectedOnlyIfStale
<1> HIDE DEF A
<1> QED BY <1>2, <1>3, <1>4, <1>5, <1>6, TypeCorrect, PTL DEF Spec

-----------------------------------------------------------------------------
(* Parked polls.                                                            *)

\* client_send and uw_client_connect each look at the other's half under the client's lock,
\* so no poll is parked next to a message, whatever fails and whoever holds the expunge lock.
THEOREM MailIsAwake == Spec => []NoSleepingMail
<1> USE DEF memory, clientVars, pollVars, useVars, world
<1>1. Init => NoSleepingMail
  BY DEF Init, NoSleepingMail
<1>2. TypeOK /\ NoSleepingMail /\ [Next]_vars => NoSleepingMail'
  <2> SUFFICES ASSUME TypeOK, NoSleepingMail, [Next]_vars PROVE NoSleepingMail'
    OBVIOUS
  <2>1. /\ mode \in [Slots -> {"UNUSED", "USED"}] /\ msgs \in [Slots -> Seq(Message)]
        /\ sock \in [Slots -> Pages \cup {None}]
    BY DEF TypeOK, TypesOK, ClientTypes
  <2>2. CASE UNCHANGED <<mode, msgs, sock>>
    BY <2>2 DEF NoSleepingMail
  <2>3. ASSUME NEW t \in Threads, Deliver(t) PROVE NoSleepingMail'
    <3> DEFINE s == Head(outbox[t]).client
               block == Stamped(Head(outbox[t]).msgs, stamp[t])
    <3>1. mode' = mode /\ ClientSend(s, block)
      BY <2>3 DEF Deliver
    <3> HIDE DEF s, block
    <3>2. \/ UNCHANGED <<msgs, sock>>
          \/ msgs' = msgs /\ sock' = [sock EXCEPT ![s] = None]
          \/ /\ sock[s] = None /\ sock' = sock
             /\ \E b : msgs' = [msgs EXCEPT ![s] = b]
      BY <3>1, Zenon DEF ClientSend
    <3> QED BY <2>1, <3>1, <3>2 DEF NoSleepingMail
  <2>4. ASSUME NEW p \in Pages, Connect(p) PROVE NoSleepingMail'
    <3>1. mode' = mode
      BY <2>4 DEF Connect
    <3>2. \/ UNCHANGED <<msgs, sock>>
          \/ sock' = [sock EXCEPT ![at[p]] = None] /\ msgs' = [msgs EXCEPT ![at[p]] = <<>>]
          \/ /\ sock' = [sock EXCEPT ![at[p]] = p] /\ msgs' = msgs
             /\ msgs[at[p]] = <<>>
      BY <2>4, Zenon DEF Connect, Waiting
    <3> QED BY <2>1, <3>1, <3>2 DEF NoSleepingMail
  <2>5. ASSUME NEW w \in Workers, NEW s \in Slots, NEW p \in Pages, NewClient(w, s, p)
        PROVE  NoSleepingMail'
    BY <2>1, <2>5 DEF NewClient, NoSleepingMail
  <2>6. CASE Crash
    BY <2>6 DEF Crash, NoSleepingMail
  <2>7. CASE FreeClient
    BY <2>1, <2>7 DEF FreeClient, NoSleepingMail
  <2>8. ASSUME NEW w \in Workers, Request(w) \/ Work(w), ~Deliver(w),
               ~\E s \in Slots, p \in Pages : NewClient(w, s, p)
        PROVE  UNCHANGED <<mode, msgs, sock>>
    BY <2>8 DEF Request, Work, ArriveAgain, Login, SkipLogin, RefuseLogin, FindClient, Pull,
                Handle, NewChannel, Send, HandlerFails, StartCommit, EndCommit, Commit,
                CommitFails, FinishDelivery, Leaving, Release, Depart, DepartAgain
  <2>9. ASSUME Prune, ~Deliver(Pruner), ~FreeClient PROVE UNCHANGED <<mode, msgs, sock>>
    BY <2>9 DEF Prune, ExpungerArrives, Skip, Unlink, LeaveSend, StartCommit, FinishDelivery,
                ExpungeCommit, ExpungeAgain, ExpungeLost, ExpungeBlocked, ExpungerDeparts
  <2>10. ASSUME \/ Initialize \/ (\E p \in Pages : HangUp(p) \/ Leave(p))
                \/ (\E s \in Slots : Expire(s)) \/ UNCHANGED vars
         PROVE  UNCHANGED <<mode, msgs, sock>>
    BY <2>10, Zenon DEF Initialize, HangUp, Leave, Expire, vars
  <2> QED BY <2>2, <2>3, <2>4, <2>5, <2>6, <2>7, <2>8, <2>9, <2>10 DEF Next, Browse, Threads
<1> QED BY <1>1, <1>2, TypeCorrect, PTL DEF Spec

-----------------------------------------------------------------------------
(* The order of messages.                                                   *)

\* message_send_mutex belongs to the one transaction that may send: from its StartCommit,
\* if it has messages, to the end of its delivery, and its place is the last one.
SoleSender ==
  \A t \in Threads :
    /\ outbox[t] # <<>> => pc[t] \in {"handler", "commit", "deliver"}
    /\ outbox[t] # <<>> /\ pc[t] # "handler" => msgMutex = t
    /\ outbox[t] # <<>> /\ pc[t] = "deliver" => stamp[t] # 0
    /\ stamp[t] # 0 => pc[t] = "deliver" /\ msgMutex = t /\ stamp[t] = commits

\* No message is of a transaction that has not committed.
UpTo(ms, n) == \A i \in DOMAIN ms : ms[i].txn <= n
Past == /\ \A p \in Pages : UpTo(got[p], commits)
        /\ \A s \in Slots : UpTo(msgs[s], commits)

\* A client and its page know each other; a page that does not exist yet has nothing.
Views ==
  /\ \A s \in Slots : mode[s] = "USED" =>
       /\ pass[s] \in Pages /\ tab[pass[s]] # "unborn" /\ at[pass[s]] = s
       /\ sock[s] \in {None, pass[s]}
  /\ \A p \in Pages : tab[p] = "unborn" => got[p] = <<>>

\* What the page of a client has got, and what waits for it.
Mail(s) == got[pass[s]] \o msgs[s]
InOrder(ms) ==
  \A i, j \in DOMAIN ms :
    i < j => \/ ms[i].txn < ms[j].txn
             \/ ms[i].txn = ms[j].txn /\ ms[i].pos < ms[j].pos
Ordered == \A s \in Slots : mode[s] = "USED" => InOrder(Mail(s))

\* A transaction keeps one queue per client, and a client it has still to send to has
\* nothing of it.
Apart(ds) == \A i, j \in DOMAIN ds : ds[i].client = ds[j].client => i = j
Before(ms, n) == \A i \in DOMAIN ms : ms[i].txn < n
Unsent ==
  \A t \in Threads :
    /\ Apart(outbox[t])
    /\ stamp[t] # 0 => \A i \in DOMAIN outbox[t] :
         LET s == outbox[t][i].client IN mode[s] = "USED" => Before(Mail(s), stamp[t])

\* COMMIT gives a transaction the last place; nobody else who has one still sends.
LEMMA SolePlace ==
  ASSUME TypeOK, SoleSender, NEW t \in Threads, pc[t] = "commit", TakePlace(t),
         pc' = [pc EXCEPT ![t] = "deliver"], UNCHANGED <<outbox, msgMutex>>
  PROVE  SoleSender'
<1> USE DEF TypeOK, TypesOK, ThreadTypes, OtherTypes
<1>1. \A u \in Threads : u # t => pc'[u] = pc[u]
  OBVIOUS
<1>2. pc'[t] = "deliver" /\ stamp[t] = 0
  BY DEF SoleSender
<1>3. CASE outbox[t] = <<>>
  BY <1>1, <1>2, <1>3 DEF TakePlace, SoleSender
<1>4. CASE outbox[t] # <<>>
  <2>1. commits' = commits + 1 /\ stamp' = [stamp EXCEPT ![t] = commits + 1] /\ msgMutex = t
    BY <1>4 DEF TakePlace, SoleSender
  <2>2. stamp'[t] = commits' /\ stamp'[t] # 0 /\ \A u \in Threads : u # t => stamp'[u] = stamp[u]
    BY <2>1
  <2>3. \A u \in Threads : u # t => stamp[u] = 0
    BY <2>1 DEF SoleSender
  <2> QED BY <1>1, <1>2, <2>1, <2>2, <2>3 DEF SoleSender
<1> QED BY <1>3, <1>4

\* The order of the messages is kept whatever fails, also next to the expunger.
LEMMA SoleWorker ==
  ASSUME TypeOK, SoleSender, NEW w \in Workers, Request(w) \/ Work(w)
  PROVE  SoleSender'
<1> USE DEF TypeOK, TypesOK, ThreadTypes, OtherTypes, Threads, Goto
<1> USE DEF memory, locks, threadVars, contextVars, requestVars, pruneVars, world, bounds
<1>1. CASE Request(w)
  BY <1>1 DEF Request, SoleSender
<1>2. CASE ArriveAgain(w)
  BY <1>2 DEF ArriveAgain, SoleSender
<1>3. CASE Login(w)
  <2>1. /\ UNCHANGED <<outbox, stamp, msgMutex, commits>> /\ pc[w] = "login"
        /\ \E l \in {"handler", "depart", "pull"} : pc' = [pc EXCEPT ![w] = l]
    BY <1>3 DEF Login, SkipLogin, RefuseLogin, NewClient, FindClient
  <2> QED BY <2>1 DEF SoleSender
<1>4. CASE Pull(w)
  BY <1>4 DEF Pull, SoleSender
<1>5. CASE NewChannel(w)
  BY <1>5 DEF NewChannel, SoleSender
<1>6. ASSUME NEW ch, Send(w, ch) PROVE SoleSender'
  BY <1>6 DEF Send, SoleSender
<1>7. ASSUME NEW f, HandlerFails(w, f) PROVE SoleSender'
  BY <1>7 DEF HandlerFails, SoleSender, AfterTransaction
<1>8. CASE StartCommit(w)
  BY <1>8, ThreadsAssumption DEF StartCommit, SoleSender, Lock
<1>9. CASE Commit(w)
  <2>1. /\ pc[w] = "commit" /\ TakePlace(w) /\ pc' = [pc EXCEPT ![w] = "deliver"]
        /\ UNCHANGED <<outbox, msgMutex>>
    BY <1>9 DEF Commit, Holder
  <2>2. w \in Threads
    OBVIOUS
  <2> HIDE DEF TypeOK, Threads
  <2> QED BY <2>1, <2>2, SolePlace
<1>10. CASE CommitFails(w)
  BY <1>10 DEF CommitFails, SoleSender, Unlock, AfterTransaction
<1>11. CASE Deliver(w)
  BY <1>11 DEF Deliver, SoleSender
<1>12. CASE FinishDelivery(w)
  BY <1>12 DEF FinishDelivery, SoleSender, AfterTransaction
<1>13. CASE Leaving(w)
  <2>1. /\ UNCHANGED <<outbox, stamp, msgMutex, commits>> /\ pc[w] \in {"release", "depart", "rollback"}
        /\ \E l \in {"idle", "arrive", "depart", "rollback"} : pc' = [pc EXCEPT ![w] = l]
    BY <1>13 DEF Leaving, Release, Depart, DepartAgain
  <2> QED BY <2>1 DEF SoleSender
<1> QED BY <1>1, <1>2, <1>3, <1>4, <1>5, <1>6, <1>7, <1>8, <1>9, <1>10, <1>11, <1>12, <1>13
        DEF Work, Handle, EndCommit

LEMMA SolePruner == ASSUME TypeOK, SoleSender, Prune PROVE SoleSender'
<1> USE DEF TypeOK, TypesOK, ThreadTypes, OtherTypes, Threads, Goto
<1> USE DEF memory, locks, threadVars, contextVars, requestVars, pruneVars, world, bounds
<1>1. CASE ExpungerArrives
  BY <1>1 DEF ExpungerArrives, SoleSender
<1>2. ASSUME NEW s \in Slots, Skip(s) \/ Unlink(s) PROVE SoleSender'
  BY <1>2 DEF Skip, Unlink, SoleSender
<1>3. ASSUME NEW ch \in rows, LeaveSend(ch) PROVE SoleSender'
  BY <1>3 DEF LeaveSend, SoleSender
<1>4. CASE StartCommit(Pruner)
  BY <1>4, ThreadsAssumption DEF StartCommit, SoleSender, Lock
<1>5. CASE Deliver(Pruner)
  BY <1>5 DEF Deliver, SoleSender
<1>6. CASE FinishDelivery(Pruner)
  BY <1>6 DEF FinishDelivery, SoleSender
<1>7. CASE ExpungeCommit
  <2>1. /\ pc[Pruner] = "commit" /\ TakePlace(Pruner) /\ pc' = [pc EXCEPT ![Pruner] = "deliver"]
        /\ UNCHANGED <<outbox, msgMutex>>
    BY <1>7 DEF ExpungeCommit
  <2>2. Pruner \in Threads
    OBVIOUS
  <2> HIDE DEF TypeOK, Threads
  <2> QED BY <2>1, <2>2, SolePlace
<1>8. CASE ExpungeAgain \/ ExpungeLost
  BY <1>8 DEF ExpungeAgain, ExpungeLost, SoleSender, Unlock
<1>9. CASE ExpungeBlocked
  BY <1>9 DEF ExpungeBlocked, SoleSender
<1>10. CASE FreeClient \/ ExpungerDeparts
  BY <1>10 DEF FreeClient, ExpungerDeparts, SoleSender
<1> QED BY <1>1, <1>2, <1>3, <1>4, <1>5, <1>6, <1>7, <1>8, <1>9, <1>10 DEF Prune

LEMMA SoleStep == ASSUME TypeOK, SoleSender, [Next]_vars PROVE SoleSender'
<1> USE DEF memory, locks, threadVars, contextVars, requestVars, pruneVars, world, bounds
<1>1. CASE Initialize
  BY <1>1 DEF Initialize, SoleSender, TypeOK, TypesOK, ThreadTypes, Threads, Goto
<1>2. CASE Crash
  BY <1>2 DEF Crash, SoleSender
<1>3. CASE (\E p \in Pages : Browse(p)) \/ (\E s \in Slots : Expire(s)) \/ UNCHANGED vars
  <2>1. UNCHANGED <<outbox, stamp, msgMutex, commits, pc>>
    BY <1>3 DEF Browse, Connect, HangUp, Leave, Expire, vars
  <2> QED BY <2>1 DEF SoleSender
<1> QED BY <1>1, <1>2, <1>3, SoleWorker, SolePruner DEF Next

\* Lists of messages.
LEMMA JoinIs ==
  ASSUME NEW a \in Seq(Message), NEW b \in Seq(Message)
  PROVE  /\ a \o b \in Seq(Message)
         /\ \A i \in DOMAIN (a \o b) :
              \/ i \in DOMAIN a /\ (a \o b)[i] = a[i]
              \/ /\ i - Len(a) \in DOMAIN b /\ (a \o b)[i] = b[i - Len(a)]
                 /\ i \in Nat /\ Len(a) \in Nat /\ i > Len(a)
OBVIOUS

LEMMA PartsOfJoin ==
  ASSUME NEW a \in Seq(Message), NEW b \in Seq(Message), NEW n \in Nat
  PROVE  /\ UpTo(a, n) /\ UpTo(b, n) => UpTo(a \o b, n)
         /\ Before(a, n) /\ Before(b, n) => Before(a \o b, n)
BY JoinIs DEF UpTo, Before

LEMMA InOrderJoin ==
  ASSUME NEW a \in Seq(Message), NEW b \in Seq(Message), NEW n \in Nat,
         InOrder(a), Before(a, n), InOrder(b), \A i \in DOMAIN b : b[i].txn = n
  PROVE  InOrder(a \o b)
<1> DEFINE c == a \o b
<1> SUFFICES ASSUME NEW i \in DOMAIN c, NEW j \in DOMAIN c, i < j
             PROVE  \/ c[i].txn < c[j].txn
                    \/ c[i].txn = c[j].txn /\ c[i].pos < c[j].pos
  BY DEF InOrder
<1>1. /\ i \in Nat /\ j \in Nat /\ Len(a) \in Nat
      /\ DOMAIN a = 1..Len(a) /\ DOMAIN b = 1..Len(b) /\ Len(b) \in Nat
  OBVIOUS
<1>2. /\ \/ i \in DOMAIN a /\ c[i] = a[i]
         \/ i - Len(a) \in DOMAIN b /\ c[i] = b[i - Len(a)] /\ i > Len(a)
      /\ \/ j \in DOMAIN a /\ c[j] = a[j]
         \/ j - Len(a) \in DOMAIN b /\ c[j] = b[j - Len(a)] /\ j > Len(a)
  BY JoinIs
<1> HIDE DEF c
<1>3. CASE i \in DOMAIN a /\ c[i] = a[i] /\ j \in DOMAIN a /\ c[j] = a[j]
  BY <1>3 DEF InOrder
<1>4. CASE i \in DOMAIN a /\ c[i] = a[i] /\ j - Len(a) \in DOMAIN b /\ c[j] = b[j - Len(a)]
  BY <1>4 DEF Before
<1>5. CASE /\ i - Len(a) \in DOMAIN b /\ c[i] = b[i - Len(a)]
           /\ j - Len(a) \in DOMAIN b /\ c[j] = b[j - Len(a)]
  <2>1. i - Len(a) < j - Len(a)
    BY <1>1
  <2> QED BY <1>5, <2>1 DEF InOrder
<1>6. ~(i > Len(a) /\ j \in DOMAIN a)
  BY <1>1
<1> QED BY <1>2, <1>3, <1>4, <1>5, <1>6

\* The block that client_send appends.
LEMMA BlockIs ==
  ASSUME NEW d \in Delta, NEW n \in Nat
  PROVE  LET b == Stamped(d.msgs, n) IN
         b \in Seq(Message) /\ InOrder(b) /\ \A i \in DOMAIN b : b[i].txn = n
<1> DEFINE b == Stamped(d.msgs, n)
<1>1. d.msgs \in Seq(Channel)
  BY DEF Delta
<1>2. b \in Seq(Message)
  BY <1>1, StampedType
<1>3. b = [i \in 1..Len(d.msgs) |-> [chan |-> d.msgs[i], txn |-> n, pos |-> i]]
  BY Zenon DEF Stamped
<1>4. \A i \in DOMAIN b : b[i].txn = n /\ b[i].pos = i
  BY <1>1, <1>3
<1> HIDE DEF b
<1>5. InOrder(b)
  BY <1>4 DEF InOrder
<1> QED BY <1>2, <1>4, <1>5 DEF b

LEMMA ApartAdd ==
  ASSUME NEW ds \in Seq(Delta), NEW ch \in Channel, Apart(ds)
  PROVE  Apart(AddToDeltas(ds, ch))
<1> DEFINE es == AddToDeltas(ds, ch)
<1>1. CASE \E k \in DOMAIN ds : ds[k].client = ch.cli
  <2>1. /\ DOMAIN es = DOMAIN ds
        /\ \A i \in DOMAIN ds : es[i] = IF ds[i].client = ch.cli
             THEN [ds[i] EXCEPT !.msgs = Append(ds[i].msgs, ch)] ELSE ds[i]
    BY <1>1, Zenon DEF AddToDeltas
  <2>2. \A i \in DOMAIN ds : es[i].client = ds[i].client
    <3> SUFFICES ASSUME NEW i \in DOMAIN ds PROVE es[i].client = ds[i].client
      OBVIOUS
    <3>1. ds[i] \in Delta
      OBVIOUS
    <3> HIDE DEF es
    <3> QED BY <2>1, <3>1 DEF Delta
  <2> HIDE DEF es
  <2> QED BY <2>1, <2>2 DEF Apart, es
<1>2. CASE ~\E k \in DOMAIN ds : ds[k].client = ch.cli
  <2>1. es = Append(ds, [client |-> ch.cli, msgs |-> <<ch>>])
    BY <1>2, Zenon DEF AddToDeltas
  <2>2. /\ DOMAIN es = 1..(Len(ds) + 1) /\ DOMAIN ds = 1..Len(ds) /\ Len(ds) \in Nat
        /\ \A i \in DOMAIN ds : es[i] = ds[i]
        /\ es[Len(ds) + 1].client = ch.cli
    BY <2>1
  <2> HIDE DEF es
  <2>3. Apart(es)
    BY <1>2, <2>2 DEF Apart
  <2> QED BY <2>3 DEF es
<1> QED BY <1>1, <1>2

LEMMA ApartTail ==
  ASSUME NEW ds \in Seq(Delta), ds # <<>>, Apart(ds)
  PROVE  /\ Apart(Tail(ds)) /\ Head(ds) = ds[1] /\ 1 \in DOMAIN ds /\ Head(ds) \in Delta
         /\ \A i \in DOMAIN Tail(ds) :
              /\ Tail(ds)[i].client # Head(ds).client
              /\ i + 1 \in DOMAIN ds /\ Tail(ds)[i] = ds[i + 1]
<1>1. /\ Head(ds) = ds[1] /\ 1 \in DOMAIN ds /\ Head(ds) \in Delta
      /\ DOMAIN Tail(ds) = 1..(Len(ds) - 1) /\ DOMAIN ds = 1..Len(ds) /\ Len(ds) \in Nat
      /\ \A i \in DOMAIN Tail(ds) : Tail(ds)[i] = ds[i + 1] /\ i + 1 \in DOMAIN ds /\ i \in Nat \ {0}
  OBVIOUS
<1>2. \A i \in DOMAIN Tail(ds) : Tail(ds)[i].client # Head(ds).client
  BY <1>1 DEF Apart
<1>3. Apart(Tail(ds))
  <2> SUFFICES ASSUME NEW i \in DOMAIN Tail(ds), NEW j \in DOMAIN Tail(ds),
                      Tail(ds)[i].client = Tail(ds)[j].client
               PROVE  i = j
    BY DEF Apart
  <2>1. i + 1 = j + 1 /\ i \in Nat /\ j \in Nat
    BY <1>1 DEF Apart
  <2> QED BY <2>1
<1> QED BY <1>1, <1>2, <1>3

\* Mail and the lists that it is made of.
LEMMA MailIs ==
  ASSUME TypeOK, Views, NEW s \in Slots, mode[s] = "USED"
  PROVE  /\ pass[s] \in Pages /\ got[pass[s]] \in Seq(Message) /\ msgs[s] \in Seq(Message)
         /\ Mail(s) \in Seq(Message)
<1>1. pass[s] \in Pages /\ got[pass[s]] \in Seq(Message) /\ msgs[s] \in Seq(Message)
  BY DEF TypeOK, TypesOK, ClientTypes, OtherTypes, Views
<1> QED BY <1>1, JoinIs DEF Mail

\* Every message is older than one that is sent next.
LEMMA PastMail ==
  ASSUME TypeOK, Views, Past, NEW s \in Slots, mode[s] = "USED"
  PROVE  Before(Mail(s), commits + 1)
<1>1. commits \in Nat
  BY DEF TypeOK, TypesOK, OtherTypes
<1>2. Mail(s) \in Seq(Message) /\ UpTo(Mail(s), commits)
  BY <1>1, MailIs, PartsOfJoin DEF Past, Mail
<1>3. PICK m \in Seq(Message) : m = Mail(s)
  BY <1>2
<1>4. \A i \in DOMAIN m : m[i].txn \in Nat
  <2>1. \A i \in DOMAIN m : m[i] \in Message
    OBVIOUS
  <2> QED BY <2>1 DEF Message
<1>5. Before(m, commits + 1)
  BY <1>1, <1>2, <1>3, <1>4 DEF UpTo, Before
<1> QED BY <1>3, <1>5

\* Clients keep their mail, or are new, or are gone.
LEMMA MailStep ==
  ASSUME TypeOK, Ordered, Unsent, UNCHANGED <<outbox, stamp>>,
         \A s \in Slots : mode'[s] = "USED" =>
           \/ mode[s] = "USED" /\ Mail(s)' = Mail(s)
           \/ Mail(s)' = <<>>
  PROVE  Ordered' /\ Unsent'
<1>1. InOrder(<<>>) /\ \A n : Before(<<>>, n)
  BY DEF InOrder, Before
<1>2. Ordered'
  <2> SUFFICES ASSUME NEW s \in Slots, mode'[s] = "USED" PROVE InOrder(Mail(s)')
    BY DEF Ordered, InOrder, Mail
  <2> QED BY <1>1 DEF Ordered
<1>3. Unsent'
  <2> SUFFICES ASSUME NEW t \in Threads
               PROVE  /\ Apart(outbox[t])
                      /\ stamp[t] # 0 => \A i \in DOMAIN outbox[t] :
                           mode'[outbox[t][i].client] = "USED"
                             => Before(Mail(outbox[t][i].client)', stamp[t])
    BY ZenonT(40) DEF Unsent, Before, Mail
  <2>1. Apart(outbox[t])
    BY DEF Unsent
  <2>2. ASSUME stamp[t] # 0, NEW i \in DOMAIN outbox[t], mode'[outbox[t][i].client] = "USED"
        PROVE  Before(Mail(outbox[t][i].client)', stamp[t])
    <3>1. outbox[t][i].client \in Slots
      <4>1. PICK ds \in Seq(Delta) : ds = outbox[t]
        BY DEF TypeOK, TypesOK, ThreadTypes
      <4>2. ds[i] \in Delta
        BY <4>1
      <4> QED BY <4>1, <4>2 DEF Delta
    <3>2. PICK s \in Slots : s = outbox[t][i].client
      BY <3>1
    <3>3. mode[s] = "USED" => Before(Mail(s), stamp[t])
      BY <2>2, <3>2 DEF Unsent
    <3>4. Before(Mail(s)', stamp[t])
      BY <1>1, <2>2, <3>2, <3>3
    <3> QED BY <3>2, <3>4 DEF Mail
  <2> QED BY <2>1, <2>2
<1> QED BY <1>2, <1>3

\* What a step that leaves all mail alone does to one transaction.
Turn(t) ==
  \/ outbox'[t] = outbox[t] /\ stamp'[t] \in {stamp[t], commits + 1}
  \/ outbox'[t] = <<>>
  \/ stamp'[t] = 0 /\ \E ch \in Channel : outbox'[t] = AddToDeltas(outbox[t], ch)

Quiet ==
  /\ UNCHANGED <<mode, pass, msgs, sock, got, at>>
  /\ \A p \in Pages : tab[p] = "unborn" <=> tab'[p] = "unborn"
  /\ commits' \in {commits, commits + 1}
  /\ \A t \in Threads : Turn(t)

LEMMA QuietStep ==
  ASSUME TypeOK, Past, Views, Ordered, Unsent, Quiet
  PROVE  Past' /\ Views' /\ Ordered' /\ Unsent'
<1> USE DEF Quiet
<1>1. commits \in Nat /\ stamp \in [Threads -> Nat] /\ outbox \in [Threads -> Seq(Delta)]
  BY DEF TypeOK, TypesOK, OtherTypes, ThreadTypes
<1>2. Past'
  <2>1. \A ms \in Seq(Message) : UpTo(ms, commits) => UpTo(ms, commits')
    <3> SUFFICES ASSUME NEW ms \in Seq(Message), UpTo(ms, commits), NEW i \in DOMAIN ms
                 PROVE  ms[i].txn <= commits'
      BY DEF UpTo
    <3>1. ms[i] \in Message /\ ms[i].txn <= commits
      BY DEF UpTo
    <3>2. ms[i].txn \in Nat
      BY <3>1 DEF Message
    <3> QED BY <1>1, <3>1, <3>2
  <2>2. /\ \A p \in Pages : got[p] \in Seq(Message) /\ got'[p] = got[p]
        /\ \A s \in Slots : msgs[s] \in Seq(Message) /\ msgs'[s] = msgs[s]
    BY DEF TypeOK, TypesOK, ClientTypes, OtherTypes
  <2> QED BY <2>1, <2>2 DEF Past, UpTo
<1>3. Views'
  BY DEF Views
<1>4. \A s \in Slots : Mail(s)' = Mail(s)
  BY DEF Mail
<1>5. Ordered'
  <2> SUFFICES ASSUME NEW s \in Slots, mode'[s] = "USED" PROVE InOrder(Mail(s)')
    BY DEF Ordered, InOrder, Mail
  <2> QED BY <1>4 DEF Ordered
<1>6. Unsent'
  <2> SUFFICES ASSUME NEW t \in Threads
               PROVE  /\ Apart(outbox'[t])
                      /\ stamp'[t] # 0 => \A i \in DOMAIN outbox'[t] :
                           mode[outbox'[t][i].client] = "USED"
                             => Before(Mail(outbox'[t][i].client), stamp'[t])
    BY DEF Unsent, Before, Mail, Apart
  <2>1. CASE outbox'[t] = <<>>
    BY <2>1 DEF Apart
  <2>2. CASE stamp'[t] = 0 /\ \E ch \in Channel : outbox'[t] = AddToDeltas(outbox[t], ch)
    BY <1>1, <2>2, ApartAdd DEF Unsent
  <2>3. CASE outbox'[t] = outbox[t] /\ stamp'[t] = stamp[t]
    BY <2>3 DEF Unsent
  <2>4. CASE outbox'[t] = outbox[t] /\ stamp'[t] = commits + 1
    <3>1. ASSUME NEW i \in DOMAIN outbox[t], mode[outbox[t][i].client] = "USED"
          PROVE  Before(Mail(outbox[t][i].client), commits + 1)
      <4>1. PICK ds \in Seq(Delta) : ds = outbox[t]
        BY <1>1
      <4>2. ds[i] \in Delta
        BY <4>1
      <4>3. outbox[t][i].client \in Slots
        BY <4>1, <4>2 DEF Delta
      <4>4. PICK s \in Slots : s = outbox[t][i].client
        BY <4>3
      <4> QED BY <3>1, <4>4, PastMail
    <3> QED BY <2>4, <3>1 DEF Unsent
  <2> QED BY <2>1, <2>2, <2>3, <2>4 DEF Turn
<1> QED BY <1>2, <1>3, <1>5, <1>6

\* The steps of a worker but two leave all mail alone.
LEMMA QuietWorker ==
  ASSUME TypeOK, SoleSender, NEW w \in Workers, Request(w) \/ Work(w), ~Deliver(w),
         ~\E s \in Slots, p \in Pages : NewClient(w, s, p)
  PROVE  Quiet
<1> USE DEF memory, clientVars, pollVars, useVars, locks, threadVars, contextVars, requestVars,
            pruneVars, world, pageVars, bounds
<1>1. UNCHANGED <<mode, pass, msgs, sock, got, at>>
  BY DEF Request, Work, ArriveAgain, Login, SkipLogin, RefuseLogin, FindClient, Pull,
         Handle, NewChannel, Send, HandlerFails, StartCommit, EndCommit, Commit,
         CommitFails, FinishDelivery, Leaving, Release, Depart, DepartAgain
<1>2. \A p \in Pages : tab[p] = "unborn" <=> tab'[p] = "unborn"
  <2>1. CASE Depart(w)
    BY <2>1 DEF Depart, Respond, TypeOK, ControlOK, TypesOK, OtherTypes, ThreadTypes
  <2>2. CASE ~Depart(w)
    <3>1. UNCHANGED tab
      BY <2>2 DEF Request, Work, ArriveAgain, Login, SkipLogin, RefuseLogin, FindClient, Pull,
         Handle, NewChannel, Send, HandlerFails, StartCommit, EndCommit, Commit,
         CommitFails, FinishDelivery, Leaving, Release, DepartAgain
    <3> QED BY <3>1
  <2> QED BY <2>1, <2>2
<1>3. w \in Threads /\ stamp \in [Threads -> Nat] /\ outbox \in [Threads -> Seq(Delta)]
      /\ rows \subseteq Channel /\ inserts[w] \subseteq Channel
  BY DEF TypeOK, TypesOK, ThreadTypes, OtherTypes, Threads
<1>4. pc[w] # "deliver" => stamp[w] = 0
  BY <1>3 DEF SoleSender
<1>5. /\ commits' \in {commits, commits + 1}
      /\ \/ UNCHANGED <<outbox, stamp>>
         \/ stamp' = [stamp EXCEPT ![w] = commits + 1] /\ UNCHANGED outbox
         \/ outbox' = [outbox EXCEPT ![w] = <<>>] /\ UNCHANGED stamp
         \/ outbox[w] = <<>> /\ UNCHANGED outbox /\ stamp' = [stamp EXCEPT ![w] = 0]
         \/ /\ pc[w] = "handler" /\ UNCHANGED stamp
            /\ \E ch \in Channel : outbox' = [outbox EXCEPT ![w] = AddToDeltas(outbox[w], ch)]
  <2>1. CASE Handle(w)
    <3>1. CASE NewChannel(w)
      BY <3>1 DEF NewChannel
    <3>2. ASSUME NEW ch \in rows \cup inserts[w], Send(w, ch)
          PROVE  /\ commits' = commits /\ pc[w] = "handler" /\ UNCHANGED stamp /\ ch \in Channel
                 /\ outbox' = [outbox EXCEPT ![w] = AddToDeltas(outbox[w], ch)]
      BY <1>3, <3>2 DEF Send
    <3>3. ASSUME NEW f, HandlerFails(w, f)
          PROVE  commits' = commits /\ outbox' = [outbox EXCEPT ![w] = <<>>] /\ UNCHANGED stamp
      BY <3>3 DEF HandlerFails
    <3> QED BY <2>1, <3>1, <3>2, <3>3 DEF Handle
  <2>2. CASE EndCommit(w)
    BY <2>2 DEF EndCommit, Commit, CommitFails, TakePlace
  <2>3. CASE FinishDelivery(w)
    BY <2>3 DEF FinishDelivery
  <2>4. CASE ~Handle(w) /\ ~EndCommit(w) /\ ~FinishDelivery(w)
    BY <2>4 DEF Request, Work, ArriveAgain, Login, SkipLogin, RefuseLogin, FindClient, Pull,
         StartCommit, Leaving, Release, Depart, DepartAgain
  <2> QED BY <2>1, <2>2, <2>3, <2>4
<1>6. ASSUME NEW t \in Threads PROVE Turn(t)
  BY <1>3, <1>4, <1>5 DEF Turn
<1> QED BY <1>1, <1>2, <1>5, <1>6 DEF Quiet

LEMMA QuietPruner ==
  ASSUME TypeOK, SoleSender, Prune, ~Deliver(Pruner), ~FreeClient PROVE Quiet
<1> USE DEF memory, clientVars, pollVars, useVars, locks, threadVars, contextVars, requestVars,
            pruneVars, world, pageVars, bounds
<1>1. UNCHANGED <<mode, pass, msgs, sock, got, at, tab>>
  BY DEF Prune, ExpungerArrives, Skip, Unlink, LeaveSend, StartCommit, FinishDelivery,
         ExpungeCommit, ExpungeAgain, ExpungeLost, ExpungeBlocked, ExpungerDeparts
<1>2. Pruner \in Threads /\ stamp \in [Threads -> Nat] /\ outbox \in [Threads -> Seq(Delta)]
      /\ rows \subseteq Channel
  BY DEF TypeOK, TypesOK, ThreadTypes, OtherTypes, Threads
<1>3. pc[Pruner] # "deliver" => stamp[Pruner] = 0
  BY <1>2 DEF SoleSender
<1>4. /\ commits' \in {commits, commits + 1}
      /\ \/ UNCHANGED <<outbox, stamp>>
         \/ stamp' = [stamp EXCEPT ![Pruner] = commits + 1] /\ UNCHANGED outbox
         \/ outbox' = [outbox EXCEPT ![Pruner] = <<>>] /\ UNCHANGED stamp
         \/ outbox[Pruner] = <<>> /\ UNCHANGED outbox /\ stamp' = [stamp EXCEPT ![Pruner] = 0]
         \/ /\ pc[Pruner] = "handler" /\ UNCHANGED stamp
            /\ \E ch \in Channel :
                 outbox' = [outbox EXCEPT ![Pruner] = AddToDeltas(outbox[Pruner], ch)]
  <2>1. ASSUME NEW ch \in rows, LeaveSend(ch)
        PROVE  /\ commits' = commits /\ pc[Pruner] = "handler" /\ UNCHANGED stamp /\ ch \in Channel
               /\ outbox' = [outbox EXCEPT ![Pruner] = AddToDeltas(outbox[Pruner], ch)]
    BY <1>2, <2>1 DEF LeaveSend
  <2>2. CASE ~\E ch \in rows : LeaveSend(ch)
    BY <2>2 DEF Prune, ExpungerArrives, Skip, Unlink, StartCommit, FinishDelivery, TakePlace,
         ExpungeCommit, ExpungeAgain, ExpungeLost, ExpungeBlocked, ExpungerDeparts
  <2> QED BY <2>1, <2>2
<1>5. ASSUME NEW t \in Threads PROVE Turn(t)
  BY <1>2, <1>3, <1>4 DEF Turn
<1> QED BY <1>1, <1>4, <1>5 DEF Quiet

\* A poll that comes in takes what waits for it.
LEMMA OrderConnect ==
  ASSUME TypeOK, Past, Views, Ordered, Unsent, NEW p \in Pages, Connect(p)
  PROVE  Past' /\ Views' /\ Ordered' /\ Unsent'
<1> DEFINE s == at[p]
<1> USE DEF TypeOK, TypesOK, ClientTypes, OtherTypes
<1>1. /\ tab[p] = "open" /\ UNCHANGED <<mode, pass, outbox, stamp, at, commits>>
      /\ \A q \in Pages : tab[q] = "unborn" <=> tab'[q] = "unborn"
  BY DEF Connect, threadVars, contextVars, bounds
<1>2. \/ UNCHANGED <<msgs, sock, got>>
      \/ /\ mode[s] = "USED" /\ pass[s] = p
         /\ \/ /\ sock' = [sock EXCEPT ![s] = None] /\ got' = [got EXCEPT ![p] = @ \o msgs[s]]
               /\ msgs' = [msgs EXCEPT ![s] = <<>>]
            \/ sock' = [sock EXCEPT ![s] = p] /\ UNCHANGED <<msgs, got>>
  BY Zenon DEF Connect, pollVars
<1>3. CASE UNCHANGED <<msgs, sock, got>>
  BY <1>1, <1>3, MailStep DEF Past, Views, Mail
<1>4. CASE mode[s] = "USED" /\ pass[s] = p /\ sock' = [sock EXCEPT ![s] = p]
           /\ UNCHANGED <<msgs, got>>
  <2>1. Views'
    BY <1>1, <1>4 DEF Views
  <2> QED BY <1>1, <1>4, <2>1, MailStep DEF Past, Mail
<1>5. CASE /\ mode[s] = "USED" /\ pass[s] = p
           /\ sock' = [sock EXCEPT ![s] = None] /\ got' = [got EXCEPT ![p] = @ \o msgs[s]]
           /\ msgs' = [msgs EXCEPT ![s] = <<>>]
  <2>1. s \in Slots /\ p = pass[s]
    <3>1. None \notin Slots /\ \A r \in Slots : mode[r] = "USED" => at[pass[r]] = r
      BY ThreadsAssumption DEF Views
    <3> QED BY <1>1, <1>5 DEF ControlOK
  <2>2. PICK a \in Seq(Message) : a = got[p]
    OBVIOUS
  <2>3. PICK b \in Seq(Message) : b = msgs[s]
    BY <2>1
  <2>4. /\ got'[p] = a \o b /\ msgs'[s] = <<>>
        /\ \A q \in Pages : q # p => got'[q] = got[q]
        /\ \A r \in Slots : r # s => msgs'[r] = msgs[r] /\ (mode[r] = "USED" => pass[r] # p)
    BY <1>5, <2>1, <2>2, <2>3 DEF Views
  <2>5. (a \o b) \o <<>> = a \o b
    OBVIOUS
  <2>6. Mail(s)' = Mail(s)
    BY <1>1, <2>1, <2>2, <2>3, <2>4, <2>5 DEF Mail
  <2>7. \A r \in Slots : mode'[r] = "USED" => mode[r] = "USED" /\ Mail(r)' = Mail(r)
    <3> SUFFICES ASSUME NEW r \in Slots, mode[r] = "USED", r # s PROVE Mail(r)' = Mail(r)
      BY <1>1, <2>6
    <3>1. pass[r] \in Pages /\ pass[r] # p /\ msgs'[r] = msgs[r]
      BY <2>4 DEF Views
    <3> QED BY <1>1, <2>4, <3>1 DEF Mail
  <2>8. Ordered' /\ Unsent'
    BY <1>1, <2>7, MailStep
  <2>9. Past'
    <3>1. UpTo(a, commits) /\ UpTo(b, commits) /\ UpTo(<<>>, commits)
      BY <2>1, <2>2, <2>3 DEF Past, UpTo
    <3>2. UpTo(a \o b, commits)
      BY <3>1, PartsOfJoin
    <3>3. /\ \A q \in Pages : UpTo(got'[q], commits)
          /\ \A r \in Slots : UpTo(msgs'[r], commits)
      BY <2>4, <3>1, <3>2 DEF Past
    <3> QED BY <1>1, <3>3 DEF Past, UpTo
  <2>10. Views'
    BY <1>1, <1>5, <2>1 DEF Views
  <2> QED BY <2>8, <2>9, <2>10
<1> QED BY <1>2, <1>3, <1>4, <1>5

\* A new client and its page have no mail.
LEMMA OrderNewClient ==
  ASSUME TypeOK, Past, Views, Ordered, Unsent,
         NEW w \in Workers, NEW s \in Slots, NEW p \in Pages, NewClient(w, s, p)
  PROVE  Past' /\ Views' /\ Ordered' /\ Unsent'
<1> USE DEF TypeOK, TypesOK, ClientTypes, OtherTypes
<1>1. /\ mode' = [mode EXCEPT ![s] = "USED"] /\ pass' = [pass EXCEPT ![s] = p]
      /\ msgs' = [msgs EXCEPT ![s] = <<>>] /\ sock' = [sock EXCEPT ![s] = None]
      /\ tab[p] = "unborn" /\ tab' = [tab EXCEPT ![p] = "loading"] /\ at' = [at EXCEPT ![p] = s]
      /\ UNCHANGED <<got, outbox, stamp, commits>>
  BY DEF NewClient, bounds
<1>2. got[p] = <<>>
  BY <1>1 DEF Views
<1>3. \A r \in Slots : r # s /\ mode[r] = "USED" => pass[r] # p
  BY <1>1 DEF Views
<1>4. Mail(s)' = <<>>
  <2>1. pass'[s] = p /\ msgs'[s] = <<>> /\ got'[p] = <<>>
    BY <1>1, <1>2
  <2>2. <<>> \o <<>> = <<>>
    OBVIOUS
  <2> QED BY <2>1, <2>2 DEF Mail
<1>5. \A r \in Slots : r # s => mode'[r] = mode[r] /\ pass'[r] = pass[r] /\ msgs'[r] = msgs[r]
  BY <1>1
<1>6. \A r \in Slots : r # s => Mail(r)' = Mail(r)
  BY <1>1, <1>5 DEF Mail
<1>7. Ordered' /\ Unsent'
  BY <1>1, <1>4, <1>5, <1>6, MailStep
<1>8. Past'
  BY <1>1 DEF Past, UpTo
<1>9. Views'
  BY <1>1, <1>3 DEF Views
<1> QED BY <1>7, <1>8, <1>9

LEMMA OrderFree ==
  ASSUME TypeOK, Past, Views, Ordered, Unsent, FreeClient
  PROVE  Past' /\ Views' /\ Ordered' /\ Unsent'
<1> USE DEF TypeOK, TypesOK, ClientTypes, OtherTypes
<1>1. /\ mode' = [mode EXCEPT ![victim] = "UNUSED"] /\ pass' = [pass EXCEPT ![victim] = None]
      /\ UNCHANGED <<msgs, sock, got, outbox, stamp, commits, tab, at>>
  BY DEF FreeClient, pollVars, contextVars, world, pageVars, bounds
<1>2. \A r \in Slots : mode'[r] = "USED" => mode[r] = "USED" /\ pass'[r] = pass[r]
  BY <1>1
<1>3. \A r \in Slots : mode'[r] = "USED" => mode[r] = "USED" /\ Mail(r)' = Mail(r)
  BY <1>1, <1>2 DEF Mail
<1>4. Ordered' /\ Unsent'
  BY <1>1, <1>3, MailStep
<1>5. Past' /\ Views'
  BY <1>1, <1>2 DEF Past, Views
<1> QED BY <1>4, <1>5

LEMMA OrderCrash ==
  ASSUME TypeOK, Past, Views, Crash PROVE Past' /\ Views' /\ Ordered' /\ Unsent'
<1>1. /\ mode' = [s \in Slots |-> "UNUSED"] /\ msgs' = [s \in Slots |-> <<>>]
      /\ stamp' = [t \in Threads |-> 0] /\ outbox' = [t \in Threads |-> <<>>]
      /\ UNCHANGED <<got, commits>>
      /\ \A p \in Pages : tab'[p] = "unborn" => tab[p] = "unborn"
  BY DEF Crash, TypeOK, TypesOK, OtherTypes
<1> QED BY <1>1 DEF Past, UpTo, Views, Ordered, Unsent, Apart

\* The messages of the last transaction come after all others, and a client gets those
\* that are for it at once.
LEMMA OrderDeliver ==
  ASSUME TypeOK, SoleSender, Past, Views, Ordered, Unsent, NoSleepingMail,
         NEW t \in Threads, Deliver(t)
  PROVE  Past' /\ Views' /\ Ordered' /\ Unsent'
<1> USE DEF TypeOK, TypesOK, ClientTypes, OtherTypes
<1>1. PICK ds \in Seq(Delta) : ds = outbox[t] /\ ds # <<>>
  BY DEF ThreadTypes, Deliver
<1>2. PICK n \in Nat : n = stamp[t] /\ n # 0 /\ n = commits
  BY <1>1 DEF ThreadTypes, SoleSender, Deliver
<1>3. /\ Apart(Tail(ds)) /\ Head(ds) = ds[1] /\ 1 \in DOMAIN ds /\ Head(ds) \in Delta
      /\ \A i \in DOMAIN Tail(ds) : /\ Tail(ds)[i].client # Head(ds).client
                                    /\ i + 1 \in DOMAIN ds /\ Tail(ds)[i] = ds[i + 1]
  BY <1>1, ApartTail DEF Unsent
<1>4. PICK s \in Slots : s = Head(ds).client
  BY <1>3 DEF Delta
<1>5. PICK block \in Seq(Message) : /\ block = Stamped(Head(ds).msgs, n) /\ InOrder(block)
                                    /\ \A i \in DOMAIN block : block[i].txn = n
  <2>1. PICK d \in Delta : d = Head(ds)
    BY <1>3
  <2>2. PICK b \in Seq(Message) : b = Stamped(d.msgs, n)
    BY BlockIs
  <2>3. InOrder(b) /\ \A i \in DOMAIN b : b[i].txn = n
    BY <2>2, BlockIs
  <2> QED BY <2>1, <2>2, <2>3
<1>6. /\ ClientSend(s, block) /\ outbox' = [outbox EXCEPT ![t] = Tail(ds)]
      /\ UNCHANGED <<mode, pass, stamp, tab, at, commits>>
  BY <1>1, <1>2, <1>4, <1>5 DEF Deliver, bounds
<1>7. \/ UNCHANGED <<sock, msgs, got>>
      \/ /\ mode[s] = "USED" /\ sock[s] # None /\ sock' = [sock EXCEPT ![s] = None]
         /\ UNCHANGED msgs /\ (got' = [got EXCEPT ![sock[s]] = @ \o block] \/ got' = got)
      \/ /\ mode[s] = "USED" /\ UNCHANGED <<sock, got>>
         /\ msgs' = [msgs EXCEPT ![s] = @ \o block]
  BY <1>6, Zenon DEF ClientSend
<1>8. ASSUME mode[s] = "USED"
      PROVE  /\ pass[s] \in Pages /\ got[pass[s]] \in Seq(Message) /\ msgs[s] \in Seq(Message)
             /\ Mail(s) \in Seq(Message)
             /\ Before(Mail(s), n) /\ \A r \in Slots : r # s /\ mode[r] = "USED" => pass[r] # pass[s]
  <2>1. Before(Mail(s), n)
    BY <1>1, <1>2, <1>3, <1>4, <1>8, ZenonT(40) DEF Unsent
  <2>2. \A r \in Slots : r # s /\ mode[r] = "USED" => pass[r] # pass[s]
    BY <1>8 DEF Views
  <2> QED BY <1>8, <2>1, <2>2, MailIs
\* What the step does to mail.
<1>9. /\ \A r \in Slots : r # s /\ mode[r] = "USED" => Mail(r)' = Mail(r)
      /\ mode[s] = "USED" => Mail(s)' \in {Mail(s), Mail(s) \o block}
      /\ \A p \in Pages : got'[p] \in {got[p], got[p] \o block}
      /\ \A r \in Slots : msgs'[r] \in {msgs[r], msgs[r] \o block}
      /\ \A r \in Slots : sock'[r] \in {sock[r], None}
  <2>1. CASE UNCHANGED <<sock, msgs, got>>
    BY <1>6, <2>1 DEF Mail
  <2>2. CASE /\ mode[s] = "USED" /\ sock[s] # None /\ sock' = [sock EXCEPT ![s] = None]
             /\ UNCHANGED msgs /\ (got' = [got EXCEPT ![sock[s]] = @ \o block] \/ got' = got)
    <3>1. PICK p \in Pages : p = sock[s] /\ p = pass[s]
      BY <2>2, <1>8 DEF Views
    <3>2. msgs[s] = <<>>
      BY <2>2 DEF NoSleepingMail
    <3>3. \A q \in Pages : q # p => got'[q] = got[q]
      BY <2>2, <3>1
    <3>4. PICK a \in Seq(Message) : a = got[p]
      BY <3>1
    <3>5. got'[p] \in {a, a \o block}
      BY <2>2, <3>1, <3>4
    <3>6. a \o <<>> = a /\ (a \o block) \o <<>> = a \o block
      OBVIOUS
    <3>7. Mail(s) = a /\ Mail(s)' = got'[p]
      <4>1. got'[p] \o <<>> = got'[p]
        BY <3>5, <3>6
      <4> QED BY <1>6, <2>2, <3>1, <3>2, <3>4, <3>6, <4>1 DEF Mail
    <3>8. \A r \in Slots : r # s /\ mode[r] = "USED" => Mail(r)' = Mail(r)
      <4> SUFFICES ASSUME NEW r \in Slots, r # s, mode[r] = "USED" PROVE Mail(r)' = Mail(r)
        OBVIOUS
      <4>1. pass[r] \in Pages /\ pass[r] # p
        BY <1>8, <2>2, <3>1 DEF Views
      <4> QED BY <1>6, <2>2, <3>3, <4>1 DEF Mail
    <3> QED BY <2>2, <3>3, <3>4, <3>5, <3>7, <3>8
  <2>3. CASE /\ mode[s] = "USED" /\ UNCHANGED <<sock, got>>
             /\ msgs' = [msgs EXCEPT ![s] = @ \o block]
    <3>1. PICK a \in Seq(Message), b \in Seq(Message) : a = got[pass[s]] /\ b = msgs[s]
      BY <1>8, <2>3
    <3>2. a \o (b \o block) = (a \o b) \o block
      BY SMTT(30)
    <3>3. msgs'[s] = b \o block /\ \A r \in Slots : r # s => msgs'[r] = msgs[r]
      BY <2>3, <3>1
    <3>4. Mail(s) = a \o b /\ Mail(s)' = a \o (b \o block)
      BY <1>6, <2>3, <3>1, <3>3 DEF Mail
    <3>5. \A r \in Slots : r # s => Mail(r)' = Mail(r)
      BY <1>6, <2>3, <3>3 DEF Mail
    <3> QED BY <2>3, <3>1, <3>2, <3>3, <3>4, <3>5
  <2> QED BY <1>7, <2>1, <2>2, <2>3
<1>10. Ordered'
  <2> SUFFICES ASSUME NEW r \in Slots, mode[r] = "USED" PROVE InOrder(Mail(r)')
    BY <1>6, ZenonT(40) DEF Ordered, InOrder, Mail
  <2>1. CASE r # s
    BY <1>9, <2>1 DEF Ordered
  <2>2. CASE r = s
    <3>1. PICK m \in Seq(Message) : m = Mail(s)
      BY <1>8, <2>2
    <3>2. InOrder(m \o block) /\ InOrder(m)
      BY <1>5, <1>8, <2>2, <3>1, InOrderJoin DEF Ordered
    <3> QED BY <1>9, <2>2, <3>1, <3>2
  <2> QED BY <2>1, <2>2
<1>11. Past'
  <2>1. UpTo(block, n)
    BY <1>5 DEF UpTo
  <2>2. \A ms \in Seq(Message) : UpTo(ms, n) => UpTo(ms \o block, n)
    BY <2>1, PartsOfJoin
  <2>3. \A p \in Pages : UpTo(got'[p], n)
    BY <1>2, <1>9, <2>2 DEF Past
  <2>4. \A r \in Slots : UpTo(msgs'[r], n)
    BY <1>2, <1>9, <2>2 DEF Past
  <2> QED BY <1>2, <1>6, <2>3, <2>4 DEF Past, UpTo
<1>12. Views'
  <2>1. \A p \in Pages : tab[p] = "unborn" => got'[p] = got[p]
    <3>1. CASE got' = got
      BY <3>1
    <3>2. CASE mode[s] = "USED" /\ sock[s] # None /\ got' = [got EXCEPT ![sock[s]] = @ \o block]
      <4>1. sock[s] = pass[s] /\ tab[pass[s]] # "unborn"
        BY <3>2 DEF Views
      <4> QED BY <3>2, <4>1
    <3> QED BY <1>7, <3>1, <3>2
  <2> QED BY <1>6, <1>9, <2>1 DEF Views
<1>13. Unsent'
  <2> DEFINE New(c) == got'[pass'[c]] \o msgs'[c]
  <2> HIDE DEF TypeOK, TypesOK, ClientTypes, OtherTypes
  <2>1. /\ mode' = mode /\ stamp' = stamp /\ outbox'[t] = Tail(ds)
        /\ \A u \in Threads : u # t => outbox'[u] = outbox[u] /\ stamp[u] = 0
    BY <1>2, <1>6 DEF TypeOK, TypesOK, ThreadTypes, SoleSender
  <2> SUFFICES ASSUME NEW u \in Threads
               PROVE  /\ Apart(outbox'[u])
                      /\ stamp'[u] # 0 => \A i \in DOMAIN outbox'[u] :
                           mode'[outbox'[u][i].client] = "USED"
                             => Before(New(outbox'[u][i].client), stamp'[u])
    BY DEF Unsent, Before, Mail, Apart
  <2>2. CASE u # t
    <3>1. stamp'[u] = 0 /\ outbox'[u] = outbox[u]
      BY <2>1, <2>2
    <3> QED BY <3>1 DEF Unsent
  <2>3. CASE u = t
    <3>1. ASSUME NEW i \in DOMAIN Tail(ds), mode[Tail(ds)[i].client] = "USED"
          PROVE  Before(New(Tail(ds)[i].client), n)
      <4>1. i + 1 \in DOMAIN ds /\ Tail(ds)[i] = ds[i + 1] /\ Tail(ds)[i].client # s
        BY <1>3, <1>4
      <4>2. ds[i + 1] \in Delta
        BY <4>1
      <4>3. PICK r \in Slots : r = Tail(ds)[i].client
        BY <4>1, <4>2 DEF Delta
      <4>4. Before(Mail(r), n)
        BY <1>1, <1>2, <3>1, <4>1, <4>3 DEF Unsent
      <4>5. Mail(r)' = Mail(r)
        BY <1>9, <3>1, <4>1, <4>3
      <4> QED BY <4>3, <4>4, <4>5 DEF Mail
    <3>2. outbox'[u] = Tail(ds) /\ stamp'[u] = n /\ mode' = mode
      BY <1>2, <2>1, <2>3, Zenon
    <3>3. Apart(outbox'[u])
      BY <1>3, <3>2, Zenon
    <3>4. ASSUME NEW i \in DOMAIN outbox'[u], mode'[outbox'[u][i].client] = "USED"
          PROVE  Before(New(outbox'[u][i].client), stamp'[u])
      <4>1. i \in DOMAIN Tail(ds) /\ mode[Tail(ds)[i].client] = "USED"
        BY <3>2, <3>4, Zenon
      <4>2. Before(New(Tail(ds)[i].client), n)
        BY <3>1, <4>1
      <4> HIDE DEF New
      <4> QED BY <3>2, <4>2
    <3> QED BY <3>3, <3>4
  <2> QED BY <2>2, <2>3
<1> QED BY <1>10, <1>11, <1>12, <1>13

LEMMA OrderStep ==
  ASSUME TypeOK, SoleSender, Past, Views, Ordered, Unsent, NoSleepingMail, [Next]_vars
  PROVE  Past' /\ Views' /\ Ordered' /\ Unsent'
<1>1. ASSUME NEW w \in Workers, Request(w) \/ Work(w), ~Deliver(w),
             ~\E s \in Slots, p \in Pages : NewClient(w, s, p)
      PROVE  Past' /\ Views' /\ Ordered' /\ Unsent'
  BY <1>1, QuietWorker, QuietStep
<1>2. ASSUME Prune, ~Deliver(Pruner), ~FreeClient PROVE Past' /\ Views' /\ Ordered' /\ Unsent'
  BY <1>2, QuietPruner, QuietStep
<1>3. ASSUME \/ Initialize \/ (\E p \in Pages : HangUp(p) \/ Leave(p))
             \/ (\E s \in Slots : Expire(s)) \/ UNCHANGED vars
      PROVE  Past' /\ Views' /\ Ordered' /\ Unsent'
  <2> USE DEF memory, clientVars, pollVars, useVars, locks, threadVars, contextVars, requestVars,
              pruneVars, world, pageVars, bounds
  <2>1. UNCHANGED <<mode, pass, msgs, sock, got, at, outbox, stamp, commits>>
    BY <1>3, Zenon DEF Initialize, HangUp, Leave, Expire, vars
  <2>2. \A p \in Pages : tab[p] = "unborn" <=> tab'[p] = "unborn"
    <3>1. tab' = tab \/ \E p \in Pages : tab[p] = "open" /\ tab' = [tab EXCEPT ![p] = "gone"]
      BY <1>3, Zenon DEF Initialize, HangUp, Leave, Expire, vars
    <3> QED BY <3>1 DEF TypeOK, TypesOK, OtherTypes
  <2>3. Quiet
    BY <2>1, <2>2 DEF Quiet, Turn
  <2> QED BY <2>3, QuietStep
<1> QED BY <1>1, <1>2, <1>3, OrderDeliver, OrderNewClient, OrderConnect, OrderFree, OrderCrash
        DEF Next, Browse, Threads

LEMMA OrderAlways == Spec => [](SoleSender /\ Past /\ Views /\ Ordered /\ Unsent)
<1>1. Init => SoleSender /\ Past /\ Views /\ Ordered /\ Unsent
  BY DEF Init, SoleSender, Past, UpTo, Views, Ordered, Unsent, Apart
<1>2. TypeOK /\ NoSleepingMail /\ (SoleSender /\ Past /\ Views /\ Ordered /\ Unsent) /\ [Next]_vars
        => (SoleSender /\ Past /\ Views /\ Ordered /\ Unsent)'
  BY SoleStep, OrderStep
<1> QED BY <1>1, <1>2, TypeCorrect, MailIsAwake, PTL DEF Spec

\* The messages of a page come in the order of COMMITs, those of a transaction together and
\* none of them twice, whatever fails and whichever polls break off.
THEOREM MailInOrder == Spec => []CommitOrder
<1>1. Ordered => CommitOrder
  BY DEF Ordered, InOrder, Mail, CommitOrder
<1> QED BY <1>1, OrderAlways, PTL

\* While a transaction is still sending, no client has a message of a later one.
THEOREM UnitsAreAtomic == Spec => []AtomicUnits
<1>1. TypeOK /\ SoleSender /\ Past => AtomicUnits
  BY DEF SoleSender, Past, UpTo, AtomicUnits
<1> QED BY <1>1, OrderAlways, TypeCorrect, PTL
=============================================================================
