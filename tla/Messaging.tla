----------------------------- MODULE Messaging -----------------------------
(***************************************************************************)
(* Server push in the C runtime (src/urweb/src/c/urweb.c with the request  *)
(* loop of request.c): the table of clients, the transactions of the       *)
(* worker threads that create channels and send on them, the thread that   *)
(* prunes clients not heard from, the long polls of the browser pages, and *)
(* the database rows that hold channels.                                   *)
(*                                                                         *)
(* One page view is one incarnation of a client slot: new_client draws a   *)
(* fresh random password for it, so a member of Pages stands for the view, *)
(* its password and the client that belongs to it.                         *)
(***************************************************************************)
EXTENDS Naturals, Sequences, FiniteSets

CONSTANTS
  Workers,      \* request threads
  Pruner,       \* the client_pruner thread
  Slots,        \* indices of the array clients (uw_clients_max of them)
  Pages,        \* page views, and their passwords
  None,         \* NULL, -1
  RefWrap,      \* number of values of the unsigned field refcount
  ReaderWrap,   \* number of values of the rwlock's count of readers
  MaxMessages,  \* uw_messages_max, in messages
  MaxChannels,  \* bound: channels created by one incarnation of a client
  MaxSends,     \* bound: calls of send by the handlers
  MaxCrashes,   \* bound: server restarts
  OnError,      \* the application declares an onError handler
  CommitErrors, \* COMMIT may fail for good (a result that is not -1)
  ExpungeFails, \* the expunger may raise an error that is not retried
  CleanupErrors,\* COMMIT of the expunger and the initializer may fail for good
  LeaveTask     \* whose channels a clientLeaves task sends on:
                \* "nobody", "others" or "everyone"

Threads == Workers \cup {Pruner}

ASSUME ThreadsAssumption ==
  /\ IsFiniteSet(Workers)
  /\ Pruner \notin Workers
  /\ None \notin Slots \cup Pages \cup Threads

ASSUME WidthAssumption ==
  /\ RefWrap \in Nat \ {0}
  /\ ReaderWrap \in Nat
  /\ Cardinality(Workers) < ReaderWrap

ASSUME BoundsAssumption ==
  /\ MaxMessages \in Nat
  /\ MaxChannels \in Nat
  /\ MaxSends \in Nat
  /\ MaxCrashes \in Nat

ASSUME SwitchesAssumption ==
  /\ OnError \in BOOLEAN
  /\ CommitErrors \in BOOLEAN
  /\ ExpungeFails \in BOOLEAN
  /\ CleanupErrors \in BOOLEAN
  /\ LeaveTask \in {"nobody", "others", "everyone"}

VARIABLES
  \* struct client, one function per field
  mode, pass, sock, msgs, stale, refcount, nChannels, pullLock,
  \* the array clients and its two lists
  allocated, freeList, usedList,
  \* expunge_lock, message_send_mutex
  readers, writer, msgMutex,
  \* struct uw_context and program counter of each thread
  pc, kind, view, slot, inserts, outbox, stamp, fate,
  \* uw_prune_clients
  unscanned, victim,
  \* channels stored in the database
  rows,
  \* the browsers
  tab, at, listening, got,
  \* ghosts that bound the model
  commits, sends, crashes

pollVars   == <<sock, msgs, stale>>
useVars    == <<refcount, nChannels, pullLock>>
clientVars == <<mode, pass, pollVars, useVars>>
tableVars  == <<allocated, freeList, usedList>>
requestVars == <<kind, view, slot, inserts>>
contextVars == <<requestVars, outbox, stamp, fate>>
threadVars == <<pc, contextVars>>
pruneVars  == <<unscanned, victim>>
pageVars   == <<tab, at, listening, got>>
bounds     == <<commits, sends, crashes>>
\* The same, grouped for UNCHANGED.
memory == <<clientVars, tableVars>>
locks  == <<readers, writer, msgMutex>>
world  == <<rows, pageVars, bounds>>
vars == <<memory, locks, threadVars, pruneVars, world>>

-----------------------------------------------------------------------------
\* A channel names its client's slot and a number; own is a ghost: the page
\* view whose request created it.
Channel == [cli : Slots, chn : Nat, own : Pages]
\* Ghosts: txn is the place of the sending transaction in the commit order, pos
\* that of the message among those of its transaction for the same client.
Message == [chan : Channel, txn : Nat, pos : Nat]
Delta == [client : Slots, msgs : Seq(Channel)]

\* allocate_delta and uw_Basis_send: a transaction keeps one delta per client.
AddToDeltas(ds, ch) ==
  IF \E i \in DOMAIN ds : ds[i].client = ch.cli
  THEN [i \in DOMAIN ds |->
          IF ds[i].client = ch.cli
          THEN [ds[i] EXCEPT !.msgs = Append(ds[i].msgs, ch)]
          ELSE ds[i]]
  ELSE Append(ds, [client |-> ch.cli, msgs |-> <<ch>>])

Stamped(chans, n) ==
  [i \in 1..Len(chans) |-> [chan |-> chans[i], txn |-> n, pos |-> i]]

\* Fault: the counter is not of a fixed width.
DecUnbounded(n, wrap) == n - 1

\* Decrement of an unsigned counter.
Dec(n, wrap) == IF n = 0 THEN wrap - 1 ELSE n - 1

\* Fault: the pruner lets go of the client's lock before the expunger runs.
LockNeverHeld(s) == s \in Slots

\* uw_prune_clients holds the c->lock of the client it expunges.
LockFree(s) == victim # s

\* What a page holds in its poll, if the client's socket is still alive.
Hearing(s) == sock[s] # None /\ sock[s] \in listening

Goto(t, label) == pc' = [pc EXCEPT ![t] = label]

ClientTypes ==
  /\ mode \in [Slots -> {"UNUSED", "USED"}]
  /\ pass \in [Slots -> Pages \cup {None}]
  /\ sock \in [Slots -> Pages \cup {None}]
  /\ msgs \in [Slots -> Seq(Message)]
  /\ stale \in [Slots -> BOOLEAN]
  /\ refcount \in [Slots -> 0..(RefWrap - 1)]
  /\ nChannels \in [Slots -> Nat]
  /\ pullLock \in [Slots -> Workers \cup {None}]
  /\ allocated \in SUBSET Slots
  /\ freeList \in SUBSET Slots
  /\ usedList \in SUBSET Slots

LockTypes ==
  /\ readers \in 0..(ReaderWrap - 1)
  /\ writer \in BOOLEAN
  /\ msgMutex \in Threads \cup {None}

WorkerLabels == {"idle", "arrive", "login", "pull", "handler", "commit", "deliver",
                 "release", "depart", "rollback"}
PrunerLabels == {"boot", "sleep", "scan", "handler", "commit", "deliver", "free"}

ThreadTypes ==
  /\ pc \in [Threads -> WorkerLabels \cup PrunerLabels]
  /\ kind \in [Workers -> {"page", "rpc", "plain", "error"}]
  /\ view \in [Workers -> Pages \cup {None}]
  /\ slot \in [Workers -> Slots \cup {None}]
  /\ inserts \in [Workers -> SUBSET Channel]
  /\ outbox \in [Threads -> Seq(Delta)]
  /\ stamp \in [Threads -> Nat]
  /\ fate \in [Workers -> {"served", "failed", "retry", "onError", "commitError"}]

OtherTypes ==
  /\ unscanned \in SUBSET Slots
  /\ victim \in Slots \cup {None}
  /\ rows \in SUBSET Channel
  /\ tab \in [Pages -> {"unborn", "loading", "aborted", "open", "gone"}]
  /\ at \in [Pages -> Slots \cup {None}]
  /\ listening \in SUBSET Pages
  /\ got \in [Pages -> Seq(Message)]
  /\ commits \in Nat
  /\ sends \in Nat
  /\ crashes \in Nat

TypesOK == ClientTypes /\ LockTypes /\ ThreadTypes /\ OtherTypes

\* What a thread holds at each point of its program.
ControlOK ==
  /\ \A w \in Workers :
       /\ pc[w] \in WorkerLabels
       /\ pc[w] \in {"pull", "release"} => slot[w] # None
       /\ pc[w] \in {"idle", "arrive", "login", "depart", "rollback"} => slot[w] = None
       /\ slot[w] # None \/ kind[w] = "rpc" => view[w] # None
       /\ view[w] # None => tab[view[w]] # "unborn"
  /\ pc[Pruner] \in PrunerLabels
  /\ pc[Pruner] \in {"handler", "commit", "deliver", "free"} => victim # None
  /\ \A p \in Pages : tab[p] # "unborn" => at[p] # None

TypeOK == TypesOK /\ ControlOK

\* Memory of a server process before uw_request_init has run.
Init ==
  /\ mode = [s \in Slots |-> "UNUSED"]
  /\ pass = [s \in Slots |-> None]
  /\ sock = [s \in Slots |-> None]
  /\ msgs = [s \in Slots |-> <<>>]
  /\ stale = [s \in Slots |-> FALSE]
  /\ refcount = [s \in Slots |-> 0]
  /\ nChannels = [s \in Slots |-> 0]
  /\ pullLock = [s \in Slots |-> None]
  /\ allocated = {} /\ freeList = {} /\ usedList = {}
  /\ readers = 0 /\ writer = FALSE /\ msgMutex = None
  /\ pc = [t \in Threads |-> IF t = Pruner THEN "boot" ELSE "idle"]
  /\ kind = [w \in Workers |-> "plain"]
  /\ view = [w \in Workers |-> None]
  /\ slot = [w \in Workers |-> None]
  /\ inserts = [w \in Workers |-> {}]
  /\ outbox = [t \in Threads |-> <<>>]
  /\ stamp = [t \in Threads |-> 0]
  /\ fate = [w \in Workers |-> "served"]
  /\ unscanned = {} /\ victim = None
  /\ rows = {}
  /\ tab = [p \in Pages |-> "unborn"]
  /\ at = [p \in Pages |-> None]
  /\ listening = {}
  /\ got = [p \in Pages |-> <<>>]
  /\ commits = 0 /\ sends = 0 /\ crashes = 0

-----------------------------------------------------------------------------
(* Start and restart of the server. *)

\* Fault: the initializer leaves the rows of the previous run alone.
InitialRowsOld == rows

\* The generated initializer deletes every row that holds a client or channel.
InitialRows == {}

\* uw_initialize, before any other thread exists.  A COMMIT that fails for good makes
\* uw_commit return 0, which uw_initialize takes for success.
Initialize ==
  /\ pc[Pruner] = "boot"
  /\ \/ rows' = InitialRows
     \/ CleanupErrors /\ UNCHANGED rows
  /\ Goto(Pruner, "sleep")
  /\ UNCHANGED <<memory, locks, contextVars, pruneVars, pageVars, bounds>>

\* The process dies and is started again: only the database and the browsers
\* keep what they had.
Crash ==
  /\ crashes < MaxCrashes
  /\ crashes' = crashes + 1
  /\ mode' = [s \in Slots |-> "UNUSED"]
  /\ pass' = [s \in Slots |-> None]
  /\ sock' = [s \in Slots |-> None]
  /\ msgs' = [s \in Slots |-> <<>>]
  /\ stale' = [s \in Slots |-> FALSE]
  /\ refcount' = [s \in Slots |-> 0]
  /\ nChannels' = [s \in Slots |-> 0]
  /\ pullLock' = [s \in Slots |-> None]
  /\ allocated' = {} /\ freeList' = {} /\ usedList' = {}
  /\ readers' = 0 /\ writer' = FALSE /\ msgMutex' = None
  /\ pc' = [t \in Threads |-> IF t = Pruner THEN "boot" ELSE "idle"]
  /\ kind' = [w \in Workers |-> "plain"]
  /\ view' = [w \in Workers |-> None]
  /\ slot' = [w \in Workers |-> None]
  /\ inserts' = [w \in Workers |-> {}]
  /\ outbox' = [t \in Threads |-> <<>>]
  /\ stamp' = [t \in Threads |-> 0]
  /\ fate' = [w \in Workers |-> "served"]
  /\ unscanned' = {} /\ victim' = None
  /\ tab' = [p \in Pages |-> IF tab[p] = "loading" THEN "aborted" ELSE tab[p]]
  /\ listening' = {}
  /\ UNCHANGED <<rows, at, got, commits, sends>>

-----------------------------------------------------------------------------
(* The request loop of a worker.  All of uw_request runs with the expunge    *)
(* lock held for reading, from Request to Depart.                            *)

\* uw_transaction_arrives, for the first attempt of a request that has come in:
\* for a page that needs push, a remote call or form of a page view (it may
\* have been left since), or a request that involves no client.
Request(w) ==
  /\ pc[w] = "idle"
  /\ pc[Pruner] # "boot"
  /\ ~writer
  /\ \/ /\ \E p \in Pages : tab[p] = "unborn"
        /\ kind' = [kind EXCEPT ![w] = "page"]
        /\ UNCHANGED view
     \/ \E p \in Pages :
          /\ tab[p] \in {"open", "gone"}
          /\ kind' = [kind EXCEPT ![w] = "rpc"]
          /\ view' = [view EXCEPT ![w] = p]
     \/ /\ kind' = [kind EXCEPT ![w] = "plain"]
        /\ UNCHANGED view
  /\ readers' = (readers + 1) % ReaderWrap
  /\ Goto(w, "login")
  /\ UNCHANGED <<memory, writer, msgMutex, slot, inserts, outbox, stamp, fate,
                 pruneVars, world>>

\* uw_transaction_arrives, for another attempt or for the onError handler.
ArriveAgain(w) ==
  /\ pc[w] = "arrive"
  /\ ~writer
  /\ readers' = (readers + 1) % ReaderWrap
  /\ Goto(w, "login")
  /\ UNCHANGED <<memory, writer, msgMutex, contextVars, pruneVars, world>>

\* The pruner holds clients_mutex for the whole of its scan.
ClientsMutexFree == pc[Pruner] \in {"boot", "sleep"}

\* uw_login for a request that names no client and needs none, and the onError
\* handler, which does not log in.
SkipLogin(w) ==
  /\ pc[w] = "login"
  /\ kind[w] \in {"plain", "error"}
  /\ Goto(w, "handler")
  /\ UNCHANGED <<memory, locks, contextVars, pruneVars, world>>

\* An error of uw_login is fatal.
Refused == IF OnError THEN "onError" ELSE "failed"

\* A request that cannot have its client is rolled back without one: the id is
\* out of bounds, or new_client has no random number or no slot left.
RefuseLogin(w) ==
  /\ pc[w] = "login"
  /\ ClientsMutexFree
  /\ \/ kind[w] = "rpc" /\ at[view[w]] \notin allocated
     \/ kind[w] = "page"
  /\ fate' = [fate EXCEPT ![w] = Refused]
  /\ Goto(w, "depart")
  /\ UNCHANGED <<memory, locks, requestVars, outbox, stamp, pruneVars, world>>

\* new_client, and the first half of use_client on the result.
NewClient(w, s, p) ==
  /\ pc[w] = "login"
  /\ kind[w] = "page"
  /\ ClientsMutexFree
  /\ tab[p] = "unborn"
  /\ IF freeList # {} THEN s \in freeList ELSE s \notin allocated
  /\ LockFree(s)
  /\ allocated' = allocated \cup {s}
  /\ freeList' = freeList \ {s}
  /\ usedList' = usedList \cup {s}
  /\ mode' = [mode EXCEPT ![s] = "USED"]
  /\ pass' = [pass EXCEPT ![s] = p]
  /\ sock' = [sock EXCEPT ![s] = None]
  /\ stale' = [stale EXCEPT ![s] = FALSE]
  /\ msgs' = [msgs EXCEPT ![s] = <<>>]
  /\ nChannels' = [nChannels EXCEPT ![s] = 0]
  /\ refcount' = [refcount EXCEPT ![s] = 1 % RefWrap]
  /\ slot' = [slot EXCEPT ![w] = s]
  /\ view' = [view EXCEPT ![w] = p]
  /\ tab' = [tab EXCEPT ![p] = "loading"]
  /\ at' = [at EXCEPT ![p] = s]
  /\ Goto(w, "pull")
  /\ UNCHANGED <<pullLock, locks, kind, inserts, outbox, stamp, fate, pruneVars,
                 rows, listening, got, bounds>>

\* find_client on the id the browser presents, and the first half of
\* use_client, which counts the user before it waits for pull_lock.
FindClient(w) ==
  LET s == at[view[w]] IN
  /\ pc[w] = "login"
  /\ kind[w] = "rpc"
  /\ ClientsMutexFree
  /\ s \in allocated
  /\ LockFree(s)
  /\ refcount' = [refcount EXCEPT ![s] = (refcount[s] + 1) % RefWrap]
  /\ slot' = [slot EXCEPT ![w] = s]
  /\ Goto(w, "pull")
  /\ UNCHANGED <<mode, pass, pollVars, nChannels, pullLock, tableVars, locks,
                 kind, view, inserts, outbox, stamp, fate, pruneVars, world>>

\* What an error of the handler leads to in uw_request: another attempt, the
\* onError handler, or the end of the request.
Failure(w) ==
  {"failed", "retry"} \cup (IF OnError /\ kind[w] # "error" THEN {"onError"} ELSE {})

\* Fault: uw_login checks that the client is used, not its password.
AdmitsAny(w, s) == mode[s] = "USED"

Admits(w, s) == mode[s] = "USED" /\ pass[s] = view[w]

\* The second half of use_client, then the checks of uw_login.  They read the
\* client without its lock, but whoever could free it waits for our Depart.
Pull(w) ==
  LET s == slot[w] IN
  /\ pc[w] = "pull"
  /\ pullLock[s] = None
  /\ pullLock' = [pullLock EXCEPT ![s] = w]
  /\ IF Admits(w, s)
     THEN Goto(w, "handler") /\ UNCHANGED fate
     ELSE fate' = [fate EXCEPT ![w] = Refused] /\ Goto(w, "release")
  /\ UNCHANGED <<mode, pass, pollVars, refcount, nChannels, tableVars, locks,
                 requestVars, outbox, stamp, pruneVars, world>>

-----------------------------------------------------------------------------
(* The transaction of a handler, and of the expunger. *)

\* uw_Basis_new_channel on the request's client; the handler stores the channel
\* in a row.  n_channels is not given back when the transaction is rolled back.
NewChannel(w) ==
  LET s == slot[w] IN
  /\ pc[w] = "handler"
  /\ s # None
  /\ nChannels[s] < MaxChannels
  /\ nChannels' = [nChannels EXCEPT ![s] = nChannels[s] + 1]
  /\ inserts' = [inserts EXCEPT ![w] =
                   @ \cup {[cli |-> s, chn |-> nChannels[s], own |-> view[w]]}]
  /\ UNCHANGED <<mode, pass, pollVars, refcount, pullLock, tableVars, locks, pc,
                 kind, view, slot, outbox, stamp, fate, pruneVars, world>>

\* uw_Basis_send on a channel the handler has read from the database or made.
Send(w, ch) ==
  /\ pc[w] = "handler"
  /\ ch \in rows \cup inserts[w]
  /\ sends < MaxSends
  /\ sends' = sends + 1
  /\ outbox' = [outbox EXCEPT ![w] = AddToDeltas(outbox[w], ch)]
  /\ UNCHANGED <<memory, locks, pc, requestVars, stamp, fate, pruneVars, rows,
                 pageVars, commits, crashes>>

\* Fault: an aborted transaction keeps its client.
AfterTransactionKeep(w) == "depart"

\* Where uw_rollback and uw_commit go on: to release_client if the context has
\* a client.
AfterTransaction(w) == IF slot[w] = None THEN "depart" ELSE "release"

\* The handler raises an error (uw_error, an exceeded limit, the deadline).
HandlerFails(w, f) ==
  /\ pc[w] = "handler"
  /\ f \in Failure(w)
  /\ fate' = [fate EXCEPT ![w] = f]
  /\ inserts' = [inserts EXCEPT ![w] = {}]
  /\ outbox' = [outbox EXCEPT ![w] = <<>>]
  /\ Goto(w, AfterTransaction(w))
  /\ UNCHANGED <<memory, locks, kind, view, slot, stamp, pruneVars, world>>

\* Fault: message_send_mutex is not taken.
LockNothing(t) == UNCHANGED msgMutex

\* The mutex that makes the messages of one transaction a unit is taken only if
\* there are any.
Lock(t) == IF outbox[t] = <<>> THEN UNCHANGED msgMutex
                               ELSE msgMutex = None /\ msgMutex' = t

\* uw_commit up to the SQL COMMIT.
StartCommit(t) ==
  /\ pc[t] = "handler"
  /\ Lock(t)
  /\ Goto(t, "commit")
  /\ UNCHANGED <<memory, readers, writer, contextVars, pruneVars, world>>

\* The transaction sends its messages after COMMIT: it takes its place in the
\* order of commits.
TakePlace(t) ==
  IF outbox[t] = <<>>
  THEN UNCHANGED <<stamp, commits>>
  ELSE /\ commits' = commits + 1
       /\ stamp' = [stamp EXCEPT ![t] = commits + 1]

\* Fault: message_send_mutex covers COMMIT only.
HolderFreed(t) == IF msgMutex = t THEN None ELSE msgMutex

\* message_send_mutex is held from COMMIT to the end of the delivery.
Holder(t) == msgMutex

\* db_commit returns 0.
Commit(w) ==
  /\ pc[w] = "commit"
  /\ rows' = rows \cup inserts[w]
  /\ TakePlace(w)
  /\ inserts' = [inserts EXCEPT ![w] = {}]
  /\ fate' = [fate EXCEPT ![w] = IF kind[w] = "error" THEN "failed" ELSE "served"]
  /\ msgMutex' = Holder(w)
  /\ Goto(w, "deliver")
  /\ UNCHANGED <<memory, readers, writer, kind, view, slot, outbox, pruneVars,
                 pageVars, sends, crashes>>

\* uw_commit gives message_send_mutex back if it has taken it.
Unlock(t) == IF outbox[t] = <<>> THEN UNCHANGED msgMutex ELSE msgMutex' = None

\* db_commit returns -1: a serialization failure, which uw_request takes for a
\* served request.  Any other code is an error, and so is one of a transactional
\* that commits after the database; an error goes to the onError handler unless
\* that is what failed.  No message is sent.
CommitFails(w) ==
  /\ pc[w] = "commit"
  /\ \/ /\ fate' = [fate EXCEPT ![w] = IF kind[w] = "error" THEN "failed" ELSE "served"]
        /\ UNCHANGED rows
     \/ /\ CommitErrors
        /\ fate' = [fate EXCEPT ![w] =
                      IF OnError /\ kind[w] # "error" THEN "commitError" ELSE "failed"]
        /\ rows' \in {rows, rows \cup inserts[w]}
  /\ Unlock(w)
  /\ inserts' = [inserts EXCEPT ![w] = {}]
  /\ outbox' = [outbox EXCEPT ![w] = <<>>]
  /\ Goto(w, AfterTransaction(w))
  /\ UNCHANGED <<memory, readers, writer, kind, view, slot, stamp, pruneVars,
                 pageVars, bounds>>

\* client_send on the first remaining delta: to the socket of the parked poll,
\* which is used up by it, or else to the client's buffer, unless that would
\* overflow.  A socket whose page has stopped listening swallows the messages.
ClientSend(s, block) ==
  IF mode[s] # "USED" THEN UNCHANGED <<sock, msgs, listening, got>>
  ELSE IF sock[s] # None
  THEN /\ sock' = [sock EXCEPT ![s] = None]
       /\ IF Hearing(s)
          THEN /\ got' = [got EXCEPT ![sock[s]] = @ \o block]
               /\ listening' = listening \ {sock[s]}
          ELSE UNCHANGED <<listening, got>>
       /\ UNCHANGED msgs
  ELSE /\ msgs' = IF Len(msgs[s]) + Len(block) <= MaxMessages
                  THEN [msgs EXCEPT ![s] = @ \o block]
                  ELSE msgs
       /\ UNCHANGED <<sock, listening, got>>

Deliver(t) ==
  /\ pc[t] = "deliver"
  /\ outbox[t] # <<>>
  /\ LockFree(Head(outbox[t]).client)
  /\ ClientSend(Head(outbox[t]).client, Stamped(Head(outbox[t]).msgs, stamp[t]))
  /\ outbox' = [outbox EXCEPT ![t] = Tail(outbox[t])]
  /\ UNCHANGED <<mode, pass, stale, useVars, tableVars, locks, pc, requestVars,
                 stamp, fate, pruneVars, rows, tab, at, bounds>>

\* The end of uw_commit's delivery.
FinishDelivery(t) ==
  /\ pc[t] = "deliver"
  /\ outbox[t] = <<>>
  /\ msgMutex' = IF msgMutex = t THEN None ELSE msgMutex
  /\ stamp' = [stamp EXCEPT ![t] = 0]
  /\ Goto(t, IF t = Pruner THEN "free" ELSE AfterTransaction(t))
  /\ UNCHANGED <<memory, readers, writer, requestVars, outbox, fate, pruneVars,
                 world>>

\* release_client
Release(w) ==
  LET s == slot[w] IN
  /\ pc[w] = "release"
  /\ LockFree(s)
  /\ pullLock' = [pullLock EXCEPT ![s] = None]
  /\ refcount' = [refcount EXCEPT ![s] = Dec(refcount[s], RefWrap)]
  /\ slot' = [slot EXCEPT ![w] = None]
  /\ Goto(w, "depart")
  /\ UNCHANGED <<mode, pass, pollVars, nChannels, tableVars, locks, kind, view,
                 inserts, outbox, stamp, fate, pruneVars, world>>

\* The response reaches the browser: the page view of a served page opens, and
\* that of an aborted request never exists.
Respond(w) ==
  IF kind[w] = "page" /\ view[w] # None
  THEN tab' = [tab EXCEPT ![view[w]] = IF fate[w] = "served" THEN "open" ELSE "aborted"]
  ELSE UNCHANGED tab

\* uw_transaction_departs: unlocking the rwlock once more than it was locked
\* takes away another reader's share of it, or wraps its count around.
Departs == readers' = Dec(readers, ReaderWrap)

\* The end of one round of the loop in uw_request.  After a failed COMMIT with
\* an onError handler, the code departs and then falls through to the rollback
\* and the departure that all other failures share.
Depart(w) ==
  /\ pc[w] = "depart"
  /\ Departs
  /\ Respond(w)
  /\ \/ /\ fate[w] \in {"served", "failed"}
        /\ Goto(w, "idle")
        /\ kind' = [kind EXCEPT ![w] = "plain"]
        /\ view' = [view EXCEPT ![w] = None]
     \/ /\ fate[w] = "retry"
        /\ Goto(w, "arrive")
        /\ UNCHANGED kind
        /\ view' = IF kind[w] = "page" THEN [view EXCEPT ![w] = None] ELSE view
     \/ /\ fate[w] \in {"onError", "commitError"}
        /\ Goto(w, IF fate[w] = "onError" THEN "arrive" ELSE "rollback")
        /\ kind' = [kind EXCEPT ![w] = "error"]
        /\ view' = [view EXCEPT ![w] = None]
  /\ fate' = [fate EXCEPT ![w] = "served"]
  /\ UNCHANGED <<memory, writer, msgMutex, slot, inserts, outbox, stamp,
                 pruneVars, rows, at, listening, got, bounds>>

\* The second departure, after the rollback of the failed COMMIT.
DepartAgain(w) ==
  /\ pc[w] = "rollback"
  /\ Departs
  /\ Goto(w, "arrive")
  /\ UNCHANGED <<memory, writer, msgMutex, contextVars, pruneVars, world>>

-----------------------------------------------------------------------------
(* uw_prune_clients *)

\* Fault: the expunger takes the lock as a reader.
ArrivesAsReader == ~writer

\* When uw_expunger_arrives gets the lock, as a writer.
MayArrive == readers = 0

\* uw_expunger_arrives, clients_mutex, and the head of the list.
ExpungerArrives ==
  /\ pc[Pruner] = "sleep"
  /\ MayArrive
  /\ writer' = TRUE
  /\ unscanned' = usedList
  /\ Goto(Pruner, "scan")
  /\ UNCHANGED <<memory, readers, msgMutex, contextVars, victim, world>>

Doomed(s) == stale[s] /\ refcount[s] = 0

Skip(s) ==
  /\ pc[Pruner] = "scan"
  /\ s \in unscanned
  /\ ~Doomed(s)
  /\ unscanned' = unscanned \ {s}
  /\ UNCHANGED <<memory, locks, threadVars, victim, world>>

\* The client leaves the list of used ones before its expunger runs; its lock
\* is held until the scan goes on.
Unlink(s) ==
  /\ pc[Pruner] = "scan"
  /\ s \in unscanned
  /\ Doomed(s)
  /\ unscanned' = unscanned \ {s}
  /\ usedList' = usedList \ {s}
  /\ victim' = s
  /\ Goto(Pruner, "handler")
  /\ UNCHANGED <<clientVars, allocated, freeList, locks, contextVars, world>>

\* A clientLeaves task sends on a channel it finds in the database: the tasks
\* run before the statements that delete the rows of the leaving client.
LeaveSend(ch) ==
  /\ pc[Pruner] = "handler"
  /\ \/ LeaveTask = "everyone"
     \/ LeaveTask = "others" /\ ch.cli # victim
  /\ ch \in rows
  /\ \A i \in DOMAIN outbox[Pruner] :
       \A j \in DOMAIN outbox[Pruner][i].msgs : outbox[Pruner][i].msgs[j] # ch
  /\ outbox' = [outbox EXCEPT ![Pruner] = AddToDeltas(outbox[Pruner], ch)]
  /\ UNCHANGED <<memory, locks, pc, requestVars, stamp, fate, pruneVars, world>>

\* Fault: the expunger misses the rows of the leaving client.
ExpungedNone(s) == {}

\* The rows the generated expunger deletes.
Expunged(s) == {ch \in rows : ch.cli = s}

\* uw_expunge returns SUCCESS: the rows of the client are gone.
ExpungeCommit ==
  /\ pc[Pruner] = "commit"
  /\ rows' = rows \ Expunged(victim)
  /\ TakePlace(Pruner)
  /\ Goto(Pruner, "deliver")
  /\ UNCHANGED <<memory, locks, requestVars, outbox, fate, pruneVars, pageVars,
                 sends, crashes>>

\* A serialization failure runs the expunger again.
ExpungeAgain ==
  /\ pc[Pruner] = "commit"
  /\ Unlock(Pruner)
  /\ outbox' = [outbox EXCEPT ![Pruner] = <<>>]
  /\ Goto(Pruner, "handler")
  /\ UNCHANGED <<memory, readers, writer, requestVars, stamp, fate, pruneVars,
                 world>>

\* A COMMIT that fails for good: uw_commit returns 0, uw_expunge SUCCESS.
ExpungeLost ==
  /\ pc[Pruner] = "commit"
  /\ CleanupErrors
  /\ Unlock(Pruner)
  /\ outbox' = [outbox EXCEPT ![Pruner] = <<>>]
  /\ Goto(Pruner, "free")
  /\ UNCHANGED <<memory, readers, writer, requestVars, stamp, fate, pruneVars,
                 world>>

\* The expunger raises an error: the scan goes on, and the client stays used
\* though no list holds it.
ExpungeBlocked ==
  /\ pc[Pruner] = "handler"
  /\ ExpungeFails
  /\ outbox' = [outbox EXCEPT ![Pruner] = <<>>]
  /\ victim' = None
  /\ Goto(Pruner, "scan")
  /\ UNCHANGED <<memory, locks, requestVars, stamp, fate, unscanned, world>>

\* free_client: neither the socket nor the buffer of the client is touched.
FreeClient ==
  /\ pc[Pruner] = "free"
  /\ mode' = [mode EXCEPT ![victim] = "UNUSED"]
  /\ pass' = [pass EXCEPT ![victim] = None]
  /\ freeList' = freeList \cup {victim}
  /\ victim' = None
  /\ Goto(Pruner, "scan")
  /\ UNCHANGED <<pollVars, useVars, allocated, usedList, locks, contextVars,
                 unscanned, world>>

\* uw_expunger_departs, after the last client of the list.
ExpungerDeparts ==
  /\ pc[Pruner] = "scan"
  /\ unscanned = {}
  /\ writer' = FALSE
  /\ Goto(Pruner, "sleep")
  /\ UNCHANGED <<memory, readers, msgMutex, contextVars, pruneVars, world>>

-----------------------------------------------------------------------------
(* Browsers and the passing of time. *)

\* Fault: the buffer of the client is not looked at.
WaitingNone(s) == FALSE

Waiting(s) == msgs[s] # <<>>

\* uw_client_connect for the long poll of an open page.  A page the server
\* does not know any more is told so ("R") and starts over as another view.
Connect(p) ==
  LET s == at[p] IN
  /\ pc[Pruner] # "boot"
  /\ tab[p] = "open"
  /\ LockFree(s)
  /\ IF s \notin allocated \/ mode[s] # "USED" \/ pass[s] # p
     THEN /\ tab' = [tab EXCEPT ![p] = "gone"]
          /\ listening' = listening \ {p}
          /\ UNCHANGED <<pollVars, got>>
     ELSE /\ stale' = [stale EXCEPT ![s] = FALSE]
          /\ IF Waiting(s)
             THEN /\ sock' = [sock EXCEPT ![s] = None]
                  /\ got' = [got EXCEPT ![p] = @ \o msgs[s]]
                  /\ msgs' = [msgs EXCEPT ![s] = <<>>]
                  /\ listening' = listening \ {p}
             ELSE /\ sock' = [sock EXCEPT ![s] = p]
                  /\ listening' = listening \cup {p}
                  /\ UNCHANGED <<msgs, got>>
          /\ UNCHANGED tab
  /\ UNCHANGED <<mode, pass, useVars, tableVars, locks, threadVars, pruneVars,
                 rows, at, bounds>>

\* The page aborts its poll, as listener() in urweb.js does before it polls
\* again, or its connection breaks: the server does not notice.
HangUp(p) ==
  /\ p \in listening
  /\ listening' = listening \ {p}
  /\ UNCHANGED <<memory, locks, threadVars, pruneVars, rows, tab, at, got,
                 bounds>>

\* The user leaves the page view.
Leave(p) ==
  /\ tab[p] = "open"
  /\ tab' = [tab EXCEPT ![p] = "gone"]
  /\ listening' = listening \ {p}
  /\ UNCHANGED <<memory, locks, threadVars, pruneVars, rows, at, got, bounds>>

\* The timeout passes since the last contact with the client.
Expire(s) ==
  /\ mode[s] = "USED"
  /\ ~stale[s]
  /\ stale' = [stale EXCEPT ![s] = TRUE]
  /\ UNCHANGED <<mode, pass, sock, msgs, useVars, tableVars, locks, threadVars,
                 pruneVars, world>>

-----------------------------------------------------------------------------
Login(w) ==
  \/ SkipLogin(w)
  \/ RefuseLogin(w)
  \/ \E s \in Slots, p \in Pages : NewClient(w, s, p)
  \/ FindClient(w)

Handle(w) ==
  \/ NewChannel(w)
  \/ \E ch \in rows \cup inserts[w] : Send(w, ch)
  \/ \E f \in Failure(w) : HandlerFails(w, f)

EndCommit(w) == Commit(w) \/ CommitFails(w)

Leaving(w) == Release(w) \/ Depart(w) \/ DepartAgain(w)

\* What a worker does once it has a request.
Work(w) ==
  \/ ArriveAgain(w) \/ Login(w) \/ Pull(w) \/ Handle(w) \/ StartCommit(w)
  \/ EndCommit(w) \/ Deliver(w) \/ FinishDelivery(w) \/ Leaving(w)

Prune ==
  \/ ExpungerArrives
  \/ \E s \in Slots : Skip(s) \/ Unlink(s)
  \/ \E ch \in rows : LeaveSend(ch)
  \/ StartCommit(Pruner) \/ Deliver(Pruner) \/ FinishDelivery(Pruner)
  \/ ExpungeCommit \/ ExpungeAgain \/ ExpungeLost \/ ExpungeBlocked
  \/ FreeClient \/ ExpungerDeparts

Browse(p) == Connect(p) \/ HangUp(p) \/ Leave(p)

Next ==
  \/ Initialize
  \/ Crash
  \/ \E w \in Workers : Request(w) \/ Work(w)
  \/ Prune
  \/ \E p \in Pages : Browse(p)
  \/ \E s \in Slots : Expire(s)

Spec == Init /\ [][Next]_vars

-----------------------------------------------------------------------------
(* Safety. *)

InTransaction(w) ==
  pc[w] \in {"login", "pull", "handler", "commit", "deliver", "release", "depart"}

\* The expunger never runs together with another transaction: the comment on
\* expunge_lock in urweb.c rests the reuse of client ids on it.
ExpungerAlone == writer => \A w \in Workers : ~InTransaction(w)

\* A channel belongs to the page view that created it, as long as its slot is
\* that view's: true of the rows that the next transactions will read, of the
\* rows a running transaction adds and of the messages it has queued.
Owned(ch) == mode[ch.cli] = "USED" /\ pass[ch.cli] = ch.own
ChannelsOwned ==
  pc[Pruner] # "boot" =>
    /\ \A ch \in rows : Owned(ch)
    /\ \A w \in Workers : \A ch \in inserts[w] : Owned(ch)

\* No page view ever receives a message sent on a channel of another one, even
\* though their clients have the same id (new_client reuses it, client_send
\* looks a client up by its id alone).
NoForeignDelivery ==
  \A p \in Pages : \A i \in DOMAIN got[p] : got[p][i].chan.own = p

\* The assertion of uw_commit: the client of every queued message is one that
\* this server process has allocated.
KnownClient ==
  \A t \in Threads : \A i \in DOMAIN outbox[t] : outbox[t][i].client \in allocated

\* The messages of a page arrive in the order in which their transactions
\* committed, those of one transaction together and none of them twice
\* (uw_commit keeps message_send_mutex over COMMIT and delivery).
CommitOrder ==
  \A s \in Slots : mode[s] = "USED" =>
    LET seen == got[pass[s]] \o msgs[s]
    IN  \A i, j \in DOMAIN seen :
          i < j => \/ seen[i].txn < seen[j].txn
                   \/ seen[i].txn = seen[j].txn /\ seen[i].pos < seen[j].pos

\* All messages of a transaction are sent as one unit: while one is still
\* sending, no client has a message of a later one.
AtomicUnits ==
  \A t \in Threads : pc[t] = "deliver" /\ outbox[t] # <<>> =>
    /\ \A p \in Pages : \A i \in DOMAIN got[p] : got[p][i].txn <= stamp[t]
    /\ \A s \in Slots : \A i \in DOMAIN msgs[s] : msgs[s][i].txn <= stamp[t]

\* A parked poll never sleeps next to a message that waits for one: the race
\* between client_send and uw_client_connect.
NoSleepingMail ==
  \A s \in Slots : mode[s] = "USED" /\ sock[s] # None => msgs[s] = <<>>

\* A client is collected only when it is still not heard from at that moment
\* and no request uses it, and no row keeps a channel of it: a poll that comes
\* in while its expunger runs does not find a client that is freed under it.
Collects(s) == crashes' = crashes /\ mode[s] = "USED" /\ mode'[s] = "UNUSED"
CollectedOnlyIfStale ==
  [][\A s \in Slots : Collects(s) =>
       /\ stale[s]
       /\ \A w \in Workers : slot[w] # s
       /\ \A ch \in rows' : ch.cli # s]_vars

-----------------------------------------------------------------------------
(* Liveness.  Threads run and locks are granted to whoever waits for them;   *)
(* the timeout passes; a page that stays open polls again and again          *)
(* (listener() in urweb.js); serialization failures end some day.  Users and *)
(* networks owe nothing.                                                     *)
Fairness ==
  /\ WF_vars(Initialize)
  /\ \A w \in Workers : /\ WF_vars(Work(w))
                        /\ SF_vars(ArriveAgain(w))
                        /\ SF_vars(Pull(w))
                        /\ SF_vars(StartCommit(w))
  /\ WF_vars(Prune)
  /\ SF_vars(ExpungerArrives)
  /\ SF_vars(StartCommit(Pruner))
  /\ SF_vars(ExpungeCommit)
  /\ \A s \in Slots : WF_vars(Expire(s))
  /\ \A p \in Pages : WF_vars(Connect(p))

FairSpec == Spec /\ Fairness

\* A page view that is gone, or whose request was aborted before the browser
\* knew of it, is garbage-collected in the end.
Dead(p) == tab[p] \in {"gone", "aborted"} /\ at[p] # None /\ pass[at[p]] = p
CollectedEventually ==
  \A p \in Pages : Dead(p) ~> at[p] = None \/ pass[at[p]] # p

\* The same, as long as the requests come to an end: the reader lock may
\* otherwise keep the expunger out for ever.
CollectedWhenQuiet ==
  <>[](\A w \in Workers : pc[w] = "idle") => CollectedEventually

\* Mail in the buffer of an open page does not stay there.
HasMail(p) ==
  tab[p] = "open" /\ at[p] # None /\ pass[at[p]] = p /\ msgs[at[p]] # <<>>
MailIsTaken == \A p \in Pages : HasMail(p) ~> ~HasMail(p)

=============================================================================
