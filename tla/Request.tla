------------------------------ MODULE Request ------------------------------
(***************************************************************************)
(* One thread that runs uw_request (src/urweb/src/c/request.c) again and   *)
(* again on its context: attempts of the page function and of the onError  *)
(* handler, uw_commit and uw_rollback (urweb.c) with the two phases of     *)
(* transactionals around the database's COMMIT, and everything an attempt  *)
(* must give back: the expunge lock, the client, the database transaction, *)
(* the data of the transactionals.                                         *)
(***************************************************************************)
EXTENDS Integers, Sequences

CONSTANTS
  MaxRetries,   \* MAX_RETRIES
  OnError,      \* the application declares an onError handler
  Conflicts,    \* COMMIT may meet a serialization failure (it returns -1)
  CommitErrors, \* COMMIT may fail for good (it returns 1)
  MaxRequests,  \* bound: requests of the thread
  MaxEffects,   \* bound: transactionals registered during one request
  MaxUnlimited  \* bound: errors of the kind UNLIMITED_RETRY in one request

ASSUME LimitsAssumption ==
  /\ MaxRetries \in Nat
  /\ MaxRequests \in Nat
  /\ MaxEffects \in Nat
  /\ MaxUnlimited \in Nat

ASSUME SwitchesAssumption ==
  OnError \in BOOLEAN /\ Conflicts \in BOOLEAN /\ CommitErrors \in BOOLEAN

VARIABLES
  pc,
  \* locals of uw_request
  retriesLeft, hadError, fk,
  \* struct uw_context: whether error_message is set, transaction_started,
  \* whether client is set, and the transactionals: those after base
  error, started, client, base,
  \* the connection: whether there is one, and whether the transaction open on it
  \* was begun by this attempt ("own") or an earlier one ("stray")
  conn, tx,
  \* shares of the expunge lock and of the client's refcount the thread holds
  held, uses,
  \* ghosts: all transactionals of the request, how often the page function's work
  \* was committed, what uw_request returned
  effects, stored, answer,
  \* ghosts that bound the model
  requests, unlimited

locals  == <<retriesLeft, hadError, fk>>
context == <<error, started, client, base>>
db      == <<conn, tx>>
ghosts  == <<stored, answer>>
bounds  == <<requests, unlimited>>
vars == <<pc, locals, context, db, held, uses, effects, ghosts, bounds>>

-----------------------------------------------------------------------------
\* A transactional.  One without a rollback function is final: it cannot be
\* undone.  The other fields are ghosts: which of its functions were called, how
\* often free was, and whether the COMMIT of its attempt took place.
Effect == [final : BOOLEAN, ran : BOOLEAN, undone : BOOLEAN, freed : Nat,
           durable : BOOLEAN]

Labels == {"idle", "inputs", "arrive", "login", "onError", "handler", "prepare", "commit",
           "finalize", "endCommit", "failed", "rollback"}

FlagsOK ==
  /\ hadError \in BOOLEAN
  /\ error \in BOOLEAN
  /\ started \in BOOLEAN
  /\ client \in BOOLEAN
  /\ conn \in BOOLEAN

CountsOK ==
  /\ pc \in Labels
  /\ retriesLeft \in 0..MaxRetries
  /\ fk \in {"FATAL", "BOUNDED_RETRY", "UNLIMITED_RETRY"}
  /\ base \in 0..Len(effects)
  /\ tx \in {"none", "own", "stray"}
  /\ held \in Int
  /\ uses \in Int
  /\ effects \in Seq(Effect)
  /\ stored \in Nat
  /\ answer \in {"none", "SERVED", "FAILED"}
  /\ requests \in Nat
  /\ unlimited \in Nat

TypeOK == FlagsOK /\ CountsOK

Init ==
  /\ pc = "idle"
  /\ retriesLeft = 0 /\ hadError = FALSE /\ fk = "FATAL"
  /\ error = FALSE /\ started = FALSE /\ client = FALSE /\ base = 0
  /\ conn = TRUE /\ tx = "none"
  /\ held = 0 /\ uses = 0
  /\ effects = <<>>
  /\ stored = 0 /\ answer = "none"
  /\ requests = 0 /\ unlimited = 0

\* The transactionals the context knows.
Registered == (base + 1)..Len(effects)

\* What becomes of the registered ones: f gives an effect's new record.
Change(f) == [i \in DOMAIN effects |-> IF i \in Registered THEN f[i] ELSE effects[i]]

-----------------------------------------------------------------------------
(* Rollback *)

\* Fault: the transactionals of an aborted attempt are not undone.
FreeOnly(i) == [effects[i] EXCEPT !.freed = effects[i].freed + 1]

\* The rollback function, then the free function.
UndoAndFree(i) ==
  [effects[i] EXCEPT !.undone = effects[i].undone \/ ~effects[i].final,
                     !.freed = effects[i].freed + 1]

UndoAndFreeAll == Change([i \in Registered |-> UndoAndFree(i)])

FreeAll == Change([i \in Registered |-> FreeOnly(i)])

\* Fault: transaction_started is not reset.
DbRollbackStarted(failed) ==
  /\ UNCHANGED started
  /\ IF started
     THEN /\ failed \/ (conn /\ tx' = "none")
          /\ failed => tx' \in {"none", tx}
     ELSE ~failed /\ UNCHANGED tx

\* db_rollback, if a transaction was started.  It fails without a connection,
\* or when the server is gone; SQLite also fails if nothing is to be undone.
DbRollback(failed) ==
  /\ started' = FALSE
  /\ IF started
     THEN /\ failed \/ (conn /\ tx' = "none")
          /\ failed => tx' \in {"none", tx}
     ELSE ~failed /\ UNCHANGED tx

\* uw_rollback on a context with its transactionals and its client.
Rollback(failed) ==
  /\ uses' = IF client THEN uses - 1 ELSE uses
  /\ effects' = UndoAndFreeAll
  /\ DbRollback(failed)

\* uw_request departs and returns.
Return(result) ==
  /\ held' = held - 1
  /\ answer' = result
  /\ pc' = "idle"

\* uw_reset_keep_error_message: the context forgets its client and its
\* transactionals.
ResetKeepErrorMessage ==
  /\ client' = FALSE
  /\ base' = Len(effects)

-----------------------------------------------------------------------------
(* An attempt *)

\* uw_reset on the context of the former request, whose connection is kept.
Request ==
  /\ pc = "idle"
  /\ requests < MaxRequests
  /\ requests' = requests + 1
  /\ retriesLeft' = MaxRetries
  /\ hadError' = FALSE
  /\ error' = FALSE /\ started' = FALSE /\ client' = FALSE
  /\ base' = 0 /\ effects' = <<>>
  /\ stored' = 0 /\ answer' = "none" /\ unlimited' = 0
  /\ pc' = "inputs"
  /\ UNCHANGED <<fk, db, held, uses>>

\* The headers and the form are read before the loop: a request that cannot be
\* read is refused while nothing is held for it.
ReadInputs ==
  /\ pc = "inputs"
  /\ \/ pc' = "arrive" /\ UNCHANGED answer
     \/ pc' = "idle" /\ answer' = "FAILED"
  /\ UNCHANGED <<locals, context, db, held, uses, effects, stored, bounds>>

\* uw_transaction_arrives and the call of uw_begin or uw_begin_onError.
Arrive ==
  /\ pc = "arrive"
  /\ held' = held + 1
  /\ tx' = IF tx = "own" THEN "stray" ELSE tx
  /\ pc' = IF hadError THEN "onError" ELSE "login"
  /\ UNCHANGED <<locals, context, conn, uses, effects, ghosts, bounds>>

\* uw_error: the attempt is given up.
Raise(kind) ==
  /\ fk' = kind
  /\ error' = TRUE
  /\ pc' = "failed"

\* uw_login: a client is used before the checks that may refuse it.
Login ==
  /\ pc = "login"
  /\ \/ /\ client' = TRUE
        /\ uses' = uses + 1
     \/ UNCHANGED <<client, uses>>
  /\ \/ pc' = "handler" /\ UNCHANGED <<fk, error>>
     \/ Raise("FATAL")
  /\ UNCHANGED <<retriesLeft, hadError, started, base, db, held, effects, ghosts,
                 bounds>>

\* uw_ensure_transaction, at the first use of the database: a BEGIN that fails,
\* as one does in SQLite if a transaction is open, is tried again on a new
\* connection, which has none.
EnsureTransaction ==
  /\ pc \in {"handler", "onError"}
  /\ ~started
  /\ \/ /\ conn' = TRUE
        /\ tx' = "own"
        /\ started' = TRUE
        /\ pc' = "handler"
        /\ UNCHANGED <<fk, error>>
     \/ /\ conn' = FALSE
        /\ tx' = "none"
        /\ \E kind \in {"BOUNDED_RETRY", "FATAL"} : Raise(kind)
        /\ UNCHANGED started
     \/ /\ conn' = TRUE
        /\ tx' = "none"
        /\ Raise("FATAL")
        /\ UNCHANGED started
  /\ UNCHANGED <<retriesLeft, hadError, client, base, held, uses, effects, ghosts,
                 bounds>>

\* uw_register_transactional
Register(final) ==
  /\ pc = "handler"
  /\ Len(effects) < MaxEffects
  /\ effects' = Append(effects,
       [final |-> final, ran |-> FALSE, undone |-> FALSE, freed |-> 0,
        durable |-> FALSE])
  /\ UNCHANGED <<pc, locals, context, db, held, uses, ghosts, bounds>>

\* Foreign code sets the error message and goes on.
SoftError ==
  /\ pc = "handler"
  /\ error' = TRUE
  /\ UNCHANGED <<pc, locals, started, client, base, db, held, uses, effects, ghosts,
                 bounds>>

\* An error of the page function, of a query or of the deadline.
HandlerFails(kind) ==
  /\ pc = "handler"
  /\ IF kind = "UNLIMITED_RETRY"
     THEN unlimited < MaxUnlimited /\ unlimited' = unlimited + 1
     ELSE UNCHANGED unlimited
  /\ Raise(kind)
  /\ UNCHANGED <<retriesLeft, hadError, started, client, base, db, held, uses,
                 effects, ghosts, requests>>

\* uw_try_reconnecting_and_restarting: the server is lost in a transaction.
\* db_init may fail with a kind of its own.
ConnectionLost ==
  /\ pc = "handler"
  /\ started
  /\ conn' \in BOOLEAN
  /\ tx' = "none"
  /\ \E kind \in {"BOUNDED_RETRY", "FATAL"} : Raise(kind)
  /\ UNCHANGED <<retriesLeft, hadError, started, client, base, held, uses, effects,
                 ghosts, bounds>>

\* SUCCESS or RETURN_INDIRECTLY, and the entry of uw_commit.
HandlerReturns ==
  /\ pc = "handler"
  /\ pc' = "prepare"
  /\ UNCHANGED <<locals, context, db, held, uses, effects, ghosts, bounds>>

-----------------------------------------------------------------------------
(* uw_commit *)

\* The commit functions run from the last transactional to the first.
Pending(final) ==
  {i \in Registered : effects[i].final = final /\ ~effects[i].ran}
IsNext(i, final) == i \in Pending(final) /\ \A j \in Pending(final) : j <= i

\* An error in the first phase, or before it, rolls back.
PrepareFails ==
  /\ pc = "prepare"
  /\ error
  /\ \E failed \in BOOLEAN : Rollback(failed)
  /\ pc' = "endCommit"
  /\ UNCHANGED <<locals, error, client, base, conn, held, ghosts, bounds>>

\* First phase: the transactionals that can be undone.
Prepare(i) ==
  /\ pc = "prepare"
  /\ ~error
  /\ IsNext(i, FALSE)
  /\ effects' = [effects EXCEPT ![i].ran = TRUE]
  /\ error' \in BOOLEAN
  /\ UNCHANGED <<pc, locals, started, client, base, db, held, uses, ghosts, bounds>>

\* Fault: the final transactionals run before COMMIT.
PreparedAll ==
  /\ pc = "prepare"
  /\ ~error
  /\ Pending(FALSE) = {}
  /\ effects' = [i \in DOMAIN effects |->
                   [effects[i] EXCEPT !.ran = @ \/ i \in Registered]]
  /\ pc' = "commit"
  /\ UNCHANGED <<locals, context, db, held, uses, ghosts, bounds>>

Prepared ==
  /\ pc = "prepare"
  /\ ~error
  /\ Pending(FALSE) = {}
  /\ pc' = "commit"
  /\ UNCHANGED <<locals, context, db, held, uses, effects, ghosts, bounds>>

\* The data of this attempt are in the database.
Store(es) ==
  /\ effects' = [i \in DOMAIN es |->
                   [es[i] EXCEPT !.durable = @ \/ i \in Registered]]
  /\ stored' = IF hadError THEN stored ELSE stored + 1

\* db_commit returns 0, or there is no transaction to commit.
Commit ==
  /\ pc = "commit"
  /\ started => conn
  /\ tx' = IF started THEN "none" ELSE tx
  /\ Store(effects)
  /\ pc' = "finalize"
  /\ UNCHANGED <<locals, context, conn, held, uses, answer, bounds>>

ReleaseClient == uses' = IF client THEN uses - 1 ELSE uses

\* db_commit returns -1, a serialization failure.
CommitConflict ==
  /\ pc = "commit"
  /\ Conflicts
  /\ started
  /\ tx' = "none"
  /\ ReleaseClient
  /\ effects' = UndoAndFreeAll
  /\ pc' = "endCommit"
  /\ UNCHANGED <<locals, context, conn, held, ghosts, bounds>>

\* db_commit returns 1: the transaction was aborted, is still open (SQLite), or
\* the connection is lost, and with it the knowledge whether it was committed.
CommitFails ==
  /\ pc = "commit"
  /\ CommitErrors
  /\ started
  /\ ReleaseClient
  /\ \/ /\ tx' \in {"none", tx}
        /\ conn' = conn \/ (conn' = FALSE /\ tx' = "none")
        /\ effects' = FreeAll
        /\ UNCHANGED stored
     \/ /\ tx' = "none"
        /\ conn' = FALSE
        /\ Store(FreeAll)
  /\ error' = TRUE
  /\ pc' = "endCommit"
  /\ UNCHANGED <<locals, started, client, base, held, answer, bounds>>

\* Second phase: the transactionals that cannot be undone.
Finalize(i) ==
  /\ pc = "finalize"
  /\ ~error
  /\ IsNext(i, TRUE)
  /\ effects' = [effects EXCEPT ![i].ran = TRUE]
  /\ error' \in BOOLEAN
  /\ UNCHANGED <<pc, locals, started, client, base, db, held, uses, ghosts, bounds>>

\* One of them fails: no messages are sent, and the others are undone although
\* the data are committed.
FinalizeFails ==
  /\ pc = "finalize"
  /\ error
  /\ ReleaseClient
  /\ effects' = UndoAndFreeAll
  /\ pc' = "endCommit"
  /\ UNCHANGED <<locals, context, db, held, ghosts, bounds>>

\* Fault: the data of the transactionals are not freed after a commit.
FinalizedKeep ==
  /\ pc = "finalize"
  /\ ~error
  /\ Pending(TRUE) = {}
  /\ ReleaseClient
  /\ pc' = "endCommit"
  /\ UNCHANGED <<locals, context, db, held, effects, ghosts, bounds>>

\* Fault: the client of the request is not released after a commit.
FinalizedHolding ==
  /\ pc = "finalize"
  /\ ~error
  /\ Pending(TRUE) = {}
  /\ effects' = FreeAll
  /\ pc' = "endCommit"
  /\ UNCHANGED <<locals, context, db, held, uses, ghosts, bounds>>

\* The messages are sent, the client is released.
Finalized ==
  /\ pc = "finalize"
  /\ ~error
  /\ Pending(TRUE) = {}
  /\ ReleaseClient
  /\ effects' = FreeAll
  /\ pc' = "endCommit"
  /\ UNCHANGED <<locals, context, db, held, ghosts, bounds>>

-----------------------------------------------------------------------------
(* The rest of the loop in uw_request *)

\* uw_commit has set no error, or the onError handler is what was committed.
Answer ==
  /\ pc = "endCommit"
  /\ ~error \/ hadError
  /\ Return(IF hadError THEN "FAILED" ELSE "SERVED")
  /\ UNCHANGED <<locals, context, db, uses, effects, stored, bounds>>

\* Fault: a failed COMMIT calls the page function again.
TurnToPage ==
  /\ pc = "endCommit"
  /\ error /\ ~hadError
  /\ OnError
  /\ ResetKeepErrorMessage
  /\ held' = held - 1
  /\ pc' = "rollback"
  /\ UNCHANGED <<locals, error, started, db, uses, effects, ghosts, bounds>>

\* uw_commit has set an error and there is an onError handler: the thread
\* departs, and once more in NextRound or RollbackFails.
TurnToOnError ==
  /\ pc = "endCommit"
  /\ error /\ ~hadError
  /\ OnError
  /\ ResetKeepErrorMessage
  /\ hadError' = TRUE
  /\ held' = held - 1
  /\ pc' = "rollback"
  /\ UNCHANGED <<retriesLeft, fk, error, started, db, uses, effects, ghosts, bounds>>

\* uw_commit has set an error and there is none.  The context has already
\* forgotten its client and its transactionals.
CommitIsFatal ==
  /\ pc = "endCommit"
  /\ error /\ ~hadError
  /\ ~OnError
  /\ ResetKeepErrorMessage
  /\ \E failed \in BOOLEAN : DbRollback(failed)
  /\ Return("FAILED")
  /\ UNCHANGED <<locals, error, conn, uses, effects, stored, bounds>>

\* Fault: a bounded retry is not counted.
MayRetryUncounted ==
  /\ fk \in {"BOUNDED_RETRY", "UNLIMITED_RETRY"}
  /\ UNCHANGED retriesLeft

\* Fault: the retries left are not looked at.
MayRetryUnchecked ==
  \/ fk = "UNLIMITED_RETRY" /\ UNCHANGED retriesLeft
  \/ fk = "BOUNDED_RETRY" /\ retriesLeft' = retriesLeft - 1

\* Another attempt of the same handler.
MayRetry ==
  \/ fk = "UNLIMITED_RETRY" /\ UNCHANGED retriesLeft
  \/ /\ fk = "BOUNDED_RETRY"
     /\ retriesLeft > 0
     /\ retriesLeft' = retriesLeft - 1

GivesUp == fk = "FATAL" \/ (fk = "BOUNDED_RETRY" /\ retriesLeft = 0)

Retry ==
  /\ pc = "failed"
  /\ MayRetry
  /\ pc' = "rollback"
  /\ UNCHANGED <<hadError, fk, context, db, held, uses, effects, ghosts, bounds>>

\* The onError handler is the next attempt.
FailToOnError ==
  /\ pc = "failed"
  /\ GivesUp
  /\ OnError /\ ~hadError
  /\ hadError' = TRUE
  /\ pc' = "rollback"
  /\ UNCHANGED <<retriesLeft, fk, context, db, held, uses, effects, ghosts, bounds>>

FailIsFatal ==
  /\ pc = "failed"
  /\ GivesUp
  /\ ~OnError \/ hadError
  /\ \E failed \in BOOLEAN : Rollback(failed)
  /\ Return("FAILED")
  /\ ResetKeepErrorMessage
  /\ UNCHANGED <<locals, error, conn, stored, bounds>>

\* try_rollback, departure, uw_reset_keep_request and the next round of the loop.
NextRound ==
  /\ pc = "rollback"
  /\ Rollback(FALSE)
  /\ held' = held - 1
  /\ ResetKeepErrorMessage
  /\ error' = FALSE
  /\ pc' = "arrive"
  /\ UNCHANGED <<locals, conn, ghosts, bounds>>

\* ROLLBACK itself fails: the request ends without another attempt.
RollbackFails ==
  /\ pc = "rollback"
  /\ Rollback(TRUE)
  /\ Return("FAILED")
  /\ ResetKeepErrorMessage
  /\ UNCHANGED <<locals, error, conn, stored, bounds>>

-----------------------------------------------------------------------------
Handle ==
  \/ EnsureTransaction
  \/ \E final \in BOOLEAN : Register(final)
  \/ SoftError
  \/ \E kind \in {"FATAL", "BOUNDED_RETRY", "UNLIMITED_RETRY"} : HandlerFails(kind)
  \/ ConnectionLost
  \/ HandlerReturns

UwCommit ==
  \/ PrepareFails
  \/ \E i \in DOMAIN effects : Prepare(i) \/ Finalize(i)
  \/ Prepared \/ Commit \/ CommitConflict \/ CommitFails
  \/ FinalizeFails \/ Finalized

EndRound ==
  \/ Answer \/ TurnToOnError \/ CommitIsFatal
  \/ Retry \/ FailToOnError \/ FailIsFatal
  \/ NextRound \/ RollbackFails

\* What the thread does once it has a request.
Work == ReadInputs \/ Arrive \/ Login \/ Handle \/ UwCommit \/ EndRound

Next == Request \/ Work

Spec == Init /\ [][Next]_vars

\* The thread runs, and a handler returns or fails in the end.
Fairness == WF_vars(Work)
FairSpec == Spec /\ Fairness

-----------------------------------------------------------------------------
(* Properties *)

\* The thread holds nothing for an attempt.
BetweenAttempts == pc \in {"idle", "inputs", "arrive"}

\* Whatever fails and is tried again, an attempt gives back what it has taken
\* of the client's refcount: between requests nothing is left of it, and it is
\* given back once only.
ClientBalanced ==
  /\ uses \in {0, 1}
  /\ BetweenAttempts => uses = 0

\* The data of a transactional are freed exactly once, on each of the paths out
\* of an attempt (uw_commit and uw_rollback have five loops that free them, and
\* uw_request may call one after the other).
FreedOnce ==
  \A i \in DOMAIN effects :
    /\ effects[i].freed <= 1
    /\ BetweenAttempts => effects[i].freed = 1

\* What cannot be undone is done only when the data are committed.
FinalsAfterCommit ==
  \A i \in DOMAIN effects : effects[i].final /\ effects[i].ran => effects[i].durable

\* What was done for an attempt whose data are not committed is undone.
UndoneUnlessCommitted ==
  BetweenAttempts =>
    \A i \in DOMAIN effects :
      effects[i].ran /\ ~effects[i].durable => effects[i].undone

\* An attempt works in a transaction of its own, never in one that another
\* attempt, or another request, has left open on the connection.
OwnTransaction == pc \in {"handler", "prepare", "commit"} /\ started => tx = "own"

\* A serialization failure at COMMIT is not an error: the transaction restarts.
\* So a request is not served unless its work is committed.
ServedIsCommitted == answer = "SERVED" => stored = 1

\* Each request keeps the promise of Transaction: its work is committed at most
\* once, and it is served only if it is.
Promise == INSTANCE Transaction WITH stored <- stored, answer <- answer
PromiseKept == Promise!Spec

\* Each request is answered: retries come to an end.
Answered == pc = "inputs" ~> pc = "idle"

=============================================================================
