--------------------------- MODULE RequestProofs ---------------------------
(***************************************************************************)
(* Theorems about Request, for every value of its constants: its types,    *)
(* the counts of its client, the promise of Transaction, and the           *)
(* transactionals with the transaction they belong to.  And about the      *)
(* texts that a request writes: no conversion writes more bytes than it    *)
(* has reserved, for strings and numbers of any length, but for the cases  *)
(* that RoomEnough of Values names.                                        *)
(***************************************************************************)
EXTENDS Request, Values, FiniteSetTheorems, TLAPS

-----------------------------------------------------------------------------
(* Types *)

\* A list whose members are changed in place keeps its length.
LEMMA ChangedInPlace ==
  ASSUME NEW S, NEW es \in Seq(S), NEW g \in [DOMAIN es -> S]
  PROVE  g \in Seq(S) /\ Len(g) = Len(es)
<1>1. DOMAIN es = 1..Len(es) /\ Len(es) \in Nat
  OBVIOUS
<1> QED BY <1>1

\* The free functions, with or without the rollback functions before them.
LEMMA FreeType ==
  ASSUME effects \in Seq(Effect)
  PROVE  /\ UndoAndFreeAll \in Seq(Effect)
         /\ Len(UndoAndFreeAll) = Len(effects)
         /\ FreeAll \in Seq(Effect)
         /\ Len(FreeAll) = Len(effects)
<1>1. \A i \in DOMAIN effects : effects[i] \in Effect
  OBVIOUS
<1>2. ASSUME NEW i \in DOMAIN effects
      PROVE  UndoAndFree(i) \in Effect /\ FreeOnly(i) \in Effect
  <2>1. effects[i] \in Effect
    BY <1>1
  <2>2. (effects[i].undone \/ ~effects[i].final) \in BOOLEAN
    OBVIOUS
  <2>3. effects[i].freed + 1 \in Nat
    BY <2>1 DEF Effect
  <2> QED BY <2>1, <2>2, <2>3 DEF UndoAndFree, FreeOnly, Effect
<1>3. UndoAndFreeAll \in [DOMAIN effects -> Effect]
  BY <1>1, <1>2 DEF UndoAndFreeAll, Change, Registered
<1>4. FreeAll \in [DOMAIN effects -> Effect]
  BY <1>1, <1>2 DEF FreeAll, Change, Registered
<1> QED BY <1>3, <1>4, ChangedInPlace, Zenon

LEMMA StoreType ==
  ASSUME NEW es \in Seq(Effect), Store(es), stored \in Nat
  PROVE  effects' \in Seq(Effect) /\ Len(effects') = Len(es) /\ stored' \in Nat
<1>1. \A i \in DOMAIN es : [es[i] EXCEPT !.durable = @ \/ i \in Registered] \in Effect
  <2> TAKE i \in DOMAIN es
  <2>1. es[i] \in Effect
    OBVIOUS
  <2>2. (es[i].durable \/ i \in Registered) \in BOOLEAN
    OBVIOUS
  <2> QED BY <2>1, <2>2 DEF Effect
<1>2. effects' \in [DOMAIN es -> Effect]
  BY <1>1, Zenon DEF Store
<1>3. stored' \in Nat
  BY DEF Store
<1> QED BY <1>2, <1>3, ChangedInPlace, Zenon

LEMMA RanType ==
  ASSUME effects \in Seq(Effect), NEW i \in DOMAIN effects,
         effects' = [effects EXCEPT ![i].ran = TRUE]
  PROVE  effects' \in Seq(Effect) /\ Len(effects') = Len(effects)
<1> DEFINE e == [effects[i] EXCEPT !.ran = TRUE]
<1>1. e \in Effect
  <2>1. effects[i] \in Effect
    OBVIOUS
  <2> QED BY <2>1 DEF Effect
<1> DEFINE es == [effects EXCEPT ![i] = e]
<1>2. effects' = es
  BY Zenon
<1> HIDE DEF e
<1>3. es \in [DOMAIN effects -> Effect]
  <2>1. effects \in [DOMAIN effects -> Effect]
    OBVIOUS
  <2> QED BY <1>1, <2>1, Zenon
<1> HIDE DEF es
<1>4. es \in Seq(Effect) /\ Len(es) = Len(effects)
  BY <1>3, ChangedInPlace, Zenon
<1> QED BY <1>2, <1>4, Zenon

\* The Boolean fields stay Boolean.
LEMMA Flags == ASSUME FlagsOK, Next PROVE FlagsOK'
<1> USE DEF FlagsOK, locals, context, db, ghosts, bounds
<1>1. CASE Request \/ ReadInputs \/ Arrive \/ Login
  BY <1>1, Zenon DEF Request, ReadInputs, Arrive, Login, Raise
<1>2. CASE Handle
  BY <1>2, Zenon DEF Handle, EnsureTransaction, Register, SoftError, HandlerFails,
                     ConnectionLost, HandlerReturns, Raise
<1>3. CASE UwCommit
  BY <1>3, Zenon DEF UwCommit, PrepareFails, Prepare, Prepared, Commit, CommitConflict,
                     CommitFails, Finalize, FinalizeFails, Finalized, Rollback,
                     DbRollback
<1>4. CASE EndRound
  BY <1>4, Zenon DEF EndRound, Answer, TurnToOnError, CommitIsFatal, Retry,
                     FailToOnError, FailIsFatal, NextRound, RollbackFails, Rollback,
                     DbRollback, Return, ResetKeepErrorMessage
<1> QED BY <1>1, <1>2, <1>3, <1>4, Zenon DEF Next, Work

\* The list of transactionals and the counters that an attempt's steps change.
LEMMA RollbackType ==
  ASSUME CountsOK, NEW failed, Rollback(failed)
  PROVE  /\ uses' \in Int
         /\ effects' \in Seq(Effect) /\ Len(effects') = Len(effects)
         /\ tx' \in {"none", "own", "stray"}
<1>1. effects' \in Seq(Effect) /\ Len(effects') = Len(effects)
  BY FreeType DEF CountsOK, Rollback
<1>2. tx' \in {"none", tx}
  BY Zenon DEF Rollback, DbRollback
<1>3. uses' \in Int
  BY DEF CountsOK, Rollback
<1> QED BY <1>1, <1>2, <1>3 DEF CountsOK

LEMMA CountHandle == ASSUME FlagsOK, CountsOK, Handle PROVE CountsOK'
<1> USE DEF CountsOK, Labels, Raise, locals, context, db, ghosts, bounds
<1>1. CASE EnsureTransaction
  BY <1>1 DEF EnsureTransaction
<1>2. ASSUME NEW final \in BOOLEAN, Register(final) PROVE CountsOK'
  <2> DEFINE e == [final |-> final, ran |-> FALSE, undone |-> FALSE, freed |-> 0,
                   durable |-> FALSE]
  <2>1. e \in Effect
    BY DEF Effect
  <2>2. effects' = Append(effects, e)
    BY <1>2, Zenon DEF Register
  <2> HIDE DEF e
  <2>3. effects' \in Seq(Effect) /\ Len(effects') = Len(effects) + 1
    BY <2>1, <2>2
  <2> QED BY <1>2, <2>3 DEF Register
<1>3. CASE SoftError
  BY <1>3 DEF SoftError
<1>4. ASSUME NEW kind \in {"FATAL", "BOUNDED_RETRY", "UNLIMITED_RETRY"}, HandlerFails(kind)
      PROVE  CountsOK'
  BY <1>4 DEF HandlerFails
<1>5. CASE ConnectionLost
  BY <1>5 DEF ConnectionLost
<1>6. CASE HandlerReturns
  BY <1>6 DEF HandlerReturns
<1> QED BY <1>1, <1>2, <1>3, <1>4, <1>5, <1>6 DEF Handle

LEMMA UsesType == ASSUME CountsOK, ReleaseClient PROVE uses' \in Int
<1>1. uses' \in {uses, uses - 1}
  BY Zenon DEF ReleaseClient
<1> QED BY <1>1 DEF CountsOK

LEMMA CountCommit == ASSUME CountsOK, UwCommit PROVE CountsOK'
<1> USE DEF CountsOK, Labels, locals, context, db, ghosts, bounds
<1>1. CASE PrepareFails
  <2>1. PICK failed \in BOOLEAN : Rollback(failed)
    BY <1>1, Zenon DEF PrepareFails
  <2>2. /\ uses' \in Int
        /\ effects' \in Seq(Effect) /\ Len(effects') = Len(effects)
        /\ tx' \in {"none", "own", "stray"}
    BY <2>1, RollbackType
  <2> QED BY <1>1, <2>2 DEF PrepareFails
<1>2. ASSUME NEW i \in DOMAIN effects, Prepare(i) PROVE CountsOK'
  <2>1. effects' \in Seq(Effect) /\ Len(effects') = Len(effects)
    BY <1>2, RanType DEF Prepare
  <2> QED BY <1>2, <2>1 DEF Prepare
<1>3. ASSUME NEW i \in DOMAIN effects, Finalize(i) PROVE CountsOK'
  <2>1. effects' \in Seq(Effect) /\ Len(effects') = Len(effects)
    BY <1>3, RanType DEF Finalize
  <2> QED BY <1>3, <2>1 DEF Finalize
<1>4. CASE Prepared
  BY <1>4 DEF Prepared
<1>5. CASE Commit
  <2>1. effects' \in Seq(Effect) /\ Len(effects') = Len(effects) /\ stored' \in Nat
    BY <1>5, StoreType DEF Commit
  <2> QED BY <1>5, <2>1 DEF Commit
<1>6. CASE CommitConflict
  <2>1. effects' \in Seq(Effect) /\ Len(effects') = Len(effects)
    BY <1>6, FreeType DEF CommitConflict
  <2> QED BY <1>6, <2>1, UsesType DEF CommitConflict
<1>7. CASE CommitFails
  <2>1. FreeAll \in Seq(Effect) /\ Len(FreeAll) = Len(effects)
    BY FreeType
  <2>2. effects' \in Seq(Effect) /\ Len(effects') = Len(effects) /\ stored' \in Nat
    <3>1. CASE effects' = FreeAll /\ UNCHANGED stored
      BY <2>1, <3>1
    <3>2. CASE Store(FreeAll)
      BY <2>1, <3>2, StoreType
    <3> QED BY <1>7, <3>1, <3>2 DEF CommitFails
  <2>3. tx' \in {"none", tx}
    BY <1>7, Zenon DEF CommitFails
  <2> QED BY <1>7, <2>2, <2>3, UsesType DEF CommitFails
<1>8. CASE FinalizeFails
  <2>1. effects' \in Seq(Effect) /\ Len(effects') = Len(effects)
    BY <1>8, FreeType DEF FinalizeFails
  <2> QED BY <1>8, <2>1, UsesType DEF FinalizeFails
<1>9. CASE Finalized
  <2>1. effects' \in Seq(Effect) /\ Len(effects') = Len(effects)
    BY <1>9, FreeType DEF Finalized
  <2> QED BY <1>9, <2>1, UsesType DEF Finalized
<1> QED BY <1>1, <1>2, <1>3, <1>4, <1>5, <1>6, <1>7, <1>8, <1>9 DEF UwCommit

LEMMA CountEndRound == ASSUME CountsOK, EndRound PROVE CountsOK'
<1> USE DEF CountsOK, Labels, Return, ResetKeepErrorMessage, locals, context, db, ghosts,
            bounds
<1> USE LimitsAssumption
<1>1. CASE Answer
  BY <1>1 DEF Answer
<1>2. CASE TurnToOnError
  BY <1>2 DEF TurnToOnError
<1>3. CASE CommitIsFatal
  <2>1. tx' \in {"none", tx}
    BY <1>3, Zenon DEF CommitIsFatal, DbRollback
  <2> QED BY <1>3, <2>1 DEF CommitIsFatal
<1>4. CASE Retry
  BY <1>4 DEF Retry, MayRetry
<1>5. CASE FailToOnError
  BY <1>5 DEF FailToOnError
<1>6. CASE FailIsFatal
  <2>1. PICK failed \in BOOLEAN : Rollback(failed)
    BY <1>6, Zenon DEF FailIsFatal
  <2>2. /\ uses' \in Int
        /\ effects' \in Seq(Effect) /\ Len(effects') = Len(effects)
        /\ tx' \in {"none", "own", "stray"}
    BY <2>1, RollbackType
  <2> QED BY <1>6, <2>2 DEF FailIsFatal
<1>7. ASSUME NEW failed, Rollback(failed), NextRound \/ RollbackFails
      PROVE  CountsOK'
  <2>1. /\ uses' \in Int
        /\ effects' \in Seq(Effect) /\ Len(effects') = Len(effects)
        /\ tx' \in {"none", "own", "stray"}
    BY <1>7, RollbackType
  <2>2. CASE NextRound
    BY <2>1, <2>2 DEF NextRound
  <2>3. CASE RollbackFails
    BY <2>1, <2>3 DEF RollbackFails
  <2> QED BY <1>7, <2>2, <2>3
<1> QED BY <1>1, <1>2, <1>3, <1>4, <1>5, <1>6, <1>7 DEF EndRound, NextRound, RollbackFails

LEMMA CountSteps == ASSUME FlagsOK, CountsOK, [Next]_vars PROVE CountsOK'
<1> USE DEF CountsOK, Labels, locals, context, db, ghosts, bounds
<1>1. CASE Request
  BY <1>1, LimitsAssumption DEF Request
<1>2. CASE Arrive
  BY <1>2 DEF Arrive
<1>3. CASE Login
  BY <1>3 DEF Login, Raise
<1>4. CASE ReadInputs
  BY <1>4 DEF ReadInputs
<1>5. CASE UNCHANGED vars
  BY <1>5 DEF vars
<1> QED BY <1>1, <1>2, <1>3, <1>4, <1>5, CountHandle, CountCommit, CountEndRound, Zenon
        DEF Next, Work

\* Everything the thread and its context hold has its type: above all, a bounded
\* retry never takes retries_left below zero.
THEOREM RequestTypes == Spec => []TypeOK
<1>1. Init => TypeOK
  <2>1. Init => FlagsOK
    BY Zenon DEF Init, FlagsOK
  <2>2. Init => CountsOK
    BY LimitsAssumption DEF Init, CountsOK, Labels
  <2> QED BY <2>1, <2>2 DEF TypeOK
<1>2. TypeOK /\ [Next]_vars => TypeOK'
  <2> SUFFICES ASSUME TypeOK, [Next]_vars PROVE TypeOK'
    OBVIOUS
  <2>1. FlagsOK /\ CountsOK
    BY DEF TypeOK
  <2>2. FlagsOK'
    <3>1. CASE UNCHANGED vars
      BY <2>1, <3>1 DEF FlagsOK, vars, locals, context, db
    <3> QED BY <2>1, <3>1, Flags
  <2>3. CountsOK'
    BY <2>1, CountSteps
  <2> QED BY <2>2, <2>3 DEF TypeOK
<1> QED BY <1>1, <1>2, PTL DEF Spec

-----------------------------------------------------------------------------
(* The client's reference count *)

NotYet == ~client /\ uses = 0
Holding == client /\ uses = 1

\* A client is used once it is known, until the attempt ends.
ClientInv ==
  /\ pc \in {"idle", "endCommit"} => uses = 0
  /\ pc \in {"inputs", "arrive", "login", "onError"} => NotYet
  /\ pc \in {"handler", "prepare", "commit", "finalize", "failed", "rollback"} =>
       NotYet \/ Holding
  /\ pc \in Labels

\* release_client, called by uw_commit and by uw_rollback.
LEMMA Released ==
  ASSUME NotYet \/ Holding,
         ReleaseClient \/ \E failed : Rollback(failed)
  PROVE  uses' = 0
<1>1. uses' = IF client THEN uses - 1 ELSE uses
  BY Zenon DEF ReleaseClient, Rollback
<1>2. CASE NotYet
  BY <1>1, <1>2, Zenon DEF NotYet
<1>3. CASE Holding
  <2>1. uses' = uses - 1 /\ uses = 1
    BY <1>1, <1>3, Zenon DEF Holding
  <2> QED BY <2>1
<1> QED BY <1>2, <1>3

LEMMA ClientHeld == UNCHANGED <<client, uses>> => NotYet' = NotYet /\ Holding' = Holding
<1> SUFFICES ASSUME client' = client, uses' = uses
             PROVE  NotYet' = NotYet /\ Holding' = Holding
  OBVIOUS
<1> QED BY Zenon DEF NotYet, Holding

LEMMA ClientAttempt ==
  ASSUME ClientInv, ReadInputs \/ Arrive \/ Login \/ Handle PROVE ClientInv'
<1> USE DEF ClientInv, Labels, locals, context, db, ghosts, bounds
<1>1. CASE Arrive
  <2>1. UNCHANGED <<client, uses>> /\ pc = "arrive" /\ pc' \in {"login", "onError"}
    BY <1>1 DEF Arrive
  <2> QED BY <2>1, ClientHeld
<1>2. CASE Login
  <2>1. pc = "login" /\ pc' \in {"handler", "failed"}
    BY <1>2 DEF Login, Raise
  <2>2. NotYet
    BY <2>1
  <2>3. CASE client' = TRUE /\ uses' = uses + 1
    <3>1. uses' = 1
      BY <2>2, <2>3 DEF NotYet
    <3>2. Holding'
      BY <2>3, <3>1, Zenon DEF Holding
    <3> QED BY <2>1, <3>2
  <2>4. CASE UNCHANGED <<client, uses>>
    BY <2>1, <2>2, <2>4, ClientHeld
  <2> QED BY <1>2, <2>3, <2>4 DEF Login
<1>3. CASE Handle
  <2>1. UNCHANGED <<client, uses>>
    BY <1>3, Zenon DEF Handle, EnsureTransaction, Register, SoftError, HandlerFails,
                       ConnectionLost, HandlerReturns
  <2>2. pc \in {"handler", "onError"} /\ pc' \in {"handler", "prepare", "failed"}
    BY <1>3 DEF Handle, EnsureTransaction, Register, SoftError, HandlerFails,
                ConnectionLost, HandlerReturns, Raise
  <2> QED BY <2>1, <2>2, ClientHeld
<1>4. CASE ReadInputs
  <2>1. UNCHANGED <<client, uses>> /\ pc = "inputs" /\ pc' \in {"arrive", "idle"}
    BY <1>4 DEF ReadInputs
  <2> QED BY <2>1, ClientHeld DEF NotYet
<1> QED BY <1>1, <1>2, <1>3, <1>4

LEMMA ClientCommit == ASSUME ClientInv, UwCommit PROVE ClientInv'
<1> USE DEF ClientInv, Labels, locals, context, db, ghosts, bounds
<1>1. ASSUME NEW i \in DOMAIN effects, Prepare(i) \/ Finalize(i) PROVE ClientInv'
  <2>1. UNCHANGED <<client, uses>>
    BY <1>1, Zenon DEF Prepare, Finalize
  <2>2. pc \in {"prepare", "finalize"} /\ pc' = pc
    BY <1>1 DEF Prepare, Finalize
  <2> QED BY <2>1, <2>2, ClientHeld
<1>2. CASE Prepared \/ Commit
  <2>1. UNCHANGED <<client, uses>>
    BY <1>2, Zenon DEF Prepared, Commit
  <2>2. /\ pc \in {"prepare", "commit", "finalize"}
        /\ pc' \in {"prepare", "commit", "finalize"}
    BY <1>2 DEF Prepared, Commit
  <2> QED BY <2>1, <2>2, ClientHeld
<1>3. CASE PrepareFails \/ CommitConflict \/ CommitFails \/ FinalizeFails \/ Finalized
  <2>1. pc \in {"prepare", "commit", "finalize"} /\ pc' = "endCommit"
    BY <1>3 DEF PrepareFails, CommitConflict, CommitFails, FinalizeFails, Finalized
  <2>2. ReleaseClient \/ \E failed : Rollback(failed)
    BY <1>3, Zenon DEF PrepareFails, CommitConflict, CommitFails, FinalizeFails, Finalized
  <2> QED BY <2>1, <2>2, Released
<1> QED BY <1>1, <1>2, <1>3 DEF UwCommit

LEMMA ClientEndRound == ASSUME ClientInv, EndRound PROVE ClientInv'
<1> USE DEF ClientInv, Labels, locals, context, db, ghosts, bounds
<1>1. CASE Answer \/ CommitIsFatal
  BY <1>1 DEF Answer, CommitIsFatal, Return
<1>2. CASE TurnToOnError
  <2>1. pc = "endCommit" /\ pc' = "rollback" /\ uses' = uses
    BY <1>2 DEF TurnToOnError
  <2>2. ~client'
    BY <1>2, Zenon DEF TurnToOnError, ResetKeepErrorMessage
  <2> QED BY <2>1, <2>2 DEF NotYet
<1>3. CASE Retry \/ FailToOnError
  <2>1. UNCHANGED <<client, uses>> /\ pc = "failed" /\ pc' = "rollback"
    BY <1>3 DEF Retry, FailToOnError
  <2> QED BY <2>1, ClientHeld
<1>4. CASE FailIsFatal \/ NextRound \/ RollbackFails
  <2>1. pc \in {"failed", "rollback"} /\ pc' \in {"idle", "arrive"}
    BY <1>4 DEF FailIsFatal, NextRound, RollbackFails, Return
  <2>2. \E failed : Rollback(failed)
    BY <1>4, Zenon DEF FailIsFatal, NextRound, RollbackFails
  <2>3. ~client'
    BY <1>4, Zenon DEF FailIsFatal, NextRound, RollbackFails, ResetKeepErrorMessage
  <2>4. uses' = 0
    BY <2>1, <2>2, Released
  <2> QED BY <2>1, <2>3, <2>4 DEF NotYet
<1> QED BY <1>1, <1>2, <1>3, <1>4 DEF EndRound

\* Every way out of an attempt gives the client back, and none of them twice,
\* although uw_commit, uw_rollback and uw_request all do part of it.
THEOREM ClientIsBalanced == Spec => []ClientBalanced
<1>1. Init => ClientInv
  BY DEF Init, ClientInv, Labels
<1>2. ClientInv /\ [Next]_vars => ClientInv'
  <2> SUFFICES ASSUME ClientInv, [Next]_vars PROVE ClientInv'
    OBVIOUS
  <2>1. CASE Request
    <3>1. pc = "idle" /\ pc' = "inputs" /\ uses' = uses /\ ~client'
      BY <2>1, Zenon DEF Request
    <3> QED BY <3>1 DEF ClientInv, NotYet, Labels
  <2>2. CASE UNCHANGED vars
    BY <2>2, ClientHeld DEF vars, context, ClientInv
  <2> QED BY <2>1, <2>2, ClientAttempt, ClientCommit, ClientEndRound DEF Next, Work
<1>3. ClientInv => ClientBalanced
  BY DEF ClientInv, ClientBalanced, BetweenAttempts, NotYet, Holding, Labels
<1> QED BY <1>1, <1>2, <1>3, PTL DEF Spec

-----------------------------------------------------------------------------
(* The promise of a request *)

\* As long as an attempt of the page function may follow, nothing of it has
\* been committed; an attempt that ends without an error has been.
PromiseInv ==
  /\ stored \in {0, 1}
  /\ pc # "idle" => answer = "none"
  /\ pc = "idle" => answer # "none" \/ stored = 0
  /\ ~hadError /\ pc \in {"inputs", "arrive", "login", "onError", "handler", "prepare",
                          "commit", "failed", "rollback"} => stored = 0
  /\ ~hadError /\ pc = "finalize" => stored = 1
  /\ ~hadError /\ ~error /\ pc = "endCommit" => stored = 1

\* A step that leaves the two variables of the promise alone.
LEMMA Quiet == UNCHANGED <<stored, answer>> => [Promise!Next]_(Promise!vars)
  BY DEF Promise!vars

\* If COMMIT meets no serialization failure (uw_request takes one for success),
\* a request commits the work of its page function at most once, however often
\* it is tried again, and is served only if it has.
THEOREM PromiseIsKept == ~Conflicts => (Spec => PromiseKept)
<1> SUFFICES ASSUME ~Conflicts PROVE Spec => Promise!Spec
  BY DEF PromiseKept
<1>1. Init => PromiseInv /\ Promise!Init
  BY DEF Init, PromiseInv, Promise!Init
<1>2. PromiseInv /\ [Next]_vars => PromiseInv' /\ [Promise!Next]_(Promise!vars)
  <2> SUFFICES ASSUME PromiseInv, [Next]_vars
               PROVE  PromiseInv' /\ [Promise!Next]_(Promise!vars)
    OBVIOUS
  <2> USE DEF PromiseInv, locals, context, db, ghosts, bounds
  <2>1. CASE Request
    BY <2>1 DEF Request, Promise!Next, Promise!Begin, Promise!vars
  <2>2. CASE Arrive \/ Login
    BY <2>2, Quiet DEF Arrive, Login, Raise
  <2>3. CASE Handle
    BY <2>3, Quiet DEF Handle, EnsureTransaction, Register, SoftError, HandlerFails,
                       ConnectionLost, HandlerReturns, Raise
  <2>4. CASE PrepareFails \/ Prepared \/ FinalizeFails \/ Finalized
    BY <2>4, Quiet DEF PrepareFails, Prepared, FinalizeFails, Finalized
  <2>5. ASSUME NEW i \in DOMAIN effects, Prepare(i) \/ Finalize(i)
        PROVE  PromiseInv' /\ [Promise!Next]_(Promise!vars)
    BY <2>5, Quiet DEF Prepare, Finalize
  <2>6. CASE Commit
    BY <2>6 DEF Commit, Store, Promise!Next, Promise!Store, Promise!vars
  <2>7. CASE CommitFails
    <3>1. /\ pc = "commit" /\ pc' = "endCommit" /\ answer' = answer
          /\ hadError' = hadError
      BY <2>7 DEF CommitFails
    <3>2. error'
      BY <2>7, Zenon DEF CommitFails
    <3>3. stored' = stored \/ (~hadError /\ stored' = stored + 1)
      BY <2>7, Zenon DEF CommitFails, Store
    <3>4. CASE stored' = stored
      BY <3>1, <3>2, <3>4, Quiet
    <3>5. CASE ~hadError /\ stored' = stored + 1
      BY <3>1, <3>2, <3>5 DEF Promise!Next, Promise!Store
    <3> QED BY <3>3, <3>4, <3>5
  <2>8. CASE Answer
    BY <2>8 DEF Answer, Return, Promise!Next, Promise!Serve, Promise!Fail
  <2>9. CASE CommitIsFatal \/ FailIsFatal \/ RollbackFails
    BY <2>9 DEF CommitIsFatal, FailIsFatal, RollbackFails, Return, Promise!Next,
                Promise!Fail
  <2>10. CASE TurnToOnError \/ Retry \/ FailToOnError \/ NextRound
    BY <2>10, Quiet DEF TurnToOnError, Retry, FailToOnError, NextRound
  <2>11. CASE UNCHANGED vars
    BY <2>11, Quiet DEF vars
  <2>12. CASE ReadInputs
    BY <2>12, Quiet DEF ReadInputs, Promise!Next, Promise!Fail
  <2> QED BY <2>1, <2>2, <2>3, <2>4, <2>5, <2>6, <2>7, <2>8, <2>9, <2>10, <2>11, <2>12
          DEF Next, Work, UwCommit, EndRound, CommitConflict
<1> QED BY <1>1, <1>2, PTL DEF Spec, Promise!Spec

-----------------------------------------------------------------------------
(* The transactionals.                                                      *)

\* What cannot be undone has run only with its data committed.
Fine(e) == e.final /\ e.ran => e.durable

\* The attempt that registered e is over.
Over(e) == Fine(e) /\ e.freed = 1 /\ (e.ran /\ ~e.durable => e.undone \/ CommitErrors)

\* The attempt goes on.  After COMMIT its data are durable.
Open(e) == Fine(e) /\ e.freed = 0
Durable(e) == Open(e) /\ e.durable

\* An attempt is over when uw_commit is, though the context still knows its transactionals.
Ended == {"idle", "endCommit"}

EffectsInv ==
  /\ pc \in {"inputs", "arrive"} => Registered = {}
  /\ \A i \in DOMAIN effects :
       IF i \in Registered /\ pc \notin Ended
       THEN IF pc = "finalize" THEN Durable(effects[i]) ELSE Open(effects[i])
       ELSE Over(effects[i])

\* The facts about types that the steps need.
LEMMA EffectTypes ==
  ASSUME TypeOK
  PROVE  /\ effects \in Seq(Effect) /\ Len(effects) \in Nat /\ DOMAIN effects = 1..Len(effects)
         /\ base \in 0..Len(effects) /\ Registered \subseteq DOMAIN effects
         /\ \A i \in DOMAIN effects : effects[i] \in Effect
BY DEF TypeOK, CountsOK, Registered

\* All attempts are over, and the context has no transactionals or is about to lose them.
LEMMA AllOver ==
  ASSUME TypeOK', \A i \in DOMAIN effects' : Over(effects'[i]),
         pc' \in Ended \/ base' = Len(effects')
  PROVE  EffectsInv'
<1>1. base' = Len(effects') => Registered' = {}
  <2>1. Len(effects') \in Nat
    BY DEF TypeOK, CountsOK
  <2> QED BY <2>1 DEF Registered
<1> QED BY <1>1 DEF EffectsInv, Ended

\* The attempt goes on with the transactionals it has.
LEMMA Same ==
  ASSUME EffectsInv, UNCHANGED <<effects, base>>,
         pc' \in {"inputs", "arrive"} => pc \in {"inputs", "arrive"},
         (pc \in Ended <=> pc' \in Ended) \/ pc \in {"inputs", "arrive"},
         pc = "finalize" <=> pc' = "finalize"
  PROVE  EffectsInv'
<1>1. Registered' = Registered
  BY DEF Registered
<1> QED BY <1>1 DEF EffectsInv

-----------------------------------------------------------------------------
(* One transactional.                                                       *)

\* Undone and freed, as uw_rollback and the exits of uw_commit do.
LEMMA UndoneIsOver ==
  ASSUME NEW i, effects[i] \in Effect, Open(effects[i])
  PROVE  Over(UndoAndFree(i))
<1> DEFINE e == effects[i]
<1>1. /\ UndoAndFree(i).final = e.final /\ UndoAndFree(i).ran = e.ran
      /\ UndoAndFree(i).durable = e.durable
      /\ UndoAndFree(i).undone = (e.undone \/ ~e.final)
      /\ UndoAndFree(i).freed = e.freed + 1
  BY DEF UndoAndFree, Effect
<1>2. e.freed + 1 = 1
  BY DEF Open
<1>3. e.final /\ e.ran => e.durable
  BY DEF Open, Fine
<1> HIDE DEF e
<1> QED BY <1>1, <1>2, <1>3, Zenon DEF Over, Fine

\* Freed only.
LEMMA FreedIsOver ==
  ASSUME NEW i, effects[i] \in Effect, Open(effects[i]), effects[i].durable \/ CommitErrors
  PROVE  Over(FreeOnly(i))
<1> DEFINE e == effects[i]
<1>1. /\ FreeOnly(i).final = e.final /\ FreeOnly(i).ran = e.ran
      /\ FreeOnly(i).durable = e.durable /\ FreeOnly(i).undone = e.undone
      /\ FreeOnly(i).freed = e.freed + 1
  BY DEF FreeOnly, Effect
<1>2. e.freed + 1 = 1
  BY DEF Open
<1>3. e.final /\ e.ran => e.durable
  BY DEF Open, Fine
<1>4. e.durable \/ CommitErrors
  OBVIOUS
<1> HIDE DEF e
<1> QED BY <1>1, <1>2, <1>3, <1>4, Zenon DEF Over, Fine

LEMMA AllUndone ==
  ASSUME TypeOK, EffectsInv, pc \notin Ended, effects' = UndoAndFreeAll
  PROVE  /\ \A i \in DOMAIN effects' : Over(effects'[i])
         /\ Len(effects') = Len(effects)
<1>1. /\ DOMAIN effects' = DOMAIN effects
      /\ \A i \in DOMAIN effects :
           effects'[i] = IF i \in Registered THEN UndoAndFree(i) ELSE effects[i]
  BY DEF UndoAndFreeAll, Change
<1>2. ASSUME NEW i \in DOMAIN effects PROVE Over(effects'[i])
  <2>1. CASE i \in Registered
    <3>1. Open(effects[i]) /\ effects[i] \in Effect
      BY <2>1, EffectTypes DEF EffectsInv, Durable
    <3> QED BY <1>1, <2>1, <3>1, UndoneIsOver
  <2>2. CASE i \notin Registered
    BY <1>1, <2>2 DEF EffectsInv
  <2> QED BY <2>1, <2>2
<1>3. Len(effects') = Len(effects)
  BY FreeType DEF TypeOK, CountsOK
<1> QED BY <1>1, <1>2, <1>3

LEMMA AllFreed ==
  ASSUME TypeOK, EffectsInv, pc \notin Ended, pc = "finalize" \/ CommitErrors
  PROVE  /\ DOMAIN FreeAll = DOMAIN effects
         /\ \A i \in DOMAIN FreeAll : Over(FreeAll[i]) /\ FreeAll[i] \in Effect
<1>1. /\ DOMAIN FreeAll = DOMAIN effects
      /\ \A i \in DOMAIN effects :
           FreeAll[i] = IF i \in Registered THEN FreeOnly(i) ELSE effects[i]
  BY DEF FreeAll, Change
<1>2. \A i \in DOMAIN FreeAll : FreeAll[i] \in Effect
  <2>1. FreeAll \in Seq(Effect)
    BY FreeType DEF TypeOK, CountsOK
  <2> QED BY <2>1
<1>3. ASSUME NEW i \in DOMAIN effects PROVE Over(FreeAll[i])
  <2>1. CASE i \in Registered
    <3>1. Open(effects[i]) /\ effects[i] \in Effect /\ (effects[i].durable \/ CommitErrors)
      BY <2>1, EffectTypes DEF EffectsInv, Durable
    <3> QED BY <1>1, <2>1, <3>1, FreedIsOver
  <2>2. CASE i \notin Registered
    BY <1>1, <2>2 DEF EffectsInv
  <2> QED BY <2>1, <2>2
<1> QED BY <1>1, <1>2, <1>3

\* COMMIT makes data durable, and changes nothing else.
LEMMA MadeDurable ==
  ASSUME NEW es, Store(es), NEW i \in DOMAIN es, es[i] \in Effect
  PROVE  /\ DOMAIN effects' = DOMAIN es
         /\ Over(es[i]) => Over(effects'[i])
         /\ Open(es[i]) => Open(effects'[i])
         /\ i \in Registered => effects'[i].durable
<1> DEFINE e == es[i]
           f == effects'[i]
<1>1. DOMAIN effects' = DOMAIN es /\ f = [e EXCEPT !.durable = @ \/ i \in Registered]
  BY DEF Store
<1>2. /\ f.final = e.final /\ f.ran = e.ran /\ f.undone = e.undone /\ f.freed = e.freed
      /\ f.durable = (e.durable \/ i \in Registered)
  BY <1>1 DEF Effect
<1> HIDE DEF e, f
<1>3. Over(e) => Over(f)
  BY <1>2, Zenon DEF Over, Fine
<1>4. Open(e) => Open(f)
  BY <1>2, Zenon DEF Open, Fine
<1>5. i \in Registered => f.durable
  BY <1>2, Zenon
<1> QED BY <1>1, <1>3, <1>4, <1>5 DEF e, f

\* A commit function has run: one that is final only after COMMIT.
LEMMA Ran ==
  ASSUME TypeOK, TypeOK', EffectsInv, NEW i \in Registered, UNCHANGED <<pc, base>>,
         (pc = "prepare" /\ ~effects[i].final) \/ pc = "finalize",
         effects' = [effects EXCEPT ![i].ran = TRUE]
  PROVE  EffectsInv'
<1> DEFINE e == effects[i]
           f == effects'[i]
<1>1. /\ DOMAIN effects' = DOMAIN effects /\ i \in DOMAIN effects
      /\ \A j \in DOMAIN effects : j # i => effects'[j] = effects[j]
      /\ f = [e EXCEPT !.ran = TRUE]
  BY EffectTypes
<1>2. e \in Effect
  BY EffectTypes
<1>3. /\ f.final = e.final /\ f.freed = e.freed /\ f.durable = e.durable
  BY <1>1, <1>2 DEF Effect
<1>4. Registered' = Registered
  <2>1. Len(effects') = Len(effects)
    BY RanType, <1>1 DEF TypeOK, CountsOK
  <2> QED BY <2>1 DEF Registered
<1>5. IF pc = "finalize" THEN Durable(e) ELSE Open(e)
  BY <1>1 DEF EffectsInv, Ended
<1>6. ~e.final \/ pc = "finalize"
  OBVIOUS
<1> HIDE DEF e, f
<1>7. IF pc = "finalize" THEN Durable(f) ELSE Open(f)
  BY <1>3, <1>5, <1>6, Zenon DEF Durable, Open, Fine
<1>8. /\ pc' = pc /\ pc \in {"prepare", "finalize"} /\ Registered' = Registered
      /\ \A j \in DOMAIN effects' : j \in DOMAIN effects /\ (j # i => effects'[j] = effects[j])
  BY <1>1, <1>4, Zenon
<1>9. pc' \notin {"inputs", "arrive"} /\ pc \notin Ended
  BY <1>8 DEF Ended
<1>10. ASSUME NEW j \in DOMAIN effects'
       PROVE  IF j \in Registered /\ pc \notin Ended
              THEN IF pc = "finalize" THEN Durable(effects'[j]) ELSE Open(effects'[j])
              ELSE Over(effects'[j])
  <2>1. CASE j = i
    BY <2>1, <1>7, <1>9, Zenon DEF f
  <2>2. CASE j # i
    BY <2>2, <1>8, Zenon DEF EffectsInv
  <2> QED BY <2>1, <2>2
<1> QED BY <1>8, <1>9, <1>10, Zenon DEF EffectsInv, Ended

-----------------------------------------------------------------------------
(* Steps.                                                                   *)

LEMMA EffectsAttempt ==
  ASSUME TypeOK, TypeOK', EffectsInv, Request \/ ReadInputs \/ Arrive \/ Login \/ Handle
  PROVE  EffectsInv'
<1> USE DEF locals, context, db, ghosts, bounds, Raise, Ended
<1>1. CASE Request
  <2>1. effects' = <<>> /\ base' = 0
    BY <1>1 DEF Request
  <2>2. DOMAIN effects' = {} /\ Len(effects') = 0
    BY <2>1
  <2> QED BY <2>1, <2>2, AllOver
<1>2. CASE ReadInputs
  BY <1>2, Same DEF ReadInputs
<1>3. CASE Arrive
  BY <1>3, Same DEF Arrive
<1>4. CASE Login
  BY <1>4, Same DEF Login
<1>5. CASE EnsureTransaction
  BY <1>5, Same DEF EnsureTransaction
<1>6. ASSUME NEW final \in BOOLEAN, Register(final) PROVE EffectsInv'
  <2> DEFINE n == Len(effects) + 1
  <2>1. /\ pc = "handler" /\ UNCHANGED <<pc, base>>
        /\ effects' = Append(effects, [final |-> final, ran |-> FALSE, undone |-> FALSE,
                                       freed |-> 0, durable |-> FALSE])
    BY <1>6 DEF Register
  <2>2. /\ DOMAIN effects' = 1..n /\ Registered' = (base + 1)..n
        /\ \A i \in DOMAIN effects : effects'[i] = effects[i] /\ i \in DOMAIN effects'
        /\ Open(effects'[n])
    BY <2>1, EffectTypes DEF Registered, Open, Fine
  <2>3. Len(effects) \in Nat /\ DOMAIN effects = 1..Len(effects) /\ base \in 0..Len(effects)
    BY EffectTypes
  <2>4. \A i \in DOMAIN effects' : i = n \/ i \in DOMAIN effects
    BY <2>2, <2>3
  <2>5. Registered = (base + 1)..Len(effects)
    BY DEF Registered
  <2>6. \A i \in DOMAIN effects : i \in Registered' <=> i \in Registered
    BY <2>2, <2>3, <2>5
  <2>7. n \in Registered' /\ n \in DOMAIN effects'
    BY <2>2, <2>3
  <2> QED BY <2>1, <2>2, <2>4, <2>6, <2>7 DEF EffectsInv
<1>7. CASE SoftError
  BY <1>7, Same DEF SoftError
<1>8. ASSUME NEW kind \in {"FATAL", "BOUNDED_RETRY", "UNLIMITED_RETRY"}, HandlerFails(kind)
      PROVE  EffectsInv'
  BY <1>8, Same DEF HandlerFails
<1>9. CASE ConnectionLost
  BY <1>9, Same DEF ConnectionLost
<1>10. CASE HandlerReturns
  BY <1>10, Same DEF HandlerReturns
<1> QED BY <1>1, <1>2, <1>3, <1>4, <1>5, <1>6, <1>7, <1>8, <1>9, <1>10 DEF Handle

LEMMA EffectsCommit ==
  ASSUME TypeOK, TypeOK', EffectsInv, UwCommit PROVE EffectsInv'
<1> USE DEF locals, context, db, ghosts, bounds, Ended
<1>1. CASE PrepareFails \/ CommitConflict \/ FinalizeFails
  BY <1>1, AllUndone, AllOver DEF PrepareFails, CommitConflict, FinalizeFails, Rollback
<1>2. ASSUME NEW i \in DOMAIN effects, Prepare(i) PROVE EffectsInv'
  BY <1>2, Ran DEF Prepare, IsNext, Pending
<1>3. ASSUME NEW i \in DOMAIN effects, Finalize(i) PROVE EffectsInv'
  BY <1>3, Ran DEF Finalize, IsNext, Pending
<1>4. CASE Prepared
  BY <1>4, Same DEF Prepared
<1>5. CASE Commit
  <2>1. pc = "commit" /\ pc' = "finalize" /\ base' = base /\ Store(effects)
    BY <1>5 DEF Commit
  <2>2. DOMAIN effects' = DOMAIN effects /\ Registered' = Registered
    <3>1. DOMAIN effects' = DOMAIN effects /\ Len(effects') = Len(effects)
      BY <2>1, StoreType DEF TypeOK, CountsOK, Store
    <3> QED BY <2>1, <3>1 DEF Registered
  <2>3. ASSUME NEW i \in DOMAIN effects
        PROVE  IF i \in Registered THEN Durable(effects'[i]) ELSE Over(effects'[i])
    <3>1. IF i \in Registered THEN Open(effects[i]) ELSE Over(effects[i])
      BY <2>1 DEF EffectsInv
    <3> QED BY <2>1, <3>1, MadeDurable, EffectTypes DEF Durable
  <2> QED BY <2>1, <2>2, <2>3 DEF EffectsInv
<1>6. CASE CommitFails
  <2>1. pc = "commit" /\ pc' = "endCommit" /\ CommitErrors
    BY <1>6 DEF CommitFails
  <2>2. /\ DOMAIN FreeAll = DOMAIN effects
        /\ \A i \in DOMAIN FreeAll : Over(FreeAll[i]) /\ FreeAll[i] \in Effect
    BY <2>1, AllFreed
  <2>3. \A i \in DOMAIN effects' : Over(effects'[i])
    <3>1. CASE effects' = FreeAll
      BY <2>2, <3>1
    <3>2. CASE Store(FreeAll)
      <4>1. DOMAIN effects' = DOMAIN FreeAll
        BY <3>2 DEF Store
      <4> QED BY <2>2, <3>2, <4>1, MadeDurable
    <3> QED BY <1>6, <3>1, <3>2 DEF CommitFails
  <2> QED BY <2>1, <2>3, AllOver
<1>7. CASE Finalized
  <2>1. pc = "finalize" /\ pc' = "endCommit" /\ effects' = FreeAll
    BY <1>7 DEF Finalized
  <2> QED BY <2>1, AllFreed, AllOver
<1> QED BY <1>1, <1>2, <1>3, <1>4, <1>5, <1>6, <1>7 DEF UwCommit

LEMMA EffectsEndRound ==
  ASSUME TypeOK, TypeOK', EffectsInv, EndRound PROVE EffectsInv'
<1> USE DEF locals, context, db, ghosts, bounds, Ended, Return
<1>1. CASE Answer
  BY <1>1, Same DEF Answer
<1>2. CASE TurnToOnError \/ CommitIsFatal
  <2>1. pc = "endCommit" /\ effects' = effects /\ base' = Len(effects)
    BY <1>2 DEF TurnToOnError, CommitIsFatal, ResetKeepErrorMessage
  <2>2. \A i \in DOMAIN effects : Over(effects[i])
    BY <2>1 DEF EffectsInv
  <2> QED BY <2>1, <2>2, AllOver
<1>3. CASE Retry \/ FailToOnError
  BY <1>3, Same DEF Retry, FailToOnError
<1>4. CASE FailIsFatal \/ NextRound \/ RollbackFails
  <2>1. pc \notin Ended /\ effects' = UndoAndFreeAll /\ base' = Len(effects)
    BY <1>4 DEF FailIsFatal, NextRound, RollbackFails, Rollback, ResetKeepErrorMessage
  <2> QED BY <2>1, AllUndone, AllOver
<1> QED BY <1>1, <1>2, <1>3, <1>4 DEF EndRound

LEMMA EffectsSteps == TypeOK /\ TypeOK' /\ EffectsInv /\ [Next]_vars => EffectsInv'
<1> SUFFICES ASSUME TypeOK, TypeOK', EffectsInv, [Next]_vars PROVE EffectsInv'
  OBVIOUS
<1>1. CASE UNCHANGED vars
  BY <1>1 DEF vars, context, EffectsInv, Registered
<1> QED BY <1>1, EffectsAttempt, EffectsCommit, EffectsEndRound DEF Next, Work

LEMMA EffectsAlways == Spec => []EffectsInv
<1>1. Init => EffectsInv
  BY DEF Init, EffectsInv
<1> QED BY <1>1, EffectsSteps, RequestTypes, PTL DEF Spec

\* Between attempts every attempt is over.
LEMMA OverBetween ==
  ASSUME EffectsInv, BetweenAttempts, NEW i \in DOMAIN effects PROVE Over(effects[i])
BY DEF EffectsInv, BetweenAttempts, Ended

-----------------------------------------------------------------------------
(* The theorems about transactionals.                                       *)

\* The data of a transactional are freed by exactly one of the five loops of uw_commit and
\* uw_rollback, on every path of uw_request through them.
THEOREM EffectsAreFreedOnce == Spec => []FreedOnce
<1>1. TypeOK /\ EffectsInv => FreedOnce
  <2> SUFFICES ASSUME TypeOK, EffectsInv, NEW i \in DOMAIN effects
               PROVE  effects[i].freed <= 1 /\ (BetweenAttempts => effects[i].freed = 1)
    BY DEF FreedOnce
  <2>1. effects[i].freed \in {0, 1}
    BY DEF EffectsInv, Durable, Open, Over
  <2>2. BetweenAttempts => effects[i].freed = 1
    BY OverBetween DEF Over
  <2> QED BY <2>1, <2>2
<1> QED BY <1>1, EffectsAlways, RequestTypes, PTL

\* What uw_commit runs in its second phase, since it cannot be undone, it runs for data
\* that are committed: none is run by an attempt that is given up or tried again.
THEOREM FinalsFollowCommit == Spec => []FinalsAfterCommit
<1>1. EffectsInv => FinalsAfterCommit
  <2> SUFFICES ASSUME EffectsInv, NEW i \in DOMAIN effects PROVE Fine(effects[i])
    BY DEF FinalsAfterCommit, Fine
  <2> QED BY DEF EffectsInv, Durable, Open, Over
<1> QED BY <1>1, EffectsAlways, PTL

\* Unless COMMIT may fail for good, where uw_commit frees without undoing, whatever a
\* transactional did for an attempt whose data are not committed is undone.
THEOREM EffectsAreUndone == ~CommitErrors => (Spec => []UndoneUnlessCommitted)
<1> SUFFICES ASSUME ~CommitErrors PROVE Spec => []UndoneUnlessCommitted
  OBVIOUS
<1>1. EffectsInv => UndoneUnlessCommitted
  BY OverBetween DEF UndoneUnlessCommitted, Over
<1> QED BY <1>1, EffectsAlways, PTL

-----------------------------------------------------------------------------
(* The database's transaction.                                              *)

\* Until the first use of the database none is started; one that is, is the attempt's.
TransactionInv ==
  /\ pc \in {"inputs", "arrive", "login", "onError"} => started = FALSE
  /\ OwnTransaction

\* Arrive makes a transaction that was left open a stray one, and only BEGIN makes one the
\* attempt's own, after which transaction_started is set until ROLLBACK resets it.
THEOREM TransactionIsOwn == Spec => []OwnTransaction
<1>1. Init => TransactionInv
  BY DEF Init, TransactionInv, OwnTransaction
<1>2. TransactionInv /\ [Next]_vars => TransactionInv'
  <2> SUFFICES ASSUME TransactionInv, [Next]_vars PROVE TransactionInv'
    OBVIOUS
  <2> USE DEF TransactionInv, OwnTransaction, locals, context, db, ghosts, bounds, Raise, Return
  <2>1. CASE Request
    BY <2>1 DEF Request
  <2>2. CASE ReadInputs \/ Arrive \/ Login
    BY <2>2 DEF ReadInputs, Arrive, Login
  <2>3. CASE EnsureTransaction
    BY <2>3 DEF EnsureTransaction
  <2>4. ASSUME NEW final \in BOOLEAN, Register(final) PROVE TransactionInv'
    BY <2>4 DEF Register
  <2>5. CASE SoftError \/ ConnectionLost \/ HandlerReturns
    BY <2>5 DEF SoftError, ConnectionLost, HandlerReturns
  <2>6. ASSUME NEW kind \in {"FATAL", "BOUNDED_RETRY", "UNLIMITED_RETRY"}, HandlerFails(kind)
         PROVE  TransactionInv'
    BY <2>6 DEF HandlerFails
  <2>7. CASE UwCommit
    <3>1. ASSUME NEW i \in DOMAIN effects, Prepare(i) \/ Finalize(i) PROVE TransactionInv'
      <4>1. UNCHANGED <<pc, started, tx>>
        BY <3>1, Zenon DEF Prepare, Finalize
      <4> QED BY <4>1
    <3>2. CASE Prepared
      BY <3>2 DEF Prepared
    <3>3. CASE PrepareFails \/ Commit \/ CommitConflict \/ CommitFails \/ FinalizeFails \/ Finalized
      BY <3>3 DEF PrepareFails, Commit, CommitConflict, CommitFails, FinalizeFails, Finalized
    <3> QED BY <2>7, <3>1, <3>2, <3>3 DEF UwCommit
  <2>8. CASE EndRound /\ ~NextRound
    BY <2>8 DEF EndRound, Answer, TurnToOnError, CommitIsFatal, Retry, FailToOnError,
                FailIsFatal, RollbackFails
  <2>9. CASE NextRound
    BY <2>9 DEF NextRound, Rollback, DbRollback
  <2>10. CASE UNCHANGED vars
    BY <2>10 DEF vars
  <2> QED BY <2>1, <2>2, <2>3, <2>4, <2>5, <2>6, <2>7, <2>8, <2>9, <2>10 DEF Next, Work, Handle
<1>3. TransactionInv => OwnTransaction
  BY DEF TransactionInv
<1> QED BY <1>1, <1>2, <1>3, PTL DEF Spec

-----------------------------------------------------------------------------
(* The room of a conversion.  What FlattenSeq makes of a sequence of        *)
(* sequences is proved in SocketsProofs.                                    *)

S == INSTANCE SocketsProofs WITH Workers <- {}, Connections <- {}, place <- <<>>, queue <- <<>>, sock <- <<>>

(* The digits of a number.                                                  *)

\* d has the digits of the numbers up to n, as Numeral has them.
Counts(d, n) == d = [k \in 0..n |-> IF k < 10 THEN <<Digit(k)>> ELSE Append(d[k \div 10], Digit(k % 10))]

LEMMA CountsAt ==
  ASSUME NEW d, NEW n \in Nat, Counts(d, n), NEW k \in 0..n
  PROVE  d[k] = IF k < 10 THEN <<Digit(k)>> ELSE Append(d[k \div 10], Digit(k % 10))
BY Zenon DEF Counts

LEMMA CountsOnce ==
  ASSUME NEW n \in Nat, NEW m \in 0..n, NEW d, Counts(d, n), NEW e, Counts(e, m), NEW k \in 0..m
  PROVE  d[k] = e[k]
<1> DEFINE N == {i \in 0..m : d[i] # e[i]}
<1> SUFFICES ASSUME N # {} PROVE FALSE
  OBVIOUS
<1>1. PICK i \in N : \A j \in N : i <= j
  <2>1. N \in SUBSET Nat
    OBVIOUS
  <2> QED BY <2>1, S!Least, Zenon
<1>2. i \in 0..m /\ i \in 0..n /\ m \in Nat /\ i \in Nat
  OBVIOUS
<1>3. d[i] = IF i < 10 THEN <<Digit(i)>> ELSE Append(d[i \div 10], Digit(i % 10))
  BY <1>2, CountsAt
<1>4. e[i] = IF i < 10 THEN <<Digit(i)>> ELSE Append(e[i \div 10], Digit(i % 10))
  BY <1>2, CountsAt
<1>5. i < 10 \/ d[i \div 10] = e[i \div 10]
  <2>1. i < 10 \/ (i \div 10 \in 0..m /\ ~(i <= i \div 10))
    BY <1>2
  <2> QED BY <2>1, <1>1
<1> QED BY <1>1, <1>3, <1>4, <1>5

LEMMA CountsExists == ASSUME NEW n \in Nat PROVE \E d : Counts(d, n)
<1> DEFINE N == {k \in Nat : ~ \E d : Counts(d, k)}
<1> SUFFICES ASSUME N # {} PROVE FALSE
  OBVIOUS
<1>1. PICK k \in N : \A j \in N : k <= j
  <2>1. N \in SUBSET Nat
    OBVIOUS
  <2> QED BY <2>1, S!Least, Zenon
<1>2. k \in Nat /\ k \in 0..k
  OBVIOUS
<1>3. CASE k = 0
  <2> DEFINE z == [i \in 0..0 |-> <<Digit(i)>>]
  <2>1. \A i \in 0..0 : i < 10
    OBVIOUS
  <2> HIDE DEF z
  <2>2. z = [i \in 0..0 |-> IF i < 10 THEN <<Digit(i)>> ELSE Append(z[i \div 10], Digit(i % 10))]
    BY <2>1, Zenon DEF z
  <2>3. Counts(z, 0)
    BY <2>2, Zenon DEF Counts
  <2> QED BY <1>1, <1>3, <2>3
<1>4. CASE k # 0
  <2>1. k - 1 \in Nat /\ k - 1 \notin N
    BY <1>1, <1>2, <1>4
  <2>2. PICK e : Counts(e, k - 1)
    BY <2>1
  <2> DEFINE Next1(i) == IF i < 10 THEN <<Digit(i)>> ELSE Append(e[i \div 10], Digit(i % 10))
             d == [i \in 0..k |-> Next1(i)]
  <2>3. \A i \in 0..(k - 1) : i \in 0..k /\ d[i] = e[i]
    BY <2>1, <2>2, CountsAt
  <2>4. \A i \in 0..k : i < 10 \/ i \div 10 \in 0..(k - 1)
    BY <1>2, <1>4
  <2>5. \A i \in 0..k : i < 10 \/ d[i \div 10] = e[i \div 10]
    BY <2>3, <2>4
  <2> HIDE DEF d
  <2>6. d = [i \in 0..k |-> IF i < 10 THEN <<Digit(i)>> ELSE Append(e[i \div 10], Digit(i % 10))]
    BY DEF d
  <2>7. d = [i \in 0..k |-> IF i < 10 THEN <<Digit(i)>> ELSE Append(d[i \div 10], Digit(i % 10))]
    BY <2>5, <2>6, Zenon
  <2>8. Counts(d, k)
    BY <2>7, Zenon DEF Counts
  <2> QED BY <1>1, <2>8
<1> QED BY <1>3, <1>4

LEMMA NumeralAt ==
  ASSUME NEW k \in Nat
  PROVE  Numeral[k] = IF k < 10 THEN <<Digit(k)>> ELSE Append(Numeral[k \div 10], Digit(k % 10))
<1> DEFINE to(n) == CHOOSE d : Counts(d, n)
           all == [n \in Nat |-> to(n)[n]]
<1>1. \A n \in Nat : Counts(to(n), n)
  BY CountsExists, Zenon
<1> HIDE DEF to
<1>2. ASSUME NEW n \in Nat
      PROVE  all[n] = IF n < 10 THEN <<Digit(n)>> ELSE Append(all[n \div 10], Digit(n % 10))
  <2>1. n \in 0..n /\ all[n] = to(n)[n]
    OBVIOUS
  <2>2. to(n)[n] = IF n < 10 THEN <<Digit(n)>> ELSE Append(to(n)[n \div 10], Digit(n % 10))
    BY <1>1, <2>1, CountsAt
  <2>3. n < 10 \/ to(n)[n \div 10] = all[n \div 10]
    <3> SUFFICES ASSUME ~(n < 10) PROVE to(n)[n \div 10] = all[n \div 10]
      OBVIOUS
    <3> DEFINE m == n \div 10
    <3>1. m \in Nat /\ m \in 0..n /\ m \in 0..m
      OBVIOUS
    <3> HIDE DEF m, all
    <3>2. to(n)[m] = to(m)[m]
      BY <1>1, <3>1, CountsOnce
    <3>3. all[m] = to(m)[m]
      BY <3>1 DEF all
    <3> QED BY <3>2, <3>3 DEF m
  <2> QED BY <2>1, <2>2, <2>3
<1> HIDE DEF all
<1>3. all = [n \in Nat |-> all[n]]
  BY DEF all
<1>4. all = [n \in Nat |-> IF n < 10 THEN <<Digit(n)>> ELSE Append(all[n \div 10], Digit(n % 10))]
  BY <1>2, <1>3, Zenon
<1>5. Numeral = [n \in Nat |-> IF n < 10 THEN <<Digit(n)>> ELSE Append(Numeral[n \div 10], Digit(n % 10))]
  BY <1>4, Zenon DEF Numeral
<1> QED BY <1>5, Zenon

\* The digits are digits.
LEMMA NumeralType ==
  ASSUME NEW k \in Nat PROVE Numeral[k] \in Seq(48..57) /\ Len(Numeral[k]) > 0
<1> DEFINE N == {i \in Nat : ~(Numeral[i] \in Seq(48..57) /\ Len(Numeral[i]) > 0)}
<1> SUFFICES ASSUME N # {} PROVE FALSE
  OBVIOUS
<1>1. PICK i \in N : \A j \in N : i <= j
  <2>1. N \in SUBSET Nat
    OBVIOUS
  <2> QED BY <2>1, S!Least, Zenon
<1>2. i \in Nat
  OBVIOUS
<1>3. CASE i < 10
  <2>1. Numeral[i] = <<Digit(i)>>
    BY <1>2, <1>3, NumeralAt, Zenon
  <2>2. Digit(i) \in 48..57
    BY <1>2, <1>3 DEF Digit
  <2>3. <<Digit(i)>> \in Seq(48..57) /\ Len(<<Digit(i)>>) > 0
    BY <2>2
  <2> QED BY <1>1, <2>1, <2>3, Zenon
<1>4. CASE ~(i < 10)
  <2>1. i \div 10 \in Nat /\ ~(i <= i \div 10) /\ i % 10 \in 0..9
    BY <1>2, <1>4
  <2>2. Numeral[i \div 10] \in Seq(48..57)
    BY <1>1, <2>1
  <2>3. Digit(i % 10) \in 48..57
    BY <2>1 DEF Digit
  <2>4. Numeral[i] = Append(Numeral[i \div 10], Digit(i % 10))
    BY <1>2, <1>4, NumeralAt
  <2>5. ASSUME NEW s \in Seq(48..57), NEW x \in 48..57 PROVE Append(s, x) \in Seq(48..57) /\ Len(Append(s, x)) > 0
    <3>1. Append(s, x) \in Seq(48..57) /\ Len(Append(s, x)) = Len(s) + 1 /\ Len(s) \in Nat
      OBVIOUS
    <3> QED BY <3>1
  <2>6. Numeral[i] \in Seq(48..57) /\ Len(Numeral[i]) > 0
    BY <2>2, <2>3, <2>4, <2>5, Zenon
  <2> QED BY <1>1, <2>6
<1> QED BY <1>3, <1>4

\* The numbers up to m have at most n digits.
AtMost(m, n) == \A k \in 0..m : Len(Numeral[k]) <= n

LEMMA AtMostLess ==
  ASSUME NEW l \in Nat, NEW m \in Nat, m <= l, NEW n, AtMost(l, n) PROVE AtMost(m, n)
<1> SUFFICES ASSUME NEW k \in 0..m PROVE Len(Numeral[k]) <= n
  BY DEF AtMost
<1>1. k \in 0..l
  OBVIOUS
<1> QED BY <1>1, Zenon DEF AtMost

\* Ten times as many take one digit more.
LEMMA OneDigitMore ==
  ASSUME NEW m \in Nat, NEW n \in Nat, AtMost(m, n), n > 0
  PROVE  AtMost(10 * m + 9, n + 1)
<1> SUFFICES ASSUME NEW k \in 0..(10 * m + 9) PROVE Len(Numeral[k]) <= n + 1
  BY DEF AtMost
<1>0. k \in Nat
  OBVIOUS
<1>1. CASE k < 10
  <2>1. Numeral[k] = <<Digit(k)>>
    BY <1>0, <1>1, NumeralAt, Zenon
  <2>2. Len(Numeral[k]) = 1
    BY <2>1
  <2> QED BY <2>2
<1>2. CASE ~(k < 10)
  <2>1. k \div 10 \in 0..m /\ k \div 10 \in Nat
    BY <1>0, <1>2
  <2>2. Numeral[k \div 10] \in Seq(48..57) /\ Len(Numeral[k \div 10]) <= n
    BY <2>1, NumeralType DEF AtMost
  <2>3. Numeral[k] = Append(Numeral[k \div 10], Digit(k % 10))
    BY <1>0, <1>2, NumeralAt
  <2>4. Len(Numeral[k]) = Len(Numeral[k \div 10]) + 1 /\ Len(Numeral[k \div 10]) \in Nat
    BY <2>2, <2>3
  <2> QED BY <2>2, <2>4
<1> QED BY <1>1, <1>2

LEMMA FourDigitsMore ==
  ASSUME NEW m \in Nat, NEW n \in Nat, AtMost(m, n), n > 0
  PROVE  AtMost(10000 * m + 9999, n + 4)
<1>1. AtMost(10 * m + 9, n + 1)
  BY OneDigitMore
<1>2. AtMost(10 * (10 * m + 9) + 9, n + 1 + 1)
  BY <1>1, OneDigitMore
<1>3. AtMost(10 * (10 * (10 * m + 9) + 9) + 9, n + 1 + 1 + 1)
  BY <1>2, OneDigitMore
<1>4. AtMost(10 * (10 * (10 * (10 * m + 9) + 9) + 9) + 9, n + 1 + 1 + 1 + 1)
  BY <1>3, OneDigitMore
<1> QED BY <1>4, SMT

\* What the numbers need that occur: bytes, characters and words.  (SMT alone: Zenon writes
\* out a number in ones.)
LEMMA NumeralRoom == AtMost(999, 3) /\ AtMost(999999999, 9) /\ AtMost(9999999999, 10)
<1>1. AtMost(9, 1)
  <2> SUFFICES ASSUME NEW k \in 0..9 PROVE Len(Numeral[k]) <= 1
    BY DEF AtMost
  <2>1. k \in Nat /\ k < 10
    OBVIOUS
  <2>2. Numeral[k] = <<Digit(k)>>
    BY <2>1, NumeralAt, Zenon
  <2> QED BY <2>2
<1>2. AtMost(99, 2)
  <2>1. AtMost(10 * 9 + 9, 1 + 1)
    BY <1>1, OneDigitMore, SMT
  <2> QED BY <2>1, SMT
<1>3. AtMost(999, 3)
  <2>1. AtMost(10 * 99 + 9, 2 + 1)
    BY <1>2, OneDigitMore, SMT
  <2> QED BY <2>1, SMT
<1>4. AtMost(99999, 5)
  <2>1. AtMost(10000 * 9 + 9999, 1 + 4)
    BY <1>1, FourDigitsMore, SMT
  <2> QED BY <2>1, SMT
<1>5. AtMost(999999999, 9)
  <2>1. AtMost(10000 * 99999 + 9999, 5 + 4)
    BY <1>4, FourDigitsMore, SMT
  <2> QED BY <2>1, SMT
<1>6. AtMost(9999999999, 10)
  <2>1. AtMost(10 * 999999999 + 9, 9 + 1)
    BY <1>5, OneDigitMore, SMT
  <2> QED BY <2>1, SMT
<1> QED BY <1>3, <1>5, <1>6, SMT

LEMMA WordRoom ==
  ASSUME NEW k \in Nat, k \div 1000000000 <= 9999999999 PROVE Len(Numeral[k]) <= 19
<1> DEFINE m == k \div 1000000000
<1>1. m \in Nat /\ m <= 9999999999 /\ k <= 1000000000 * m + 999999999
  <2>1. k >= 0 /\ m \in Int
    BY SMT
  <2>2. m >= 0 /\ k <= 1000000000 * m + 999999999
    BY <2>1, SMT
  <2> QED BY <2>1, <2>2, SMT
<1> HIDE DEF m
<1>2. AtMost(m, 10)
  <2>1. AtMost(9999999999, 10)
    BY NumeralRoom, SMT
  <2> QED BY <1>1, <2>1, AtMostLess, SMT
<1>3. AtMost(10000 * m + 9999, 14)
  <2>1. AtMost(10000 * m + 9999, 10 + 4)
    BY <1>1, <1>2, FourDigitsMore, SMT
  <2> QED BY <2>1, SMT
<1> DEFINE p == 10000 * m + 9999
           q == 10000 * p + 9999
<1>4. p \in Nat /\ q \in Nat /\ 10 * q + 9 = 1000000000 * m + 999999999
  BY <1>1, SMT
<1> HIDE DEF q
<1>5. AtMost(q, 18)
  <2>1. AtMost(p, 14)
    BY <1>3, SMT
  <2> HIDE DEF p
  <2>2. AtMost(10000 * p + 9999, 14 + 4)
    BY <1>4, <2>1, FourDigitsMore, SMT
  <2> QED BY <2>2, SMT DEF q
<1>6. AtMost(10 * q + 9, 19)
  <2>1. AtMost(10 * q + 9, 18 + 1)
    BY <1>4, <1>5, OneDigitMore, SMT
  <2> QED BY <2>1, SMT
<1>7. k \in 0..(10 * q + 9)
  BY <1>1, <1>4, SMT
<1> QED BY <1>6, <1>7, SMT DEF AtMost

LEMMA DecimalRoom ==
  ASSUME NEW n, Word(n)
  PROVE  Decimal(n) \in Seq(Int) /\ Len(Decimal(n)) >= 1 /\ Len(Decimal(n)) <= 20 /\ Decimal(n)[1] # 34
<1> DEFINE Small == {k \in Nat : k \div 1000000000 <= 9999999999}
<1>1. n \in Int /\ (n < 0 => -n \in Small) /\ (~(n < 0) => n \in Small)
  <2>0. n \in Int /\ 2^30 = 1073741824
    BY SMT DEF Word
  <2>1. (n \div 1073741824) \div 1073741824 \in -8..7
    BY <2>0, SMT DEF Word
  <2> DEFINE q == n \div 1073741824
  <2>2. q \in Int /\ q >= -8 * 1073741824 /\ q < 8 * 1073741824
    BY <2>0, <2>1, SMT
  <2>3. n >= q * 1073741824 /\ n < (q + 1) * 1073741824
    BY <2>0, SMT
  <2> HIDE DEF q
  <2>4. n < 0 => -n \in Nat /\ (-n) \div 1000000000 <= 9999999999
    BY <2>0, <2>2, <2>3, SMT
  <2>5. ~(n < 0) => n \in Nat /\ n \div 1000000000 <= 9999999999
    BY <2>0, <2>2, <2>3, SMT
  <2> QED BY <2>0, <2>4, <2>5, SMT
<1>3. \A k \in Small : k \in Nat /\ Len(Numeral[k]) <= 19
  BY WordRoom, SMT
<1> HIDE DEF Small
<1>4. ASSUME NEW k \in Small
      PROVE  Numeral[k] \in Seq(Int) /\ Len(Numeral[k]) >= 1 /\ Len(Numeral[k]) <= 19 /\ Numeral[k][1] \in 48..57
  <2>1. Numeral[k] \in Seq(48..57) /\ Len(Numeral[k]) > 0 /\ Len(Numeral[k]) <= 19
    BY <1>3, NumeralType
  <2> DEFINE s == Numeral[k]
  <2> HIDE DEF s
  <2>2. s \in Seq(48..57) /\ Len(s) > 0 /\ Len(s) <= 19
    BY <2>1 DEF s
  <2>3. Len(s) \in Nat
    BY <2>2
  <2>4. Len(s) >= 1 /\ Len(s) <= 19
    BY <2>2, <2>3
  <2>5. s[1] \in 48..57
    BY <2>2, <2>4
  <2>6. s \in Seq(Int)
    BY <2>2
  <2> QED BY <2>4, <2>5, <2>6 DEF s
<1>5. CASE n < 0
  <2> DEFINE s == Numeral[-n]
  <2>1. Decimal(n) = <<45>> \o s
    BY <1>5 DEF Decimal, B
  <2>2. s \in Seq(Int) /\ Len(s) >= 1 /\ Len(s) <= 19
    BY <1>1, <1>4, <1>5
  <2> HIDE DEF s
  <2>3. <<45>> \o s \in Seq(Int) /\ Len(<<45>> \o s) = 1 + Len(s) /\ (<<45>> \o s)[1] = 45
    BY <2>2
  <2>4. Decimal(n) \in Seq(Int) /\ Len(Decimal(n)) = 1 + Len(s) /\ Decimal(n)[1] = 45
    BY <2>1, <2>3, Zenon
  <2> QED BY <2>2, <2>4
<1>6. CASE ~(n < 0)
  <2>1. Decimal(n) = Numeral[n]
    BY <1>6 DEF Decimal
  <2>2. Numeral[n] \in Seq(Int) /\ Len(Numeral[n]) >= 1 /\ Len(Numeral[n]) <= 19 /\ Numeral[n][1] \in 48..57
    BY <1>1, <1>4, <1>6
  <2> DEFINE s == Numeral[n]
  <2>3. s[1] # 34 /\ Len(s) >= 1 /\ Len(s) <= 20
    BY <2>2
  <2> HIDE DEF s
  <2>4. Decimal(n) = s
    BY <2>1 DEF s
  <2>5. s \in Seq(Int)
    BY <2>2 DEF s
  <2> QED BY <2>3, <2>4, <2>5, Zenon
<1> QED BY <1>5, <1>6

-----------------------------------------------------------------------------
(* Pieces put together: what holds of the length of each holds of the whole.  *)

LEMMA SameFlatten == ASSUME NEW ss PROVE S!FlattenSeq(ss) = FlattenSeq(ss)
BY Zenon DEF FlattenSeq, S!FlattenSeq

LEMMA FlattenPlaced ==
  ASSUME NEW X, NEW ss \in Seq(Seq(X))
  PROVE  \E at \in [0..Len(ss) -> Nat] :
           /\ at[0] = 0 /\ at[Len(ss)] = Len(FlattenSeq(ss))
           /\ \A i \in 1..Len(ss) :
                /\ at[i] = at[i-1] + Len(ss[i])
                /\ \A k \in 1..Len(ss[i]) : FlattenSeq(ss)[at[i-1] + k] = ss[i][k]
           /\ \A i, j \in 0..Len(ss) : i <= j => at[i] <= at[j]
<1> DEFINE Placed(f) ==
      \E at \in [0..Len(ss) -> Nat] :
           /\ at[0] = 0 /\ at[Len(ss)] = Len(f)
           /\ \A i \in 1..Len(ss) :
                /\ at[i] = at[i-1] + Len(ss[i])
                /\ \A k \in 1..Len(ss[i]) : f[at[i-1] + k] = ss[i][k]
           /\ \A i, j \in 0..Len(ss) : i <= j => at[i] <= at[j]
<1>1. Placed(S!FlattenSeq(ss))
  BY S!FlattenPlaces, Zenon
<1>2. Placed(FlattenSeq(ss))
  <2> HIDE DEF Placed
  <2> QED BY <1>1, SameFlatten, Zenon
<1> QED BY <1>2, Zenon

\* If no step of a is more than k times that of b, and the first leaves g, so does the whole.
LEMMA Sums ==
  ASSUME NEW n \in Nat, n >= 1, NEW k \in Nat, NEW g \in Int,
         NEW a \in [0..n -> Nat], NEW b \in [0..n -> Nat], a[1] <= k * b[1] - g,
         \A i \in 1..n : i # 1 => a[i] - a[i-1] <= k * (b[i] - b[i-1])
  PROVE  a[n] <= k * b[n] - g
<1> DEFINE N == {i \in 1..n : ~(a[i] <= k * b[i] - g)}
<1> SUFFICES ASSUME N # {} PROVE FALSE
  <2>1. n \in 1..n
    OBVIOUS
  <2> QED BY <2>1
<1>1. PICK i \in N : \A j \in N : i <= j
  <2>1. N \in SUBSET Nat
    OBVIOUS
  <2> QED BY <2>1, S!Least, Zenon
<1>2. i \in 1..n /\ ~(a[i] <= k * b[i] - g) /\ i # 1
  <2>1. i \in 1..n /\ ~(a[i] <= k * b[i] - g)
    OBVIOUS
  <2> QED BY <2>1
<1>3. i - 1 \in 1..n /\ ~(i <= i - 1)
  BY <1>2
<1>4. a[i-1] <= k * b[i-1] - g
  BY <1>1, <1>3
<1>5. a[i] - a[i-1] <= k * (b[i] - b[i-1])
  BY <1>2
<1>6. a[i] \in Nat /\ b[i] \in Nat /\ a[i-1] \in Nat /\ b[i-1] \in Nat
  BY <1>2, <1>3
<1>7. a[i] <= k * b[i] - g
  <2> DEFINE p == a[i]
             q == b[i]
             u == a[i-1]
             v == b[i-1]
  <2>1. p \in Nat /\ q \in Nat /\ u \in Nat /\ v \in Nat /\ u <= k * v - g /\ p - u <= k * (q - v)
    BY <1>4, <1>5, <1>6
  <2> HIDE DEF p, q, u, v
  <2>2. k * (q - v) = k * q - k * v
    BY <2>1
  <2>3. k * q \in Int /\ k * v \in Int
    BY <2>1
  <2>4. p <= k * q - g
    BY <2>1, <2>2, <2>3
  <2> QED BY <2>4 DEF p, q
<1> QED BY <1>2, <1>7

\* Pieces that are at most k times as long as others.
LEMMA Longer ==
  ASSUME NEW X, NEW ss \in Seq(Seq(X)), NEW Y, NEW ws \in Seq(Seq(Y)), Len(ss) = Len(ws),
         NEW k \in Nat, \A i \in 1..Len(ss) : Len(ss[i]) <= k * Len(ws[i])
  PROVE  Len(FlattenSeq(ss)) <= k * Len(FlattenSeq(ws))
<1> DEFINE n == Len(ss)
<1>1. n \in Nat /\ S!FlattenSeq(ss) = FlattenSeq(ss) /\ S!FlattenSeq(ws) = FlattenSeq(ws)
  BY SameFlatten
<1>2. PICK a \in [0..n -> Nat] :
        /\ a[0] = 0 /\ a[n] = Len(FlattenSeq(ss))
        /\ \A i \in 1..n : a[i] = a[i-1] + Len(ss[i])
  BY <1>1, FlattenPlaced
<1>3. PICK b \in [0..n -> Nat] :
        /\ b[0] = 0 /\ b[n] = Len(FlattenSeq(ws))
        /\ \A i \in 1..n : b[i] = b[i-1] + Len(ws[i])
  <2> DEFINE m == Len(ws)
  <2>1. \E b \in [0..m -> Nat] :
          /\ b[0] = 0 /\ b[m] = Len(FlattenSeq(ws))
          /\ \A i \in 1..m : b[i] = b[i-1] + Len(ws[i])
    BY <1>1, FlattenPlaced
  <2>2. n = m
    OBVIOUS
  <2> HIDE DEF m, n
  <2> QED BY <2>1, <2>2, Zenon
<1>4. ASSUME NEW i \in 1..n PROVE Len(ss[i]) \in Nat /\ Len(ws[i]) \in Nat
  OBVIOUS
<1> HIDE DEF n
<1>5. CASE n = 0
  BY <1>2, <1>3, <1>5
<1>6. CASE n # 0
  <2>1. n >= 1 /\ 1 \in 1..n
    BY <1>1, <1>6
  <2>2. a[1] = Len(ss[1]) /\ b[1] = Len(ws[1])
    <3>1. a[1] = a[1-1] + Len(ss[1]) /\ b[1] = b[1-1] + Len(ws[1])
      BY <1>2, <1>3, <2>1
    <3> QED BY <3>1, <1>2, <1>3, <1>4, <2>1
  <2>3. Len(ss[1]) <= k * Len(ws[1])
    BY <2>1 DEF n
  <2>4. a[1] <= k * b[1] - 0
    <3>1. ASSUME NEW p \in Nat, NEW q \in Nat, p <= k * q PROVE p <= k * q - 0
      BY <3>1
    <3> QED BY <2>2, <2>3, <1>4, <2>1, <3>1
  <2>5. ASSUME NEW i \in 1..n, i # 1 PROVE a[i] - a[i-1] <= k * (b[i] - b[i-1])
    <3>1. a[i] = a[i-1] + Len(ss[i]) /\ b[i] = b[i-1] + Len(ws[i])
      BY <1>2, <1>3
    <3>2. a[i-1] \in Nat /\ b[i-1] \in Nat /\ Len(ss[i]) \in Nat /\ Len(ws[i]) \in Nat
      BY <1>1, <1>4, <2>5
    <3>3. a[i] - a[i-1] = Len(ss[i]) /\ b[i] - b[i-1] = Len(ws[i])
      <4>1. ASSUME NEW x \in Nat, NEW y \in Nat PROVE (x + y) - x = y
        OBVIOUS
      <4>2. (a[i-1] + Len(ss[i])) - a[i-1] = Len(ss[i])
        BY <3>2, <4>1, Zenon
      <4>3. (b[i-1] + Len(ws[i])) - b[i-1] = Len(ws[i])
        BY <3>2, <4>1, Zenon
      <4> QED BY <3>1, <4>2, <4>3, Zenon
    <3>4. Len(ss[i]) <= k * Len(ws[i])
      BY DEF n
    <3> QED BY <3>3, <3>4, Zenon
  <2>6. a[n] <= k * b[n] - 0
    <3>1. 0 \in Int
      OBVIOUS
    <3> QED BY <1>1, <2>1, <2>4, <2>5, <3>1, Sums, Zenon
  <2> QED BY <2>6, <1>1, <1>2, <1>3
<1> QED BY <1>5, <1>6

\* At most k in each of them, and less in the first.
LEMMA Long ==
  ASSUME NEW X, NEW ss \in Seq(Seq(X)), NEW k \in Nat, \A i \in 1..Len(ss) : Len(ss[i]) <= k
  PROVE  /\ Len(FlattenSeq(ss)) <= k * Len(ss)
         /\ \A g \in Nat : Len(ss) >= 1 /\ Len(ss[1]) <= k - g => Len(FlattenSeq(ss)) <= k * Len(ss) - g
<1> DEFINE n == Len(ss)
<1>1. n \in Nat /\ S!FlattenSeq(ss) = FlattenSeq(ss)
  BY SameFlatten
<1>2. PICK a \in [0..n -> Nat] :
        /\ a[0] = 0 /\ a[n] = Len(FlattenSeq(ss))
        /\ \A i \in 1..n : a[i] = a[i-1] + Len(ss[i])
  BY <1>1, FlattenPlaced
<1>3. ASSUME NEW i \in 1..n PROVE Len(ss[i]) \in Nat /\ Len(ss[i]) <= k
  OBVIOUS
<1> HIDE DEF n
<1>4. ASSUME NEW g \in Nat, n >= 1, Len(ss[1]) <= k - g PROVE a[n] <= k * n - g
  <2> DEFINE b == [i \in 0..n |-> i]
  <2>1. b \in [0..n -> Nat] /\ b[n] = n /\ b[1] = 1
    BY <1>1, <1>4
  <2>2. \A i \in 1..n : i # 1 => b[i] - b[i-1] = 1
    BY <1>1
  <2> HIDE DEF b
  <2>3. a[1] = Len(ss[1]) /\ 1 \in 1..n
    <3>1. 1 \in 1..n
      BY <1>1, <1>4
    <3>2. a[1] = a[1-1] + Len(ss[1])
      BY <1>2, <3>1
    <3> QED BY <3>1, <3>2, <1>2, <1>3
  <2>4. a[1] <= k * b[1] - g
    BY <1>4, <2>1, <2>3
  <2>5. ASSUME NEW i \in 1..n, i # 1 PROVE a[i] - a[i-1] <= k * (b[i] - b[i-1])
    <3>1. a[i] = a[i-1] + Len(ss[i])
      BY <1>2
    <3>2. a[i-1] \in Nat /\ Len(ss[i]) \in Nat /\ Len(ss[i]) <= k
      BY <1>1, <1>3, <2>5
    <3>3. a[i] - a[i-1] <= k * 1
      BY <3>1, <3>2
    <3> QED BY <3>3, <2>2, <2>5
  <2>6. a[n] <= k * b[n] - g
    <3>1. g \in Int
      OBVIOUS
    <3> QED BY <1>1, <1>4, <2>1, <2>4, <2>5, <3>1, Sums, Zenon
  <2> QED BY <2>1, <2>6
<1>5. a[n] <= k * n
  <2>1. CASE n = 0
    BY <1>2, <2>1
  <2>2. CASE n # 0
    <3>1. n >= 1 /\ 1 \in 1..n
      BY <1>1, <2>2
    <3>2. Len(ss[1]) <= k - 0
      BY <1>3, <3>1
    <3>3. a[n] <= k * n - 0
      BY <1>4, <3>1, <3>2
    <3> QED BY <1>1, <3>3
  <2> QED BY <2>1, <2>2
<1> QED BY <1>2, <1>4, <1>5 DEF n

\* What comes first.
LEMMA FlattenFirst ==
  ASSUME NEW X, NEW ss \in Seq(Seq(X)), Len(ss) >= 1, Len(ss[1]) >= 1
  PROVE  Len(FlattenSeq(ss)) >= 1 /\ FlattenSeq(ss)[1] = ss[1][1]
<1> DEFINE n == Len(ss)
<1>1. n \in Nat /\ S!FlattenSeq(ss) = FlattenSeq(ss) /\ Len(ss[1]) \in Nat
  BY SameFlatten
<1>2. PICK at \in [0..n -> Nat] :
        /\ at[0] = 0 /\ at[n] = Len(FlattenSeq(ss))
        /\ \A i \in 1..n :
             /\ at[i] = at[i-1] + Len(ss[i])
             /\ \A k \in 1..Len(ss[i]) : FlattenSeq(ss)[at[i-1] + k] = ss[i][k]
        /\ \A i, j \in 0..n : i <= j => at[i] <= at[j]
  BY FlattenPlaced, Zenon
<1> HIDE DEF n
<1>3. n >= 1 /\ 1 \in 1..n /\ 1 \in 0..n /\ n \in 0..n /\ 1 \in 1..Len(ss[1])
  BY <1>1 DEF n
<1>4. at[1] = Len(ss[1]) /\ FlattenSeq(ss)[1] = ss[1][1]
  <2>1. at[1] = at[1-1] + Len(ss[1]) /\ FlattenSeq(ss)[at[1-1] + 1] = ss[1][1]
    BY <1>2, <1>3
  <2> QED BY <1>1, <1>2, <2>1
<1>5. at[1] <= at[n]
  BY <1>2, <1>3
<1> QED BY <1>1, <1>2, <1>3, <1>4, <1>5

-----------------------------------------------------------------------------
(* Characters and bytes.                                                    *)

LEMMA CodeFacts == ASSUME NEW c \in Code PROVE c \in Nat /\ c <= 1114111
<1>1. LastCode \in Nat /\ LastCode <= 1114111
  BY SMT DEF LastCode
<1>2. c \in Nat /\ c <= LastCode
  BY <1>1 DEF Code
<1> QED BY <1>1, <1>2, SMT

LEMMA PlacesRoom ==
  ASSUME NEW n \in Int, NEW radix \in {8, 16}, NEW k \in Nat
  PROVE  Places(n, radix, k) \in Seq(Int) /\ Len(Places(n, radix, k)) = k
<1>1. ASSUME NEW i \in 1..k PROVE Digit((n \div radix ^ (k - i)) % radix) \in Int
  <2>1. radix ^ (k - i) \in Int
    OBVIOUS
  <2> QED BY <2>1 DEF Digit
<1> QED BY <1>1 DEF Places

LEMMA Utf8Room ==
  ASSUME NEW c \in Code
  PROVE  /\ Utf8(c) \in Seq(Int) /\ Len(Utf8(c)) >= 1 /\ Len(Utf8(c)) <= 4
         /\ c >= 128 => Len(Utf8(c)) >= 2
         /\ c >= 2048 => Len(Utf8(c)) >= 3
         /\ c >= 65536 => Len(Utf8(c)) = 4
         /\ c < 65536 => Len(Utf8(c)) <= 3
<1>0. c \in Int /\ 192 + c \div 64 \in Int /\ 224 + c \div 4096 \in Int /\ 240 + c \div 262144 \in Int
  <2>1. c \in Int
    BY CodeFacts, SMT
  <2> QED BY <2>1, SMT
<1>1. More(c) \in Int /\ More(c \div 64) \in Int /\ More(c \div 4096) \in Int
  BY <1>0, SMT DEF More
<1>2. CASE c < 128
  <2>1. Utf8(c) = <<c>>
    BY <1>0, <1>2, SMT DEF Utf8
  <2>2. <<c>> \in Seq(Int) /\ Len(<<c>>) = 1
    BY <1>0, SMT
  <2> QED BY <1>0, <1>2, <2>1, <2>2, SMT
<1>3. CASE ~(c < 128) /\ c < 2048
  <2>1. Utf8(c) = <<192 + c \div 64, More(c)>>
    BY <1>0, <1>3, SMT DEF Utf8
  <2> QED BY <1>0, <1>1, <1>3, <2>1, SMT
<1>4. CASE ~(c < 2048) /\ c < 65536
  <2>1. Utf8(c) = <<224 + c \div 4096, More(c \div 64), More(c)>>
    BY <1>0, <1>4, SMT DEF Utf8
  <2> QED BY <1>0, <1>1, <1>4, <2>1, SMT
<1>5. CASE ~(c < 65536)
  <2>1. Utf8(c) = <<240 + c \div 262144, More(c \div 4096), More(c \div 64), More(c)>>
    BY <1>0, <1>5, SMT DEF Utf8
  <2> QED BY <1>0, <1>1, <1>5, <2>1, SMT
<1> QED BY <1>2, <1>3, <1>4, <1>5, SMT

\* A sequence of pieces.
LEMMA Pieces ==
  ASSUME NEW X, NEW n \in Nat, NEW ss \in [1..n -> Seq(X)]
  PROVE  ss \in Seq(Seq(X)) /\ Len(ss) = n /\ FlattenSeq(ss) \in Seq(X)
<1>1. ss \in Seq(Seq(X)) /\ Len(ss) = n
  OBVIOUS
<1>2. S!FlattenSeq(ss) = FlattenSeq(ss)
  BY SameFlatten
<1> QED BY <1>1, <1>2, S!FlattenType

\* One piece for each character.
LEMMA CharacterPieces ==
  ASSUME NEW s \in Seq(Code), NEW ss \in [1..Len(s) -> Seq(Int)],
         NEW k \in Nat, \A i \in 1..Len(s) : Len(ss[i]) <= k * Len(Utf8(s[i]))
  PROVE  /\ FlattenSeq(ss) \in Seq(Int) /\ Bytes(s) \in Seq(Int)
         /\ Len(FlattenSeq(ss)) <= k * Len(Bytes(s))
<1> DEFINE ws == [i \in 1..Len(s) |-> Utf8(s[i])]
<1>1. ws \in [1..Len(s) -> Seq(Int)] /\ Len(s) \in Nat
  BY Utf8Room
<1>2. Bytes(s) = FlattenSeq(ws)
  BY Zenon DEF Bytes
<1>3. \A i \in 1..Len(s) : ws[i] = Utf8(s[i])
  OBVIOUS
<1> HIDE DEF ws
<1>4. ss \in Seq(Seq(Int)) /\ Len(ss) = Len(s) /\ FlattenSeq(ss) \in Seq(Int)
  BY <1>1, Pieces
<1>5. ws \in Seq(Seq(Int)) /\ Len(ws) = Len(s) /\ FlattenSeq(ws) \in Seq(Int)
  BY <1>1, Pieces
<1>6. Len(ss) = Len(ws) /\ \A i \in 1..Len(ss) : Len(ss[i]) <= k * Len(ws[i])
  BY <1>3, <1>4, <1>5, Zenon
<1>7. Len(FlattenSeq(ss)) <= k * Len(FlattenSeq(ws))
  BY <1>4, <1>5, <1>6, Longer, Zenon
<1> QED BY <1>2, <1>4, <1>5, <1>7

LEMMA BytesType == ASSUME NEW s \in Seq(Code) PROVE Bytes(s) \in Seq(Int) /\ Len(Bytes(s)) \in Nat
<1> DEFINE ws == [i \in 1..Len(s) |-> Utf8(s[i])]
<1>1. ws \in [1..Len(s) -> Seq(Int)] /\ Len(s) \in Nat
  BY Utf8Room
<1>2. Bytes(s) = FlattenSeq(ws)
  BY Zenon DEF Bytes
<1> HIDE DEF ws
<1>3. Bytes(s) \in Seq(Int)
  BY <1>1, <1>2, Pieces
<1> QED BY <1>3

LEMMA SomeBytes == ASSUME NEW s \in Seq(Code), s # <<>> PROVE Len(Bytes(s)) >= 1
<1> DEFINE ws == [i \in 1..Len(s) |-> Utf8(s[i])]
<1>1. ws \in [1..Len(s) -> Seq(Int)] /\ Len(s) \in Nat /\ Len(s) >= 1
  BY Utf8Room
<1>2. Bytes(s) = FlattenSeq(ws)
  BY Zenon DEF Bytes
<1>3. s[1] \in Code /\ ws[1] = Utf8(s[1])
  BY <1>1
<1> HIDE DEF ws
<1>4. ws \in Seq(Seq(Int)) /\ Len(ws) = Len(s)
  BY <1>1, Pieces
<1>5. Len(ws[1]) >= 1
  BY <1>3, Utf8Room
<1> QED BY <1>1, <1>2, <1>4, <1>5, FlattenFirst

\* One for each byte.
LEMMA BytePieces ==
  ASSUME NEW t \in Seq(Int), NEW ss \in [1..Len(t) -> Seq(Int)],
         NEW k \in Nat, \A i \in 1..Len(t) : Len(ss[i]) <= k
  PROVE  FlattenSeq(ss) \in Seq(Int) /\ Len(FlattenSeq(ss)) <= k * Len(t)
<1>1. ss \in Seq(Seq(Int)) /\ Len(ss) = Len(t) /\ FlattenSeq(ss) \in Seq(Int)
  BY Pieces, Len(t) \in Nat
<1>2. \A i \in 1..Len(ss) : Len(ss[i]) <= k
  BY <1>1
<1>3. Len(FlattenSeq(ss)) <= k * Len(ss)
  BY <1>1, <1>2, Long
<1> QED BY <1>1, <1>3

LEMMA Concatenated ==
  ASSUME NEW p \in Seq(Int), NEW q \in Seq(Int)
  PROVE  p \o q \in Seq(Int) /\ Len(p \o q) = Len(p) + Len(q) /\ Len(p) \in Nat /\ Len(q) \in Nat
OBVIOUS

LEMMA Widened == ASSUME NEW X, NEW Y, X \subseteq Y, NEW x \in Seq(X) PROVE x \in Seq(Y) /\ Len(x) \in Nat
OBVIOUS

LEMMA Prefixed ==
  ASSUME NEW d \in Int, NEW p \in Seq(Int)
  PROVE  <<d>> \o p \in Seq(Int) /\ Len(<<d>> \o p) = 1 + Len(p) /\ (<<d>> \o p)[1] = d
OBVIOUS

\* Bytes written with a mark and two digits each.
LEMMA EscapedRoom ==
  ASSUME NEW d \in Int, NEW t \in Seq(Int), Len(t) >= 1
  PROVE  LET e == FlattenSeq([i \in 1..Len(t) |-> <<d>> \o Places(t[i], 16, 2)])
         IN e \in Seq(Int) /\ Len(e) >= 1 /\ Len(e) <= 3 * Len(t) /\ e[1] = d
<1> DEFINE ss == [i \in 1..Len(t) |-> <<d>> \o Places(t[i], 16, 2)]
<1>1. ASSUME NEW i \in 1..Len(t)
      PROVE  <<d>> \o Places(t[i], 16, 2) \in Seq(Int) /\ Len(<<d>> \o Places(t[i], 16, 2)) = 3
             /\ (<<d>> \o Places(t[i], 16, 2))[1] = d
  <2> DEFINE p == Places(t[i], 16, 2)
  <2>1. p \in Seq(Int) /\ Len(p) = 2
    <3>1. t[i] \in Int /\ 16 \in {8, 16} /\ 2 \in Nat
      OBVIOUS
    <3> QED BY <3>1, PlacesRoom, Zenon
  <2> HIDE DEF p
  <2>2. <<d>> \o p \in Seq(Int) /\ Len(<<d>> \o p) = 1 + Len(p) /\ (<<d>> \o p)[1] = d
    BY <2>1, Prefixed
  <2>3. <<d>> \o p \in Seq(Int) /\ Len(<<d>> \o p) = 3 /\ (<<d>> \o p)[1] = d
    BY <2>1, <2>2
  <2> QED BY <2>3 DEF p
<1>2. ss \in [1..Len(t) -> Seq(Int)] /\ \A i \in 1..Len(t) : Len(ss[i]) = 3 /\ ss[i][1] = d
  BY <1>1
<1> HIDE DEF ss
<1>3. FlattenSeq(ss) \in Seq(Int) /\ Len(FlattenSeq(ss)) <= 3 * Len(t)
  <2>1. ASSUME NEW i \in 1..Len(t) PROVE Len(ss[i]) <= 3
    <3>1. Len(ss[i]) = 3
      BY <1>2
    <3> QED BY <3>1
  <2> QED BY <1>2, <2>1, BytePieces
<1>4. ss \in Seq(Seq(Int)) /\ Len(ss) = Len(t)
  BY <1>2, Pieces
<1>5. Len(ss) >= 1 /\ Len(ss[1]) >= 1 /\ ss[1][1] = d
  BY <1>2, <1>4
<1>6. Len(FlattenSeq(ss)) >= 1 /\ FlattenSeq(ss)[1] = d
  BY <1>4, <1>5, FlattenFirst
<1> QED BY <1>3, <1>6 DEF ss

-----------------------------------------------------------------------------
(* The writers.                                                             *)

LEMMA BFacts ==
  /\ B.sp \in Int /\ B.plus \in Int /\ B.plus # 34 /\ B.dot \in Int /\ B.dot # 34 /\ B.under \in Int /\ B.under # 34
  /\ B.percent \in Int /\ B.amp \in Int /\ B.hash \in Int /\ B.semi \in Int /\ B.quot = 34 /\ B.back \in Int
  /\ B.apos \in Int /\ B.lt \in Int /\ B.u \in Int /\ B.open \in Int /\ B.close \in Int /\ B.E \in Int /\ B.slash \in Int
BY DEF B

\* What begins an argument: neither nothing nor a quote.
Starts(t) == t \in Seq(Int) /\ Len(t) >= 1 /\ t[1] # 34

LEMMA OneStarts == ASSUME NEW d \in Int, d # 34 PROVE Starts(<<d>>) /\ Len(<<d>>) = 1
BY DEF Starts

LEMMA OneByte ==
  ASSUME NEW c \in Code, NEW d \in Int, d # 34
  PROVE  Starts(<<d>>) /\ Len(<<d>>) <= 3 * Len(Utf8(c))
<1>1. Starts(<<d>>) /\ Len(<<d>>) = 1
  BY DEF Starts
<1>2. Utf8(c) \in Seq(Int) /\ Len(Utf8(c)) >= 1
  BY Utf8Room
<1>3. 1 <= 3 * Len(Utf8(c))
  BY <1>2
<1> QED BY <1>1, <1>3

LEMMA UrlCharRoom ==
  ASSUME NEW c \in Code
  PROVE  Starts(UrlChar(c)) /\ Len(UrlChar(c)) <= 3 * Len(Utf8(c))
<1>1. Utf8(c) \in Seq(Int) /\ Len(Utf8(c)) >= 1 /\ c \in Int
  BY Utf8Room, CodeFacts
<1>2. CASE c = B.sp
  <2> DEFINE d == B.plus
  <2>1. UrlChar(c) = <<d>>
    BY <1>2, Zenon DEF UrlChar
  <2>2. d \in Int /\ d # 34
    BY BFacts
  <2> HIDE DEF d
  <2> QED BY <2>1, <2>2, OneByte
<1>3. CASE c # B.sp /\ Alnum(c)
  <2>1. UrlChar(c) = <<c>>
    BY <1>3, Zenon DEF UrlChar
  <2>2. c # 34
    BY <1>3 DEF Alnum
  <2> QED BY <1>1, <2>1, <2>2, OneByte
<1>4. CASE c # B.sp /\ ~Alnum(c)
  <2> DEFINE u == Utf8(c)
             d == B.dot
             e == FlattenSeq([i \in 1..Len(u) |-> <<d>> \o Places(u[i], 16, 2)])
  <2>1. UrlChar(c) = e
    BY <1>4, Zenon DEF UrlChar, Each
  <2>2. u \in Seq(Int) /\ Len(u) >= 1 /\ d \in Int /\ d # 34
    BY <1>1, BFacts
  <2> HIDE DEF u, d
  <2>3. e \in Seq(Int) /\ Len(e) >= 1 /\ Len(e) <= 3 * Len(u) /\ e[1] = d
    BY <2>2, EscapedRoom
  <2> HIDE DEF e
  <2>4. Starts(e)
    BY <2>2, <2>3 DEF Starts
  <2> QED BY <2>1, <2>3, <2>4 DEF u
<1> QED BY <1>2, <1>3, <1>4

\* uf of urweb.js escapes a character unless it is unreserved.
UfChar(c) ==
  IF Unreserved(c) THEN <<c>>
  ELSE FlattenSeq([i \in 1..Len(Utf8(c)) |-> <<B.dot>> \o Places(Utf8(c)[i], 16, 2)])

LEMMA UfCharRoom ==
  ASSUME NEW c \in Code
  PROVE  Starts(UfChar(c)) /\ Len(UfChar(c)) <= 3 * Len(Utf8(c))
<1>1. Utf8(c) \in Seq(Int) /\ Len(Utf8(c)) >= 1 /\ c \in Int
  BY Utf8Room, CodeFacts
<1>2. CASE Unreserved(c)
  <2>1. UfChar(c) = <<c>>
    BY <1>2, Zenon DEF UfChar
  <2>2. c # 34
    BY <1>2 DEF Unreserved, Alnum
  <2> QED BY <1>1, <2>1, <2>2 DEF Starts
<1>3. CASE ~Unreserved(c)
  <2> DEFINE u == Utf8(c)
             d == B.dot
             e == FlattenSeq([i \in 1..Len(u) |-> <<d>> \o Places(u[i], 16, 2)])
  <2>1. UfChar(c) = e
    BY <1>3, Zenon DEF UfChar
  <2>2. u \in Seq(Int) /\ Len(u) >= 1 /\ d \in Int /\ d # 34
    BY <1>1, BFacts
  <2> HIDE DEF u, d
  <2>3. e \in Seq(Int) /\ Len(e) >= 1 /\ Len(e) <= 3 * Len(u) /\ e[1] = d
    BY <2>2, EscapedRoom
  <2> HIDE DEF e
  <2>4. Starts(e)
    BY <2>2, <2>3 DEF Starts
  <2> QED BY <2>1, <2>3, <2>4 DEF u
<1> QED BY <1>2, <1>3

\* An argument made of characters, which may have a mark.
LEMMA ArgumentPieces ==
  ASSUME NEW s \in Seq(Code), s # <<>>, NEW ss \in [1..Len(s) -> Seq(Int)],
         \A i \in 1..Len(s) : Starts(ss[i]) /\ Len(ss[i]) <= 3 * Len(Utf8(s[i])),
         NEW t, t = Marked(s) \o FlattenSeq(ss)
  PROVE  /\ Starts(t) /\ Bytes(s) \in Seq(Int) /\ Marked(s) \in Seq(Int)
         /\ Len(t) <= Len(Marked(s)) + 3 * Len(Bytes(s))
<1> DEFINE e == FlattenSeq(ss)
<1>1. 3 \in Nat /\ \A i \in 1..Len(s) : Len(ss[i]) <= 3 * Len(Utf8(s[i]))
  OBVIOUS
<1>2. e \in Seq(Int) /\ Bytes(s) \in Seq(Int) /\ Len(e) <= 3 * Len(Bytes(s))
  BY <1>1, CharacterPieces
<1>3. ss \in Seq(Seq(Int)) /\ Len(ss) = Len(s) /\ Len(s) \in Nat
  BY Pieces, Len(s) \in Nat
<1>4. Len(s) >= 1
  <2>1. Len(s) # 0
    BY SMTT(30)
  <2> QED BY <1>3, <2>1
<1>5. Len(ss) >= 1 /\ Len(ss[1]) >= 1 /\ ss[1][1] # 34
  <2>1. 1 \in 1..Len(s)
    BY <1>3, <1>4
  <2>2. Starts(ss[1])
    BY <2>1
  <2> QED BY <1>3, <1>4, <2>2 DEF Starts
<1>6. Len(e) >= 1 /\ e[1] # 34
  BY <1>3, <1>5, FlattenFirst
<1> HIDE DEF e
<1>7. CASE s[1] = B.under
  <2>1. Marked(s) = <<B.under>>
    BY <1>7, Zenon DEF Marked
  <2>2. t = <<B.under>> \o e
    BY <2>1 DEF e
  <2> DEFINE d == B.under
  <2>3. d \in Int /\ d # 34
    BY BFacts
  <2> HIDE DEF d
  <2>4. <<d>> \o e \in Seq(Int) /\ Len(<<d>> \o e) = 1 + Len(e) /\ (<<d>> \o e)[1] = d
    BY <1>2, <2>3, Prefixed
  <2>5. Starts(<<d>> \o e) /\ Len(<<d>> \o e) = 1 + Len(e) /\ Len(<<d>>) = 1 /\ <<d>> \in Seq(Int)
    BY <1>2, <1>6, <2>3, <2>4 DEF Starts
  <2>6. t = <<d>> \o e /\ Marked(s) = <<d>>
    BY <2>1, <2>2 DEF d
  <2> QED BY <1>2, <2>5, <2>6
<1>8. CASE s[1] # B.under
  <2>1. Marked(s) = <<>>
    BY <1>8, Zenon DEF Marked
  <2>2. <<>> \o e = e /\ <<>> \in Seq(Int) /\ Len(<<>>) = 0
    BY <1>2
  <2>3. t = e
    BY <2>1, <2>2 DEF e
  <2> QED BY <1>2, <1>6, <2>1, <2>2, <2>3 DEF Starts
<1> QED BY <1>7, <1>8

LEMMA UrlifyRoom ==
  ASSUME NEW s \in Seq(Code)
  PROVE  /\ Starts(Urlify(s)) /\ Bytes(s) \in Seq(Int)
         /\ s = <<>> => Len(Urlify(s)) = 1
         /\ s # <<>> => Marked(s) \in Seq(Int) /\ Len(Urlify(s)) <= Len(Marked(s)) + 3 * Len(Bytes(s))
<1>1. CASE s = <<>>
  <2>1. Urlify(s) = <<B.under>>
    BY <1>1, Zenon DEF Urlify
  <2>2. Bytes(s) \in Seq(Int)
    BY BytesType
  <2>3. Starts(<<B.under>>) /\ Len(<<B.under>>) = 1
    BY BFacts, OneStarts
  <2> QED BY <1>1, <2>1, <2>2, <2>3
<1>2. CASE s # <<>>
  <2> DEFINE ss == [i \in 1..Len(s) |-> UrlChar(s[i])]
  <2>1. ss \in [1..Len(s) -> Seq(Int)] /\ \A i \in 1..Len(s) : ss[i] = UrlChar(s[i])
    BY UrlCharRoom DEF Starts
  <2>2. Urlify(s) = Marked(s) \o FlattenSeq(ss)
    BY <1>2, Zenon DEF Urlify, Each
  <2> HIDE DEF ss
  <2>3. \A i \in 1..Len(s) : Starts(ss[i]) /\ Len(ss[i]) <= 3 * Len(Utf8(s[i]))
    BY <2>1, UrlCharRoom
  <2> QED BY <1>2, <2>1, <2>2, <2>3, ArgumentPieces
<1> QED BY <1>1, <1>2

LEMMA UfRoom == ASSUME NEW s \in Seq(Code) PROVE Starts(Uf(s))
<1>1. CASE s = <<>>
  <2>1. Uf(s) = <<B.under>>
    BY <1>1, Zenon DEF Uf
  <2>2. Starts(<<B.under>>)
    BY BFacts, OneStarts
  <2> QED BY <2>1, <2>2
<1>2. CASE s # <<>>
  <2> DEFINE ss == [i \in 1..Len(s) |-> UfChar(s[i])]
  <2>1. ss \in [1..Len(s) -> Seq(Int)] /\ \A i \in 1..Len(s) : ss[i] = UfChar(s[i])
    BY UfCharRoom DEF Starts
  <2>2. Uf(s) = Marked(s) \o FlattenSeq(ss)
    BY <1>2, Zenon DEF Uf, Each, UfChar
  <2> HIDE DEF ss
  <2>3. \A i \in 1..Len(s) : Starts(ss[i]) /\ Len(ss[i]) <= 3 * Len(Utf8(s[i]))
    BY <2>1, UfCharRoom
  <2> QED BY <1>2, <2>1, <2>2, <2>3, ArgumentPieces
<1> QED BY <1>1, <1>2

\* A field of a form.
LEMMA FormRoom == ASSUME NEW s \in Seq(Code) PROVE FormEncode(s) \in Seq(Int)
<1> DEFINE escaped(c) == FlattenSeq([i \in 1..Len(Utf8(c)) |-> <<B.percent>> \o Places(Utf8(c)[i], 16, 2)])
           char(c) == IF c = B.sp THEN <<B.plus>> ELSE IF Alnum(c) \/ c \in {42, 45, 46, 95} THEN <<c>> ELSE escaped(c)
           ss == [i \in 1..Len(s) |-> char(s[i])]
<1>1. FormEncode(s) = FlattenSeq(ss)
  BY Zenon DEF FormEncode, Each
<1>2. ASSUME NEW c \in Code PROVE char(c) \in Seq(Int)
  <2>1. escaped(c) \in Seq(Int)
    <3> DEFINE u == Utf8(c)
               d == B.percent
               e == FlattenSeq([i \in 1..Len(u) |-> <<d>> \o Places(u[i], 16, 2)])
    <3>1. u \in Seq(Int) /\ Len(u) >= 1 /\ d \in Int
      BY Utf8Room, BFacts
    <3> HIDE DEF u, d
    <3>2. e \in Seq(Int)
      BY <3>1, EscapedRoom
    <3> QED BY <3>2 DEF u, d
  <2> HIDE DEF escaped
  <2>2. <<c>> \in Seq(Int) /\ <<B.plus>> \in Seq(Int)
    BY CodeFacts, BFacts
  <2> QED BY <2>1, <2>2
<1> HIDE DEF char
<1>3. ss \in [1..Len(s) -> Seq(Int)] /\ Len(s) \in Nat
  BY <1>2
<1> HIDE DEF ss
<1> QED BY <1>1, <1>3, Pieces

\* A character of markup: &#, the digits and a semicolon at most.
LEMMA EntityRoom ==
  ASSUME NEW c \in Code
  PROVE  Entity(c) \in Seq(Int) /\ Len(Entity(c)) <= 6 * Len(Utf8(c))
<1>1. c \in Nat /\ c <= 1114111
  BY CodeFacts, SMT
<1>2. Decimal(c) = Numeral[c] /\ Numeral[c] \in Seq(48..57)
  BY <1>1, NumeralType, SMT DEF Decimal
<1> DEFINE d == Numeral[c]
           n == Len(d)
<1>3. d \in Seq(Int) /\ n \in Nat
  BY <1>2
<1>4. Entity(c) \in Seq(Int) /\ Len(Entity(c)) = n + 3
  <2>1. Entity(c) = <<B.amp, B.hash>> \o d \o <<B.semi>>
    BY <1>2, Zenon DEF Entity
  <2> DEFINE a == <<B.amp, B.hash>>
             z == <<B.semi>>
  <2>2. a \in Seq(Int) /\ Len(a) = 2 /\ z \in Seq(Int) /\ Len(z) = 1
    BY BFacts
  <2> HIDE DEF a, z, d
  <2>3. a \o d \in Seq(Int) /\ Len(a \o d) = Len(a) + n
    BY <1>3, <2>2, Concatenated
  <2>4. (a \o d) \o z \in Seq(Int) /\ Len((a \o d) \o z) = Len(a \o d) + Len(z)
    BY <2>2, <2>3, Concatenated
  <2>5. Entity(c) = (a \o d) \o z
    BY <2>1 DEF a, z
  <2> QED BY <1>3, <2>2, <2>3, <2>4, <2>5
<1>5. n <= 9 /\ (c < 128 => n <= 3)
  <2>1. AtMost(c, 9)
    <3>1. AtMost(999999999, 9)
      BY NumeralRoom, SMT
    <3> QED BY <1>1, <3>1, AtMostLess, SMT
  <2>2. c < 128 => AtMost(c, 3)
    <3>1. AtMost(999, 3)
      BY NumeralRoom, SMT
    <3> QED BY <1>1, <3>1, AtMostLess, SMT
  <2>3. c \in 0..c
    BY <1>1, SMT
  <2> QED BY <2>1, <2>2, <2>3, Zenon DEF AtMost
<1> HIDE DEF n
<1> DEFINE w == Len(Utf8(c))
<1>6. w \in Nat /\ w >= 1 /\ (c >= 128 => w >= 2)
  <2>1. Utf8(c) \in Seq(Int) /\ w >= 1 /\ (c >= 128 => w >= 2)
    BY Utf8Room, SMT
  <2>2. w \in Nat
    BY <2>1, SMT
  <2> QED BY <2>1, <2>2, Zenon
<1> HIDE DEF w
<1>7. n + 3 <= 6 * w
  BY <1>1, <1>3, <1>5, <1>6, SMT
<1> QED BY <1>4, <1>7, Zenon DEF w

LEMMA HtmlifyCharRoom ==
  ASSUME NEW c \in Code, NEW raw \in BOOLEAN
  PROVE  HtmlifyChar(c, raw) \in Seq(Int) /\ Len(HtmlifyChar(c, raw)) <= 6 * Len(Utf8(c))
<1>1. Utf8(c) \in Seq(Int) /\ Len(Utf8(c)) >= 1 /\ Len(Utf8(c)) \in Nat
  <2>1. Utf8(c) \in Seq(Int) /\ Len(Utf8(c)) >= 1
    BY Utf8Room
  <2> QED BY <2>1
<1>2. HtmlifyChar(c, raw) \in {AmpLt, AmpAmp, Utf8(c), Entity(c)}
  <2>1. B.lt # B.amp
    BY DEF B
  <2>2. CASE c = B.lt
    BY <2>1, <2>2 DEF HtmlifyChar
  <2>3. CASE c = B.amp
    BY <2>1, <2>3 DEF HtmlifyChar
  <2>4. CASE c # B.lt /\ c # B.amp
    BY <2>4 DEF HtmlifyChar
  <2> QED BY <2>2, <2>3, <2>4
<1>3. AmpLt \in Seq(Int) /\ Len(AmpLt) = 4
  BY DEF AmpLt
<1>4. AmpAmp \in Seq(Int) /\ Len(AmpAmp) = 5
  BY DEF AmpAmp
<1>5. Entity(c) \in Seq(Int) /\ Len(Entity(c)) <= 6 * Len(Utf8(c))
  BY EntityRoom
<1>6. CASE HtmlifyChar(c, raw) = Entity(c)
  BY <1>5, <1>6, Zenon
<1>7. ASSUME NEW t \in {AmpLt, AmpAmp, Utf8(c)} PROVE t \in Seq(Int) /\ Len(t) <= 6 * Len(Utf8(c))
  <2> DEFINE w == Len(Utf8(c))
  <2>1. w \in Nat /\ w >= 1
    BY <1>1
  <2> HIDE DEF w
  <2>2. 4 <= 6 * w /\ 5 <= 6 * w /\ w <= 6 * w
    BY <2>1
  <2>3. 4 <= 6 * Len(Utf8(c)) /\ 5 <= 6 * Len(Utf8(c)) /\ Len(Utf8(c)) <= 6 * Len(Utf8(c))
    BY <2>2 DEF w
  <2> QED BY <1>1, <1>3, <1>4, <2>3, Zenon
<1>8. CASE HtmlifyChar(c, raw) \in {AmpLt, AmpAmp, Utf8(c)}
  BY <1>7, <1>8
<1> QED BY <1>2, <1>6, <1>8

LEMMA HtmlifyRoom ==
  ASSUME NEW s \in Seq(Code), NEW raw \in BOOLEAN
  PROVE  Htmlify(s, raw) \in Seq(Int) /\ Len(Htmlify(s, raw)) <= 6 * Len(Bytes(s))
<1> DEFINE ss == [i \in 1..Len(s) |-> HtmlifyChar(s[i], raw)]
<1>1. ss \in [1..Len(s) -> Seq(Int)] /\ \A i \in 1..Len(s) : ss[i] = HtmlifyChar(s[i], raw)
  BY HtmlifyCharRoom
<1>2. Htmlify(s, raw) = FlattenSeq(ss)
  BY Zenon DEF Htmlify, Each
<1> HIDE DEF ss
<1>3. 6 \in Nat /\ \A i \in 1..Len(s) : Len(ss[i]) <= 6 * Len(Utf8(s[i]))
  BY <1>1, HtmlifyCharRoom
<1> QED BY <1>1, <1>2, <1>3, CharacterPieces

\* Multiples of a length that is not zero.
LEMMA Fits == ASSUME NEW c \in Code, NEW k \in Nat, NEW n \in Nat, n <= k PROVE n <= k * Len(Utf8(c))
<1> DEFINE w == Len(Utf8(c))
<1>1. w \in Nat /\ w >= 1
  <2>1. Utf8(c) \in Seq(Int) /\ w >= 1
    BY Utf8Room, SMT
  <2> QED BY <2>1
<1> HIDE DEF w
<1>2. k * w >= k
  <2>1. k * w = k + k * (w - 1)
    BY <1>1
  <2>2. k * (w - 1) \in Nat
    BY <1>1
  <2> QED BY <2>1, <2>2
<1>3. k * w \in Int
  BY <1>1
<1>4. n <= k * w
  BY <1>2, <1>3
<1> QED BY <1>4 DEF w

\* A text between two marks.
LEMMA Quoted ==
  ASSUME NEW p \in Seq(Int), NEW t \in Seq(Int), NEW z \in Seq(Int)
  PROVE  p \o t \o z \in Seq(Int) /\ Len(p \o t \o z) = Len(p) + Len(t) + Len(z)
<1>1. p \o t \in Seq(Int) /\ Len(p \o t) = Len(p) + Len(t)
  BY Concatenated
<1>2. (p \o t) \o z \in Seq(Int) /\ Len((p \o t) \o z) = Len(p \o t) + Len(z)
  BY <1>1, Concatenated
<1> QED BY <1>1, <1>2

LEMMA JsifyCharRoom ==
  ASSUME NEW c \in Code
  PROVE  JsifyChar(c) \in Seq(Int) /\ Len(JsifyChar(c)) <= 10 * Len(Utf8(c))
<1>0. c \in Int
  BY CodeFacts
<1>1. ASSUME NEW t \in Seq(Int), Len(t) <= 10 PROVE t \in Seq(Int) /\ Len(t) <= 10 * Len(Utf8(c))
  BY <1>1, Fits, Len(t) \in Nat, 10 \in Nat
<1>B. B.quot \notin {B.apos, B.lt, B.amp} /\ B.back \notin {B.apos, B.lt, B.amp}
  BY DEF B
<1>2. CASE c \in {B.quot, B.back}
  <2>1. JsifyChar(c) = <<B.back, c>>
    BY <1>2, <1>B, SMT DEF JsifyChar
  <2>2. <<B.back, c>> \in Seq(Int) /\ Len(<<B.back, c>>) <= 10
    BY <1>0, BFacts
  <2> QED BY <1>1, <2>1, <2>2, Zenon
<1>3. CASE c \in {B.apos, B.lt, B.amp}
  <2> DEFINE p == <<B.back>>
             q == Places(c, 8, 3)
  <2>1. JsifyChar(c) = p \o q
    BY <1>3, <1>B, SMT DEF JsifyChar
  <2>2. p \in Seq(Int) /\ Len(p) = 1
    BY BFacts
  <2>3. q \in Seq(Int) /\ Len(q) = 3
    BY <1>0, PlacesRoom, 8 \in {8, 16}, 3 \in Nat
  <2> HIDE DEF p, q
  <2>4. p \o q \in Seq(Int) /\ Len(p \o q) = Len(p) + Len(q)
    BY <2>2, <2>3, Concatenated, Zenon
  <2>5. Len(p \o q) <= 10
    BY <2>2, <2>3, <2>4
  <2> QED BY <1>1, <2>1, <2>4, <2>5, Zenon
<1>4. CASE c \notin {B.quot, B.back} /\ c \notin {B.apos, B.lt, B.amp}
  <2>1. JsifyChar(c) = IF IsPrint(c) THEN Utf8(c)
                       ELSE IF c < 65536 THEN <<B.back, B.u>> \o Places(c, 16, 4)
                       ELSE <<B.back, B.u, B.open>> \o Places(c, 16, 6) \o <<B.close>>
    BY <1>4, SMT DEF JsifyChar
  <2> DEFINE small == c < 65536
             p == <<B.back, B.u>>
             q == Places(c, 16, 4)
             r == <<B.back, B.u, B.open>>
             t == Places(c, 16, 6)
             z == <<B.close>>
  <2>2. p \in Seq(Int) /\ Len(p) = 2 /\ r \in Seq(Int) /\ Len(r) = 3 /\ z \in Seq(Int) /\ Len(z) = 1
    BY BFacts
  <2>3. q \in Seq(Int) /\ Len(q) = 4 /\ t \in Seq(Int) /\ Len(t) = 6
    BY <1>0, PlacesRoom, 16 \in {8, 16}, 4 \in Nat, 6 \in Nat
  <2>4. JsifyChar(c) = IF IsPrint(c) THEN Utf8(c) ELSE IF small THEN p \o q ELSE (r \o t) \o z
    BY <2>1, SMT
  <2> HIDE DEF small, p, q, r, t, z
  <2>5. p \o q \in Seq(Int) /\ Len(p \o q) <= 10
    <3>1. p \o q \in Seq(Int) /\ Len(p \o q) = Len(p) + Len(q)
      BY <2>2, <2>3, Concatenated, Zenon
    <3> QED BY <2>2, <2>3, <3>1
  <2>7. (r \o t) \o z \in Seq(Int) /\ Len((r \o t) \o z) <= 10
    <3>1. (r \o t) \o z \in Seq(Int) /\ Len((r \o t) \o z) = Len(r) + Len(t) + Len(z)
      <4>1. r \in Seq(Int) /\ t \in Seq(Int) /\ z \in Seq(Int)
        BY <2>2, <2>3
      <4> QED BY <4>1, Quoted, Zenon
    <3> QED BY <2>2, <2>3, <3>1
  <2>8. Utf8(c) \in Seq(Int) /\ Len(Utf8(c)) <= 10
    <3>1. Utf8(c) \in Seq(Int) /\ Len(Utf8(c)) <= 4
      BY Utf8Room, SMT
    <3> QED BY <3>1
  <2>9. \A x \in {Utf8(c), p \o q, (r \o t) \o z} : x \in Seq(Int) /\ Len(x) <= 10
    BY <2>5, <2>7, <2>8, Zenon
  <2>10. JsifyChar(c) \in {Utf8(c), p \o q, (r \o t) \o z}
    BY <2>4, Zenon
  <2> QED BY <1>1, <2>9, <2>10, Zenon
<1> QED BY <1>2, <1>3, <1>4

LEMMA JsifyRoom ==
  ASSUME NEW s \in Seq(Code)
  PROVE  Jsify(s) \in Seq(Int) /\ Len(Jsify(s)) <= 10 * Len(Bytes(s)) + 2
<1> DEFINE ss == [i \in 1..Len(s) |-> JsifyChar(s[i])]
           e  == FlattenSeq(ss)
           m  == <<B.quot>>
<1>1. ss \in [1..Len(s) -> Seq(Int)] /\ \A i \in 1..Len(s) : ss[i] = JsifyChar(s[i])
  BY JsifyCharRoom
<1>2. Jsify(s) = m \o e \o m
  BY Zenon DEF Jsify, Each
<1>3. m \in Seq(Int) /\ Len(m) = 1
  BY BFacts
<1> HIDE DEF ss, m
<1>4. 10 \in Nat /\ \A i \in 1..Len(s) : Len(ss[i]) <= 10 * Len(Utf8(s[i]))
  BY <1>1, JsifyCharRoom
<1>5. e \in Seq(Int) /\ Len(e) <= 10 * Len(Bytes(s))
  BY <1>1, <1>4, CharacterPieces
<1> HIDE DEF e
<1>6. m \o e \o m \in Seq(Int) /\ Len(m \o e \o m) = Len(m) + Len(e) + Len(m)
  BY <1>3, <1>5, Quoted
<1>7. Len(Bytes(s)) \in Nat /\ Len(e) \in Nat
  BY <1>5, BytesType
<1>8. Len(m \o e \o m) <= 10 * Len(Bytes(s)) + 2
  BY <1>3, <1>5, <1>6, <1>7
<1> QED BY <1>2, <1>6, <1>8

\* An attribute: as no URL begins with a quote, it takes less than six bytes for each.
LEMMA AttrifyRoom ==
  ASSUME NEW t, Starts(t)
  PROVE  Attrify(t) \in Seq(Int) /\ Len(Attrify(t)) <= 6 * Len(t) - 1
<1> DEFINE ss == [i \in 1..Len(t) |-> AttrifyByte(t[i])]
<1>1. t \in Seq(Int) /\ Len(t) \in Nat /\ Len(t) >= 1 /\ t[1] # 34
  BY DEF Starts
<1>2. ASSUME NEW b \in Int
      PROVE  AttrifyByte(b) \in Seq(Int) /\ Len(AttrifyByte(b)) <= 6 /\ (b # 34 => Len(AttrifyByte(b)) <= 5)
  <2>1. AmpQuot \in Seq(Int) /\ Len(AmpQuot) = 6 /\ AmpAmp \in Seq(Int) /\ Len(AmpAmp) = 5
    BY DEF AmpQuot, AmpAmp
  <2>2. CASE b = 34
    <3>1. AttrifyByte(b) = AmpQuot
      BY <2>2, BFacts DEF AttrifyByte
    <3>2. Len(AmpQuot) <= 6
      BY <2>1
    <3> QED BY <2>1, <2>2, <3>1, <3>2, Zenon
  <2>3. CASE b # 34 /\ b = B.amp
    <3>1. AttrifyByte(b) = AmpAmp
      BY <2>3, BFacts DEF AttrifyByte
    <3>2. Len(AmpAmp) <= 5 /\ Len(AmpAmp) <= 6
      BY <2>1
    <3> QED BY <2>1, <3>1, <3>2, Zenon
  <2>4. CASE b # 34 /\ b # B.amp
    <3>1. AttrifyByte(b) = <<b>>
      BY <2>4, BFacts DEF AttrifyByte
    <3>2. <<b>> \in Seq(Int) /\ Len(<<b>>) = 1
      OBVIOUS
    <3> QED BY <3>1, <3>2
  <2> QED BY <2>2, <2>3, <2>4
<1>3. ss \in [1..Len(t) -> Seq(Int)] /\ \A i \in 1..Len(t) : ss[i] = AttrifyByte(t[i]) /\ t[i] \in Int
  <2>1. \A i \in 1..Len(t) : t[i] \in Int
    BY <1>1
  <2> QED BY <1>2, <2>1
<1>4. Attrify(t) = FlattenSeq(ss)
  BY Zenon DEF Attrify, Each
<1> HIDE DEF ss
<1>5. ss \in Seq(Seq(Int)) /\ Len(ss) = Len(t) /\ FlattenSeq(ss) \in Seq(Int)
  BY <1>1, <1>3, Pieces
<1>6. \A i \in 1..Len(ss) : Len(ss[i]) <= 6
  BY <1>2, <1>3, <1>5, Zenon
<1>7. Len(ss) >= 1 /\ Len(ss[1]) <= 6 - 1
  <2>1. 1 \in 1..Len(t)
    BY <1>1
  <2>2. ss[1] = AttrifyByte(t[1]) /\ t[1] \in Int
    BY <1>3, <2>1
  <2>3. Len(ss[1]) <= 5
    BY <1>1, <1>2, <2>2, Zenon
  <2>4. ss[1] \in Seq(Int)
    BY <1>3, <2>1
  <2> QED BY <1>1, <1>5, <2>3, <2>4
<1>8. Len(FlattenSeq(ss)) <= 6 * Len(ss) - 1
  BY <1>5, <1>6, <1>7, Long, 6 \in Nat, 1 \in Nat
<1> QED BY <1>4, <1>5, <1>8

LEMMA OctalRoom ==
  ASSUME NEW b \in Int, NEW p \in Seq(Int)
  PROVE  p \o Octal(b) \in Seq(Int) /\ Len(p \o Octal(b)) = Len(p) + 3
<1> DEFINE q == Octal(b)
<1>1. q \in Seq(Int) /\ Len(q) = 3
  BY PlacesRoom, 8 \in {8, 16}, 3 \in Nat DEF Octal
<1> HIDE DEF q
<1>2. p \o q \in Seq(Int) /\ Len(p \o q) = Len(p) + Len(q)
  BY <1>1, Concatenated, Zenon
<1> QED BY <1>1, <1>2 DEF q

\* A literal: two bytes for each that libc can print.
LEMMA SqlByteRoom ==
  ASSUME NEW b \in Int, NEW estrings \in BOOLEAN
  PROVE  /\ SqlByte(b, estrings) \in Seq(Int)
         /\ Len(SqlByte(b, estrings)) <= 4
         /\ PrintByte(b) \/ ~estrings => Len(SqlByte(b, estrings)) <= 2
<1> DEFINE t == SqlByte(b, estrings)
<1>1. ASSUME NEW x \in Seq(Int), t = x, Len(x) <= 2 PROVE t \in Seq(Int) /\ Len(t) <= 4 /\ Len(t) <= 2
  <2>1. Len(x) <= 4
    BY <1>1
  <2> QED BY <1>1, <2>1, Zenon
<1>2. \A x, y \in Int : <<x, y>> \in Seq(Int) /\ Len(<<x, y>>) <= 2 /\ <<x>> \in Seq(Int) /\ Len(<<x>>) <= 2
  OBVIOUS
<1>3. B.back \in Int /\ B.apos \in Int /\ B.apos # B.back
  BY DEF B
<1>4. CASE b = B.apos
  <2>1. t = <<IF estrings THEN B.back ELSE b, b>>
    BY <1>4, <1>3 DEF SqlByte
  <2>2. (IF estrings THEN B.back ELSE b) \in Int
    BY <1>3
  <2> QED BY <1>1, <1>2, <2>1, <2>2, Zenon
<1>5. CASE b = B.back
  <2>1. t = <<b, b>> \/ t = <<b>>
    BY <1>5, <1>3 DEF SqlByte
  <2> QED BY <1>1, <1>2, <2>1, Zenon
<1>6. CASE b # B.apos /\ b # B.back /\ (PrintByte(b) \/ ~estrings)
  <2>1. t = <<b>>
    BY <1>6 DEF SqlByte
  <2> QED BY <1>1, <1>2, <2>1, Zenon
<1>7. CASE b # B.apos /\ b # B.back /\ ~PrintByte(b) /\ estrings
  <2> DEFINE p == <<B.back>>
  <2>1. t = p \o Octal(b)
    BY <1>7 DEF SqlByte
  <2>2. p \in Seq(Int) /\ Len(p) = 1
    BY <1>3
  <2> HIDE DEF p
  <2>3. p \o Octal(b) \in Seq(Int) /\ Len(p \o Octal(b)) = Len(p) + 3
    BY <2>2, OctalRoom, Zenon
  <2>4. Len(p \o Octal(b)) <= 4
    BY <2>2, <2>3
  <2> QED BY <1>7, <2>1, <2>3, <2>4, Zenon
<1> QED BY <1>4, <1>5, <1>6, <1>7

LEMMA SqlifyRoom ==
  ASSUME NEW t \in Seq(Int), NEW estrings \in BOOLEAN
  PROVE  /\ Sqlify(t, estrings) \in Seq(Int)
         /\ (\A i \in 1..Len(t) : PrintByte(t[i])) \/ ~estrings =>
              Len(Sqlify(t, estrings)) <= 2 * Len(t) + 2 + (IF estrings THEN 1 ELSE 0)
<1> DEFINE ss == [i \in 1..Len(t) |-> SqlByte(t[i], estrings)]
           e  == FlattenSeq(ss)
           p  == IF estrings THEN <<B.E>> ELSE <<>>
           m  == <<B.apos>>
           n  == IF estrings THEN 1 ELSE 0
<1>1. ss \in [1..Len(t) -> Seq(Int)] /\ Len(t) \in Nat
      /\ \A i \in 1..Len(t) : ss[i] = SqlByte(t[i], estrings) /\ t[i] \in Int
  <2>1. \A i \in 1..Len(t) : t[i] \in Int
    OBVIOUS
  <2> QED BY <2>1, SqlByteRoom
<1>2. Sqlify(t, estrings) = p \o m \o e \o m
  BY Zenon DEF Sqlify, Each
<1>3. m \in Seq(Int) /\ Len(m) = 1
  BY BFacts
<1>4. p \in Seq(Int) /\ Len(p) = n /\ n \in Nat
  BY BFacts
<1> HIDE DEF ss, m, p, n
<1>5. e \in Seq(Int) /\ Len(e) \in Nat
  <2>1. e \in Seq(Int)
    BY <1>1, Pieces
  <2> HIDE DEF e
  <2> QED BY <2>1
<1>6. ASSUME (\A i \in 1..Len(t) : PrintByte(t[i])) \/ ~estrings PROVE Len(e) <= 2 * Len(t)
  <2>1. \A i \in 1..Len(t) : Len(ss[i]) <= 2
    BY <1>1, <1>6, SqlByteRoom, Zenon
  <2> QED BY <1>1, <2>1, BytePieces, 2 \in Nat
<1> HIDE DEF e
<1>7. p \o m \in Seq(Int) /\ Len(p \o m) = Len(p) + Len(m)
  BY <1>3, <1>4, Concatenated, Zenon
<1>8. (p \o m) \o e \o m \in Seq(Int) /\ Len((p \o m) \o e \o m) = Len(p \o m) + Len(e) + Len(m)
  BY <1>3, <1>5, <1>7, Quoted, Zenon
<1>9. Len(Sqlify(t, estrings)) = n + 2 + Len(e)
  BY <1>2, <1>3, <1>4, <1>5, <1>7, <1>8
<1>10. Sqlify(t, estrings) \in Seq(Int)
  BY <1>2, <1>8, Zenon
<1>11. Len(e) <= 2 * Len(t) => Len(Sqlify(t, estrings)) <= 2 * Len(t) + 2 + n
  BY <1>1, <1>4, <1>5, <1>9
<1> QED BY <1>6, <1>10, <1>11 DEF n

LEMMA SqlifyBlobRoom ==
  ASSUME NEW t \in Seq(Int)
  PROVE  SqlifyBlob(t) \in Seq(Int) /\ Len(SqlifyBlob(t)) <= 5 * Len(t) + 3
<1> DEFINE ss == [i \in 1..Len(t) |-> BlobByte(t[i])]
           e  == FlattenSeq(ss)
           p  == <<B.E, B.apos>>
           m  == <<B.apos>>
<1>1. ASSUME NEW b \in Int PROVE BlobByte(b) \in Seq(Int) /\ Len(BlobByte(b)) <= 5
  <2>1. B.back \in Int /\ B.apos # B.back
    BY DEF B
  <2>2. CASE b = B.apos
    <3>1. BlobByte(b) = <<B.back, b>>
      BY <2>1, <2>2 DEF BlobByte
    <3>2. <<B.back, b>> \in Seq(Int) /\ Len(<<B.back, b>>) <= 5
      BY <2>1
    <3> QED BY <3>1, <3>2, Zenon
  <2>3. CASE b = B.back
    <3>1. BlobByte(b) = <<b, b, b, b>>
      BY <2>1, <2>3 DEF BlobByte
    <3>2. <<b, b, b, b>> \in Seq(Int) /\ Len(<<b, b, b, b>>) <= 5
      OBVIOUS
    <3> QED BY <3>1, <3>2, Zenon
  <2>4. CASE b # B.apos /\ b # B.back /\ PrintByte(b)
    <3>1. BlobByte(b) = <<b>>
      BY <2>4 DEF BlobByte
    <3>2. <<b>> \in Seq(Int) /\ Len(<<b>>) <= 5
      OBVIOUS
    <3> QED BY <3>1, <3>2, Zenon
  <2>5. CASE b # B.apos /\ b # B.back /\ ~PrintByte(b)
    <3> DEFINE q == <<B.back, B.back>>
    <3>1. BlobByte(b) = q \o Octal(b)
      BY <2>5 DEF BlobByte
    <3>2. q \in Seq(Int) /\ Len(q) = 2
      BY <2>1
    <3> HIDE DEF q
    <3>3. q \o Octal(b) \in Seq(Int) /\ Len(q \o Octal(b)) = Len(q) + 3
      BY <3>2, OctalRoom, Zenon
    <3>4. Len(q \o Octal(b)) <= 5
      BY <3>2, <3>3
    <3> QED BY <3>1, <3>3, <3>4, Zenon
  <2> QED BY <2>2, <2>3, <2>4, <2>5
<1>2. ss \in [1..Len(t) -> Seq(Int)] /\ Len(t) \in Nat /\ \A i \in 1..Len(t) : Len(ss[i]) <= 5
  <2>1. \A i \in 1..Len(t) : t[i] \in Int
    OBVIOUS
  <2>2. \A i \in 1..Len(t) : BlobByte(t[i]) \in Seq(Int) /\ Len(BlobByte(t[i])) <= 5
    BY <1>1, <2>1, Zenon
  <2>3. \A i \in 1..Len(t) : ss[i] = BlobByte(t[i])
    OBVIOUS
  <2>4. ss \in [1..Len(t) -> Seq(Int)] /\ Len(t) \in Nat
    BY <2>2
  <2> QED BY <2>2, <2>3, <2>4, Zenon
<1>3. SqlifyBlob(t) = p \o e \o m
  BY Zenon DEF SqlifyBlob, Each
<1>4. p \in Seq(Int) /\ Len(p) = 2 /\ m \in Seq(Int) /\ Len(m) = 1
  BY BFacts
<1> HIDE DEF ss, p, m
<1>5. e \in Seq(Int) /\ Len(e) <= 5 * Len(t)
  BY <1>2, BytePieces, 5 \in Nat
<1> HIDE DEF e
<1>6. p \o e \o m \in Seq(Int) /\ Len(p \o e \o m) = Len(p) + Len(e) + Len(m)
  BY <1>4, <1>5, Quoted, Zenon
<1>7. Len(p \o e \o m) <= 5 * Len(t) + 3
  <2>1. Len(e) \in Nat
    BY <1>5
  <2> QED BY <1>2, <1>4, <1>5, <1>6, <2>1
<1> QED BY <1>3, <1>6, <1>7, Zenon

LEMMA OneCharacter ==
  ASSUME NEW c \in Code
  PROVE  Len(Bytes(<<c>>)) \in Nat /\ Len(Bytes(<<c>>)) <= 4 /\ (c < 65536 => Len(Bytes(<<c>>)) <= 3)
<1> DEFINE s  == <<c>>
           ss == [i \in 1..Len(s) |-> Utf8(s[i])]
           small == c < 65536
<1>1. s \in Seq(Code) /\ Len(s) = 1 /\ s[1] = c
  OBVIOUS
<1>2. Bytes(s) = FlattenSeq(ss)
  BY Zenon DEF Bytes
<1>3. Utf8(c) \in Seq(Int) /\ Len(Utf8(c)) <= 4 /\ (small => Len(Utf8(c)) <= 3)
  BY Utf8Room, SMT
<1> HIDE DEF s, small
<1>4. ss \in [1..1 -> Seq(Int)] /\ ss[1] = Utf8(c)
  BY <1>1, <1>3
<1> HIDE DEF ss
<1>5. ss \in Seq(Seq(Int)) /\ Len(ss) = 1
  BY <1>4, Pieces, 1 \in Nat
<1>6. ASSUME NEW k \in Nat, Len(Utf8(c)) <= k PROVE Len(FlattenSeq(ss)) <= k
  <2>1. \A i \in 1..Len(ss) : Len(ss[i]) <= k
    <3> SUFFICES ASSUME NEW i \in 1..Len(ss) PROVE Len(ss[i]) <= k
      OBVIOUS
    <3>1. i = 1
      BY <1>5
    <3> QED BY <1>4, <1>6, <3>1, Zenon
  <2>2. Len(FlattenSeq(ss)) <= k * Len(ss)
    BY <1>5, <2>1, Long
  <2> QED BY <1>5, <2>2
<1>7. Len(Bytes(s)) \in Nat
  BY <1>1, BytesType
<1>8. Len(Bytes(s)) <= 4 /\ (small => Len(Bytes(s)) <= 3)
  BY <1>2, <1>3, <1>6, 3 \in Nat, 4 \in Nat
<1> QED BY <1>7, <1>8 DEF s, small

-----------------------------------------------------------------------------
(* The invariant.                                                           *)

Sent == Arguments \cup V("blob", Blobs)

\* A URL begins with its first argument; a handler starts with none.
RoomInv ==
  /\ sent \in Seq(Sent) /\ spare \in Int
  /\ place = "handler" => sent = <<>> /\ spare = 0
  /\ place = "url" => Starts(text)
  /\ RoomEnough

LEMMA StringFacts == ASSUME NEW s \in Strings PROVE s \in Seq(Code) /\ String(s) \in Arguments
<1>1. s \in Seq(1..LastCode) /\ 1..LastCode \subseteq Code
  BY ValuesAssumption DEF Code
<1>2. s \in Seq(Code)
  BY <1>1, Widened, Zenon
<1> QED BY <1>2 DEF String, Arguments, V

\* The values an argument may have.
LEMMA ArgumentCases ==
  ASSUME NEW v \in Arguments
  PROVE  \/ v.type = "string" /\ v.is \in Strings /\ v = String(v.is)
         \/ v.type = "char" /\ v.is \in Chars
         \/ v.type = "int" /\ v.is \in Ints
         \/ v.type = "time" /\ v.is \in Times
         \/ v.type = "bool" /\ v.is \in BOOLEAN
BY DEF Arguments, V, String

\* The arguments whose room is one byte short, and what is proved of all.
Short(v) == v = String(<<>>) \/ (v.type = "char" /\ (v.is = 0 \/ v.is > 65535))
Roomy(v, t, r) == Starts(t) /\ r \in Int /\ (Len(t) < r \/ (Len(t) = r /\ Short(v)))

\* The room of a string.
LEMMA StringArgumentRoom ==
  ASSUME NEW s \in Strings
  PROVE  Roomy(String(s), Urlify(s), IF s = <<>> THEN 1 ELSE 12 * Len(Bytes(s)) + Len(Marked(s)))
<1> DEFINE t == Urlify(s)
           m == Len(Marked(s))
           n == Len(Bytes(s))
           short == Short(String(s))
<1>1. s \in Seq(Code)
  BY StringFacts
<1>2. Starts(t) /\ n \in Nat
  BY <1>1, BytesType, UrlifyRoom
<1>3. Len(t) \in Nat /\ Len(t) >= 1
  BY <1>2 DEF Starts
<1>4. CASE s = <<>>
  <2>1. Len(t) = 1
    BY <1>1, <1>4, UrlifyRoom
  <2>2. short
    BY <1>4 DEF Short
  <2> HIDE DEF t, short
  <2>3. Starts(t) /\ 1 \in Int /\ (Len(t) < 1 \/ (Len(t) = 1 /\ short))
    BY <1>2, <2>1, <2>2
  <2> QED BY <1>4, <2>3, Zenon DEF Roomy, t, short
<1>5. CASE s # <<>>
  <2>1. m \in Nat /\ Len(t) <= m + 3 * n /\ n >= 1
    BY <1>1, <1>5, UrlifyRoom, SomeBytes
  <2> HIDE DEF t, m, n, short
  <2>2. Starts(t) /\ 12 * n + m \in Int /\ (Len(t) < 12 * n + m \/ (Len(t) = 12 * n + m /\ short))
    BY <1>2, <1>3, <2>1
  <2> QED BY <1>5, <2>2, Zenon DEF Roomy, t, m, n, short
<1> QED BY <1>4, <1>5

\* That of a character.
LEMMA CharArgumentRoom ==
  ASSUME NEW c \in Chars, NEW v, v.type = "char", v.is = c
  PROVE  Roomy(v, Urlify(IF c = 0 THEN <<>> ELSE <<c>>), IF c = 0 THEN 1 ELSE 12 + Len(Marked(<<c>>)))
<1> DEFINE short == Short(v)
           large == c > 65535
<1>1. c \in Code /\ <<>> \in Seq(Code) /\ <<c>> \in Seq(Code) /\ <<c>> # <<>>
  BY ValuesAssumption
<1>2. CASE c = 0
  <2> DEFINE t == Urlify(<<>>)
  <2>1. Starts(t) /\ Len(t) = 1
    BY <1>1, UrlifyRoom
  <2>2. short
    BY <1>2 DEF Short
  <2> HIDE DEF t, short
  <2>3. Starts(t) /\ 1 \in Int /\ (Len(t) < 1 \/ (Len(t) = 1 /\ short))
    BY <2>1, <2>2
  <2> QED BY <1>2, <2>3, Zenon DEF Roomy, t, short
<1>3. CASE c # 0
  <2> DEFINE s == <<c>>
             t == Urlify(s)
             m == Len(Marked(s))
             n == Len(Bytes(s))
  <2>0. s \in Seq(Code) /\ s # <<>>
    BY <1>1, Zenon
  <2> HIDE DEF s
  <2>1. Starts(t) /\ m \in Nat /\ Len(t) <= m + 3 * n
    BY <2>0, UrlifyRoom
  <2>2. n \in Nat /\ n <= 4 /\ (c < 65536 => n <= 3)
    BY <1>1, OneCharacter, SMT DEF s
  <2>3. Len(t) \in Nat
    BY <2>1 DEF Starts
  <2>4. c \in Int
    BY <1>1, CodeFacts, SMT
  <2>5. large => short
    BY SMT DEF Short
  <2> HIDE DEF s, t, m, n, short
  <2>6. Starts(t) /\ 12 + m \in Int /\ (Len(t) < 12 + m \/ (Len(t) = 12 + m /\ short))
    BY <2>1, <2>2, <2>3, <2>4, <2>5, SMT
  <2> QED BY <1>3, <2>6, Zenon DEF Roomy, s, t, m, n, short
<1> QED BY <1>2, <1>3

\* That of an integer.
LEMMA WordArgumentRoom ==
  ASSUME NEW v, NEW n, Word(n)
  PROVE  Roomy(v, Decimal(n), 50)
<1> DEFINE t == Decimal(n)
<1>1. t \in Seq(Int) /\ Len(t) >= 1 /\ Len(t) <= 20 /\ t[1] # 34
  BY DecimalRoom, Zenon
<1> HIDE DEF t
<1>2. Roomy(v, t, 50)
  BY <1>1 DEF Starts, Roomy
<1> QED BY <1>2 DEF t

\* The room of an argument: it is one short where RoomEnough says so.
LEMMA ArgumentRoom == ASSUME NEW v \in Arguments PROVE Roomy(v, Urlified(v), Room(v))
<1>1. CASE v.type = "string" /\ v.is \in Strings /\ v = String(v.is)
  <2> DEFINE s == v.is
             t == Urlify(s)
             r == IF s = <<>> THEN 1 ELSE 12 * Len(Bytes(s)) + Len(Marked(s))
  <2>1. Urlified(v) = t
    BY <1>1, Zenon DEF Urlified
  <2>2. Room(v) = r
    BY <1>1, Zenon DEF Room
  <2>3. Roomy(v, t, r)
    BY <1>1, StringArgumentRoom, Zenon
  <2> HIDE DEF s, t, r
  <2> QED BY <2>1, <2>2, <2>3, Zenon
<1>2. CASE v.type = "char" /\ v.is \in Chars
  <2> DEFINE c == v.is
             t == Urlify(IF c = 0 THEN <<>> ELSE <<c>>)
             r == IF c = 0 THEN 1 ELSE 12 + Len(Marked(<<c>>))
  <2>1. Urlified(v) = t
    BY <1>2, Zenon DEF Urlified
  <2>2. Room(v) = r
    BY <1>2, Zenon DEF Room
  <2>3. Roomy(v, t, r)
    BY <1>2, CharArgumentRoom, Zenon
  <2> HIDE DEF c, t, r
  <2> QED BY <2>1, <2>2, <2>3, Zenon
<1>3. CASE v.type = "int" /\ v.is \in Ints
  <2>1. Urlified(v) = Decimal(v.is) /\ Room(v) = 50
    BY <1>3 DEF Urlified, Room
  <2>2. Word(v.is)
    BY <1>3, ValuesAssumption
  <2>3. Roomy(v, Decimal(v.is), 50)
    BY <2>2, WordArgumentRoom, Zenon
  <2> QED BY <2>1, <2>3, Zenon
<1>4. CASE v.type = "time" /\ v.is \in Times
  <2>1. Urlified(v) = Decimal(Microseconds(v.is)) /\ Room(v) = 50
    BY <1>4 DEF Urlified, Room
  <2>2. Word(Microseconds(v.is))
    BY <1>4, ValuesAssumption
  <2>3. Roomy(v, Decimal(Microseconds(v.is)), 50)
    BY <2>2, WordArgumentRoom, Zenon
  <2> QED BY <2>1, <2>3, Zenon
<1>5. CASE v.type = "bool" /\ v.is \in BOOLEAN
  <2> DEFINE d == IF v.is THEN Digit(1) ELSE Digit(0)
  <2>1. Urlified(v) = <<d>> /\ Room(v) = 2
    BY <1>5 DEF Urlified, Room
  <2>2. d \in {48, 49}
    BY <1>5 DEF Digit
  <2> HIDE DEF d
  <2>3. Roomy(v, <<d>>, 2)
    BY <2>2 DEF Starts, Roomy
  <2> QED BY <2>1, <2>3, Zenon
<1> QED BY ArgumentCases, <1>1, <1>2, <1>3, <1>4, <1>5, Zenon

-----------------------------------------------------------------------------
(* The steps.                                                               *)

LEMMA Spared ==
  ASSUME sent' \in Seq(Sent), spare' \in Int, spare' >= 0, place' \notin {"handler", "url"}
  PROVE  RoomInv'
<1>1. RoomEnough'
  BY SMT DEF RoomEnough
<1> QED BY <1>1 DEF RoomInv

\* A text that has the room it needs.
LEMMA WriteRoom ==
  ASSUME NEW where, where \notin {"handler", "url"}, NEW v \in Sent, NEW t \in Seq(Int),
         NEW reserved \in Int, Len(t) + 1 <= reserved, NEW end, Write(where, v, t, reserved, end)
  PROVE  RoomInv'
<1>1. place' \notin {"handler", "url"} /\ sent' \in Seq(Sent)
  BY DEF Write
<1>2. spare' \in Int /\ spare' >= 0
  BY DEF Write
<1> QED BY <1>1, <1>2, Spared

LEMMA StringSent == ASSUME NEW s \in Strings PROVE String(s) \in Sent /\ s \in Seq(Code) /\ Len(Bytes(s)) \in Nat
BY StringFacts, BytesType DEF Sent

LEMMA ShowRoom == ASSUME NEW s \in Strings, Show(s) PROVE RoomInv'
<1> DEFINE n == Len(Bytes(s))
           plain == Htmlify(s, FALSE)
           raw == Htmlify(s, TRUE)
<1>1. /\ plain \in Seq(Int) /\ Len(plain) <= 6 * n
      /\ raw \in Seq(Int) /\ Len(raw) <= 6 * n
  BY StringSent, HtmlifyRoom
<1>2. String(s) \in Sent /\ n \in Nat
  BY StringSent
<1>3. \/ Write("markup", String(s), plain, 53 * n + 1, <<B.lt>>)
      \/ Write("markup", String(s), raw, 6 * n + 1, <<B.lt>>)
  BY Zenon DEF Show
<1> HIDE DEF n, plain, raw
<1>4. 53 * n + 1 \in Int /\ Len(plain) + 1 <= 53 * n + 1
  BY <1>1, <1>2
<1>5. 6 * n + 1 \in Int /\ Len(raw) + 1 <= 6 * n + 1
  BY <1>1, <1>2
<1>6. "markup" \notin {"handler", "url"}
  OBVIOUS
<1>7. CASE Write("markup", String(s), plain, 53 * n + 1, <<B.lt>>)
  BY <1>1, <1>2, <1>4, <1>6, <1>7, WriteRoom, Zenon
<1>8. CASE Write("markup", String(s), raw, 6 * n + 1, <<B.lt>>)
  BY <1>1, <1>2, <1>5, <1>6, <1>8, WriteRoom, Zenon
<1> QED BY <1>3, <1>7, <1>8

LEMMA ToScriptRoom == ASSUME NEW s \in Strings, ToScript(s) PROVE RoomInv'
<1> DEFINE n == Len(Bytes(s))
           t == Jsify(s)
<1>1. t \in Seq(Int) /\ Len(t) <= 10 * n + 2
  BY StringSent, JsifyRoom
<1>2. String(s) \in Sent /\ n \in Nat
  BY StringSent
<1>3. Write("script", String(s), t, 10 * n + 3, <<>>)
  BY Zenon DEF ToScript
<1> HIDE DEF n, t
<1>4. 10 * n + 3 \in Int /\ Len(t) + 1 <= 10 * n + 3 /\ "script" \notin {"handler", "url"}
  BY <1>1, <1>2
<1> QED BY <1>1, <1>2, <1>3, <1>4, WriteRoom, Zenon

LEMMA FillRoom == ASSUME NEW s \in Strings, Fill(s) PROVE RoomInv'
<1> DEFINE t == FormEncode(s)
<1>1. t \in Seq(Int) /\ String(s) \in Sent
  BY StringSent, FormRoom
<1>2. Write("form", String(s), t, Len(t) + 1, <<>>)
  BY Zenon DEF Fill
<1> HIDE DEF t
<1>3. Len(t) + 1 \in Int /\ Len(t) + 1 <= Len(t) + 1 /\ "form" \notin {"handler", "url"}
  BY <1>1
<1> QED BY <1>1, <1>2, <1>3, WriteRoom, Zenon

LEMMA ReplyRoom == ASSUME NEW s \in Strings, Reply(s) PROVE RoomInv'
<1> DEFINE t == Urlify(s)
           r == Room(String(s))
           k == IF s = <<>> THEN 2 ELSE r + 1
           v == String(s)
           w == IF s = <<>> THEN 1 ELSE 12 * Len(Bytes(s)) + Len(Marked(s))
<1>1. Roomy(v, t, w)
  BY StringArgumentRoom, Zenon
<1>2. r = w
  BY Zenon DEF Room, String
<1>3. t \in Seq(Int) /\ v \in Sent
  BY <1>1, StringSent DEF Roomy, Starts
<1>4. s = <<>> => w = 1
  OBVIOUS
<1>5. Write("reply", v, t, k, <<>>)
  BY Zenon DEF Reply
<1> HIDE DEF t, r, v, w
<1>6. r \in Int /\ Len(t) <= r /\ (s = <<>> => r = 1)
  BY <1>1, <1>2, <1>3, <1>4 DEF Roomy
<1>7. k \in Int /\ Len(t) + 1 <= k /\ "reply" \notin {"handler", "url"}
  BY <1>3, <1>6
<1> HIDE DEF k
<1> QED BY <1>3, <1>5, <1>7, WriteRoom, Zenon

LEMMA QueryRoom == ASSUME NEW s \in Strings, Query(s) PROVE RoomInv'
<1> DEFINE b == Bytes(s)
           reserved(e) == 2 * Len(b) + 3 + IF e THEN 1 ELSE 0
<1>1. PICK estrings \in BOOLEAN : Write("literal", String(s), Sqlify(b, estrings), reserved(estrings), <<>>)
  BY Zenon DEF Query
<1> DEFINE t == Sqlify(b, estrings)
           r == reserved(estrings)
<1>2. b \in Seq(Int) /\ String(s) \in Sent
  BY StringSent, BytesType
<1>3. t \in Seq(Int) /\ r \in Int /\ r = 2 * Len(b) + 3 + IF estrings THEN 1 ELSE 0
  BY <1>2, SqlifyRoom
<1>4. Write("literal", String(s), t, r, <<>>)
  BY <1>1
<1>5. CASE (\A i \in 1..Len(b) : PrintByte(b[i])) \/ ~estrings
  <2>1. Len(t) <= 2 * Len(b) + 2 + (IF estrings THEN 1 ELSE 0)
    BY <1>2, <1>5, SqlifyRoom
  <2> HIDE DEF t, b
  <2>2. Len(t) + 1 <= r /\ "literal" \notin {"handler", "url"}
    BY <1>2, <1>3, <2>1
  <2> HIDE DEF r
  <2> QED BY <1>2, <1>3, <1>4, <2>2, WriteRoom, Zenon
<1>6. CASE \E i \in 1..Len(b) : ~PrintByte(b[i])
  <2> HIDE DEF t, r, reserved
  <2>1. /\ place' = "literal" /\ sent' = <<String(s)>> /\ spare' = r - (Len(t) + 1)
    BY <1>4 DEF Write
  <2>2. sent' \in Seq(Sent) /\ spare' \in Int
    BY <1>2, <1>3, <2>1
  <2>3. sent'[1].is = s
    BY <2>1 DEF String
  <2>4. PICK i \in 1..Len(b) : ~PrintByte(b[i])
    BY <1>6
  <2>5. b[i] \in Range(b)
    BY <1>2, <2>4 DEF Range
  <2>6. \E x \in Range(Bytes(sent'[1].is)) : ~PrintByte(x)
    BY <2>3, <2>4, <2>5, Zenon
  <2>7. RoomEnough'
    BY <2>1, <2>6, SMT DEF RoomEnough
  <2> QED BY <2>1, <2>2, <2>7 DEF RoomInv
<1> QED BY <1>5, <1>6

LEMMA QueryBlobRoom == ASSUME NEW x \in Blobs, QueryBlob(x) PROVE RoomInv'
<1> DEFINE t == SqlifyBlob(x)
           n == Len(x)
           v == [type |-> "blob", is |-> x]
<1>1. x \in Seq(Int) /\ n \in Nat
  <2>1. x \in Seq(0..255)
    BY ValuesAssumption
  <2>2. 0..255 \subseteq Int
    BY SMT
  <2> QED BY <2>1, <2>2, Widened, Zenon
<1>2. t \in Seq(Int) /\ Len(t) <= 5 * n + 3
  BY <1>1, SqlifyBlobRoom
<1>3. v \in Sent
  BY DEF Sent, V
<1>4. Write("blob", v, t, 5 * n + 4, <<>>)
  BY Zenon DEF QueryBlob
<1> HIDE DEF n, t, v
<1>5. 5 * n + 4 \in Int /\ Len(t) + 1 <= 5 * n + 4 /\ "blob" \notin {"handler", "url"}
  BY <1>1, <1>2
<1> QED BY <1>2, <1>3, <1>4, <1>5, WriteRoom, Zenon

\* Behind what a URL has comes a slash and the next argument.
LEMMA StartsLonger ==
  ASSUME NEW t, NEW u, Starts(t), Starts(u), NEW d \in Int
  PROVE  Starts(Append(t, d) \o u) /\ Starts(<<>> \o u)
<1>1. t \in Seq(Int) /\ u \in Seq(Int) /\ Len(t) >= 1 /\ t[1] # 34
  BY DEF Starts
<1>2. Append(t, d) \in Seq(Int) /\ Len(Append(t, d)) = Len(t) + 1 /\ Append(t, d)[1] = t[1]
  BY <1>1
<1> DEFINE p == Append(t, d)
<1> HIDE DEF p
<1>3. p \o u \in Seq(Int) /\ Len(p \o u) >= 1 /\ (p \o u)[1] = p[1]
  BY <1>1, <1>2 DEF p
<1>4. <<>> \o u = u
  BY <1>1
<1> QED BY <1>1, <1>2, <1>3, <1>4 DEF Starts, p

LEMMA ArgumentStep == ASSUME RoomInv, NEW v \in Arguments, Argument(v) PROVE RoomInv'
<1> DEFINE u == Urlified(v)
           r == Room(v)
           short == Short(v)
<1>1. PICK t \in {u} \cup (IF v.type = "string" THEN {Uf(v.is)} ELSE {}) :
        /\ text' = (IF sent = <<>> THEN <<>> ELSE Append(text, B.slash)) \o t
        /\ spare' = IF t = u THEN r - (Len(t) + 1) ELSE 0
  BY Zenon DEF Argument
<1>2. place' = "url" /\ sent' = Append(sent, v) /\ place \in {"handler", "url"}
  BY Zenon DEF Argument
<1>3. Roomy(v, u, r)
  BY ArgumentRoom
<1>4. Starts(t)
  <2>1. CASE t = u
    BY <1>3, <2>1 DEF Roomy
  <2>2. CASE v.type = "string" /\ t = Uf(v.is)
    <3>1. v.is \in Strings
      BY <2>2, ArgumentCases
    <3> QED BY <2>2, <3>1, StringFacts, UfRoom
  <2> QED BY <1>1, <2>1, <2>2
<1>5. sent \in Seq(Sent) /\ v \in Sent
  BY DEF RoomInv, Sent
<1>6. sent' \in Seq(Sent) /\ sent'[Len(sent')] = v
  BY <1>2, <1>5
<1>7. Starts(text')
  <2>1. CASE sent = <<>>
    BY <1>1, <1>4, <2>1, StartsLonger, 0 \in Int
  <2>2. CASE sent # <<>>
    <3>1. Starts(text)
      BY <1>2, <2>2 DEF RoomInv
    <3>2. B.slash \in Int
      BY BFacts
    <3>3. text' = Append(text, B.slash) \o t
      BY <1>1, <2>2
    <3> QED BY <1>4, <3>1, <3>2, <3>3, StartsLonger, Zenon
  <2> QED BY <2>1, <2>2
<1>8. Len(u) \in Nat /\ r \in Int
  BY <1>3 DEF Roomy, Starts
<1>9. spare' \in Int /\ (spare' < 0 => spare' = -1 /\ short)
  <2> HIDE DEF u, r, short
  <2>1. Len(u) < r \/ (Len(u) = r /\ short)
    BY <1>3 DEF Roomy, short
  <2>2. CASE t = u
    BY <1>1, <1>8, <2>1, <2>2
  <2>3. CASE t # u
    BY <1>1, <2>3
  <2> QED BY <2>2, <2>3
<1>10. RoomEnough'
  BY <1>2, <1>6, <1>9, SMT DEF RoomEnough, Short
<1> QED BY <1>2, <1>6, <1>7, <1>9, <1>10 DEF RoomInv

LEMMA LinkRoom == ASSUME RoomInv, Link PROVE RoomInv'
<1>1. Starts(text)
  BY DEF RoomInv, Link
<1>2. Attrify(text) \in Seq(Int) /\ Len(Attrify(text)) <= 6 * Len(text) - 1
  BY <1>1, AttrifyRoom
<1> DEFINE a == Attrify(text)
<1>3. place' = "attribute" /\ spare' = 6 * Len(text) - (Len(a) + 1) /\ sent' = sent
  BY DEF Link
<1>4. text \in Seq(Int) /\ a \in Seq(Int) /\ Len(a) <= 6 * Len(text) - 1
  BY <1>1, <1>2 DEF Starts
<1> HIDE DEF a
<1>5. spare' \in Int /\ spare' >= 0
  BY <1>3, <1>4
<1>6. sent' \in Seq(Sent) /\ place' \notin {"handler", "url"}
  BY <1>3 DEF RoomInv
<1> QED BY <1>5, <1>6, Spared

\* A step that writes nothing.
LEMMA NothingWritten ==
  ASSUME RoomInv, sent' = sent, spare' = 0, place' \notin {"handler", "url"}
  PROVE  RoomInv'
<1>1. sent' \in Seq(Sent) /\ spare' \in Int /\ spare' >= 0
  BY DEF RoomInv
<1> QED BY <1>1, Spared

LEMMA ViewRoom == ASSUME RoomInv, View PROVE RoomInv'
<1>1. PICK t : Read(t)
  BY Zenon DEF View
<1> QED BY <1>1, NothingWritten DEF Read

LEMMA Kept == ASSUME RoomInv, place \notin {"handler", "url", "literal"}, spare' = spare, sent' = sent,
                     place' \notin {"handler", "url"}
              PROVE  RoomInv'
<1>1. spare \in Int /\ ~(spare < 0) /\ sent \in Seq(Sent)
  BY DEF RoomInv, RoomEnough
<1>2. spare' \in Int /\ spare' >= 0 /\ sent' \in Seq(Sent)
  BY <1>1
<1> QED BY <1>2, Spared

LEMMA ReadArgumentRoom == ASSUME RoomInv, ReadArgument PROVE RoomInv'
<1>1. place = "request" /\ sent' = sent /\ spare' = spare
  BY Zenon DEF ReadArgument
<1>2. place' \in {"error", "done", place}
  BY Zenon DEF ReadArgument
<1> QED BY <1>1, <1>2, Kept

LEMMA FinishRoom == ASSUME RoomInv, Finish PROVE RoomInv'
<1>1. place' = "handler" /\ sent' = <<>> /\ spare' = 0
  BY DEF Finish
<1>2. RoomEnough'
  BY <1>1, SMT DEF RoomEnough
<1> QED BY <1>1, <1>2 DEF RoomInv

\* One action of the model.
LEMMA RoomStep == ASSUME RoomInv, [ValuesNext]_valueVars PROVE RoomInv'
<1>1. ASSUME NEW v \in Arguments, Argument(v) PROVE RoomInv'
  BY <1>1, ArgumentStep
<1>2. ASSUME NEW s \in Strings, Show(s) \/ ToScript(s) \/ Fill(s) \/ Reply(s) \/ Query(s) PROVE RoomInv'
  BY <1>2, ShowRoom, ToScriptRoom, FillRoom, ReplyRoom, QueryRoom
<1>3. ASSUME NEW b \in Blobs, QueryBlob(b) PROVE RoomInv'
  BY <1>3, QueryBlobRoom
<1>4. CASE Link
  BY <1>4, LinkRoom
<1>5. CASE Click
  BY <1>5, NothingWritten DEF Click
<1>6. CASE Call
  BY <1>6, NothingWritten DEF Call
<1>7. CASE ReadArgument
  BY <1>7, ReadArgumentRoom
<1>8. CASE View
  BY <1>8, ViewRoom
<1>9. CASE Stored
  BY <1>9, Kept DEF Stored
<1>10. CASE Fetch
  <2>1. PICK t : Read(t)
    BY <1>10, Zenon DEF Fetch
  <2> QED BY <2>1, NothingWritten DEF Read
<1>11. CASE Finish
  BY <1>11, FinishRoom
<1>12. CASE UNCHANGED valueVars
  BY <1>12 DEF RoomInv, RoomEnough, valueVars
<1> QED
  BY <1>1, <1>2, <1>3, <1>4, <1>5, <1>6, <1>7, <1>8, <1>9, <1>10, <1>11, <1>12, Zenon DEF ValuesNext

(* No conversion writes more bytes than it has reserved with uw_check, whatever the value: *)
(* but for the arguments of a URL that are one byte short, and for octal escapes in a      *)
(* literal.                                                                                *)
THEOREM RoomIsEnough == ValuesSpec => []RoomEnough
<1>1. ValuesInit => RoomInv
  BY SMT DEF ValuesInit, RoomInv, RoomEnough
<1>2. RoomInv /\ [ValuesNext]_valueVars => RoomInv'
  BY RoomStep
<1>3. RoomInv => RoomEnough
  BY DEF RoomInv
<1> QED BY <1>1, <1>2, <1>3, PTL DEF ValuesSpec

=============================================================================
