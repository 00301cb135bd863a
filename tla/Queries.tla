------------------------------ MODULE Queries ------------------------------
(***************************************************************************)
(* What the SQL cache promises: that nobody notices it.  Each query gets   *)
(* the value the database has for it, the transaction's own writes         *)
(* included, and what a transaction has read stays true until it ends.     *)
(***************************************************************************)
CONSTANTS Threads, Rows, Values

VARIABLES
  db,    \* the committed value of each row
  own,   \* per thread: the rows its transaction has written, as a set of pairs
  page   \* per thread: what its queries returned, as a set of pairs

vars == <<db, own, page>>

Init == /\ db \in [Rows -> Values]
        /\ own = [t \in Threads |-> {}]
        /\ page = [t \in Threads |-> {}]

\* What a query of thread t for row r returns.
View(t, r) == IF \E v \in Values : <<r, v>> \in own[t]
              THEN CHOOSE v \in Values : <<r, v>> \in own[t]
              ELSE db[r]

Read(t, r) == /\ page' = [page EXCEPT ![t] = @ \union {<<r, View(t, r)>>}]
              /\ UNCHANGED <<db, own>>

\* Rows another transaction has read are not written.
Write(t, rows, v) ==
  /\ \A u \in Threads \ {t}, r \in rows, w \in Values : <<r, w>> \notin page[u]
  /\ own' = [own EXCEPT ![t] = (@ \ (rows \X Values)) \union (rows \X {v})]
  /\ UNCHANGED <<db, page>>

Finish(t) == /\ own' = [own EXCEPT ![t] = {}]
             /\ page' = [page EXCEPT ![t] = {}]

Commit(t) == /\ db' = [r \in Rows |-> View(t, r)]
             /\ own' = [own EXCEPT ![t] = {}]
             /\ UNCHANGED page

End(t) == UNCHANGED db /\ Finish(t)

Next == \E t \in Threads :
          \/ \E r \in Rows : Read(t, r)
          \/ \E rows \in SUBSET Rows, v \in Values : Write(t, rows, v)
          \/ Commit(t)
          \/ End(t)

Spec == Init /\ [][Next]_vars
=============================================================================
