---------------------------- MODULE Transaction ----------------------------
(***************************************************************************)
(* What a request promises: the work of its page function takes effect at  *)
(* most once, whatever is tried again, and the browser is told that it was *)
(* served only if it did.                                                  *)
(***************************************************************************)
EXTENDS Naturals

VARIABLES
  stored,  \* how often the work of the page function has been committed
  answer   \* result of the request: "none", "SERVED" or "FAILED"

vars == <<stored, answer>>

Init == stored = 0 /\ answer = "none"

\* The next request.
Begin == answer # "none" /\ answer' = "none" /\ stored' = 0

Store == answer = "none" /\ stored = 0 /\ stored' = 1 /\ UNCHANGED answer

Serve == answer = "none" /\ stored = 1 /\ answer' = "SERVED" /\ UNCHANGED stored

\* A request may fail after its work was committed.
Fail == answer = "none" /\ answer' = "FAILED" /\ UNCHANGED stored

Next == Begin \/ Store \/ Serve \/ Fail

Spec == Init /\ [][Next]_vars
=============================================================================
