---------------------------- MODULE RecordStream ----------------------------
(***************************************************************************)
(* What the readers of the front ends promise: a worker is handed what was *)
(* sent on its connection, records of FastCGI or requests of HTTP, one by  *)
(* one, in order and whole, however the bytes arrive.                      *)
(***************************************************************************)
EXTENDS Naturals, Sequences

CONSTANTS Connections, Streams

VARIABLES
  stream, \* per connection: what is sent on it
  got     \* per connection: what workers were handed

vars == <<stream, got>>

Init == /\ stream = [c \in Connections |-> <<>>]
        /\ got = [c \in Connections |-> <<>>]

Connect(c) == /\ stream[c] = <<>> /\ got[c] = <<>>
              /\ \E s \in Streams : stream' = [stream EXCEPT ![c] = s]
              /\ UNCHANGED got

Hand(c) == /\ Len(got[c]) < Len(stream[c])
           /\ got' = [got EXCEPT ![c] = Append(@, stream[c][Len(@) + 1])]
           /\ UNCHANGED stream

Next == \E c \in Connections : Connect(c) \/ Hand(c)

Spec == Init /\ [][Next]_vars
=============================================================================
