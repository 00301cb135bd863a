------------------------------- MODULE Sockets -------------------------------
(***************************************************************************)
(* What both front ends do with the sockets they accept: a socket goes     *)
(* through the queue of queue.c to a worker, which closes it, leaves it to *)
(* a client of the runtime, or puts it back.                               *)
(***************************************************************************)
EXTENDS Naturals, Sequences

CONSTANTS Workers, Connections

VARIABLES
  place,   \* per connection: "new", "queued", "worker", "parked", "closed"
  queue,   \* the queue
  sock     \* per worker: its socket, or "none"

vars == <<place, queue, sock>>

Init ==
  /\ place = [c \in Connections |-> "new"]
  /\ queue = <<>>
  /\ sock = [w \in Workers |-> "none"]

Accept(c) ==
  /\ place[c] = "new"
  /\ place' = [place EXCEPT ![c] = "queued"]
  /\ queue' = Append(queue, c)
  /\ UNCHANGED sock

Take(w) ==
  /\ sock[w] = "none" /\ queue # <<>>
  /\ sock' = [sock EXCEPT ![w] = Head(queue)]
  /\ place' = [place EXCEPT ![Head(queue)] = "worker"]
  /\ queue' = Tail(queue)

GiveUp(w, somewhere) ==
  /\ sock[w] # "none"
  /\ place' = [place EXCEPT ![sock[w]] = somewhere]
  /\ sock' = [sock EXCEPT ![w] = "none"]

PutBack(w) == GiveUp(w, "queued") /\ queue' = Append(queue, sock[w])

Part(w) == UNCHANGED queue /\ \E p \in {"parked", "closed"} : GiveUp(w, p)

Deliver(c) ==
  /\ place[c] = "parked"
  /\ place' = [place EXCEPT ![c] = "closed"]
  /\ UNCHANGED <<queue, sock>>

Next ==
  \/ \E w \in Workers : Take(w) \/ PutBack(w) \/ Part(w)
  \/ \E c \in Connections : Accept(c) \/ Deliver(c)

Spec == Init /\ [][Next]_vars

-----------------------------------------------------------------------------
\* A socket has one owner: the queue, one worker, a client, or nobody once it is closed.
OneOwner ==
  \A c \in Connections :
    /\ (place[c] = "queued") <=> \E i \in 1..Len(queue) : queue[i] = c
    /\ (place[c] = "worker") <=> \E w \in Workers : sock[w] = c
    /\ \A i, j \in 1..Len(queue) : queue[i] = c /\ queue[j] = c => i = j
    /\ \A v, w \in Workers : sock[v] = c /\ sock[w] = c => v = w
=============================================================================
