-------------------------------- MODULE Http --------------------------------
(***************************************************************************)
(* The HTTP server: the acceptor and the workers of src/urweb/src/c/http.c *)
(* with the queue of queue.c.  A worker reads requests into a buffer that  *)
(* grows by doubling, calls uw_request, and then closes the socket, puts   *)
(* it back into the queue, goes on with what it has read of the next       *)
(* request, or leaves the socket to the client that polls on it.           *)
(* A byte of the model stands for some bytes of the wire.                  *)
(***************************************************************************)
EXTENDS Integers, Sequences, SequencesExt, FiniteSets

CONSTANTS
  Workers, Connections,
  Streams,     \* what a browser may send on a connection: sequences of requests
  FirstSize,   \* the size a buffer starts with
  MaxSize,     \* max_buf_size
  KeepAlive    \* keepalive

ASSUME HttpAssumption ==
  FirstSize \in Nat \ {0, 1} /\ MaxSize \in Nat /\ KeepAlive \in BOOLEAN /\ <<>> \notin Streams
  /\ "none" \notin Connections
  \* a header ends with an empty line, so it has some
  /\ \A s \in Streams :
       /\ s \in Seq(Range(s))
       \* a negative Content-Length reaches back into the header, and not out of the buffer
       /\ \A r \in Range(s) : r.header \in Nat \ {0} /\ r.contentLength \in Int
                              /\ r.header + r.contentLength >= 0

VARIABLES
  place,            \* per connection: "new", "queued", "worker", "parked", "closed"
  queue,            \* the queue of queue.c
  stream, received, \* per connection: its requests, and how many bytes were received
  got,              \* ghost, per connection: what uw_request was called with
  pc, sock, buf, bufSize \* per worker: where it is, its socket, and its buffer

conns == <<place, queue, stream, received, got>>
vars  == <<conns, pc, sock, buf, bufSize>>

-----------------------------------------------------------------------------
\* A request: its method, the bytes of its header, Content-Length (0 when there is none),
\* whether that is no number, and whether it asks for the connection to be closed.
\* The bytes of content behind the header:
Length(r) == IF r.contentLength > 0 THEN r.contentLength ELSE 0

\* The bytes of a stream: each knows its request and its place there.
Bytes == [s \in Streams |->
  FlattenSeq([i \in 1..Len(s) |->
    [k \in 1..(s[i].header + Length(s[i])) |-> [req |-> s[i], at |-> k]]])]

Garbage == [method |-> "garbage", header |-> 0, contentLength |-> 0, malformed |-> FALSE,
            close |-> TRUE]

\* What is read again of a header: zeros where a parser has cut it, or the end of its empty
\* line, "\n" before a method or "\r\n" for a request line.
Zero          == [req |-> Garbage, at |-> 0]
Stray(method) == [req |-> [Garbage EXCEPT !.method = method], at |-> 1]

\* The last byte of a header, that of the empty line.
EndsHeader(b) == b.at = b.req.header

\* Where the empty line that ends the header is in the buffer of w, or 0: nothing is
\* found behind a zero.
BodyAt(w) == IF buf[w] # <<>> /\ buf[w][1].at = 0 THEN 0 ELSE SelectInSeq(buf[w], EndsHeader)

\* The request line and headers at the front of the buffer.
Request(w) == LET b == BodyAt(w) IN
  IF SubSeq(buf[w], 1, b) = [k \in 1..b |-> [req |-> buf[w][b].req, at |-> k]]
  THEN buf[w][b].req ELSE [buf[w][b].req EXCEPT !.method = buf[w][1].req.method]

\* The end of the request in the buffer, "after"; before its body if Content-Length is
\* negative.
After(w) == BodyAt(w) + Request(w).contentLength

\* What uw_request makes of the buffer: the body of a POST reaches to the end of it.
Handed(w) ==
  LET r == Request(w)
      own == [k \in 1..Length(r) |-> [req |-> r, at |-> r.header + k]]
  IN IF r.method = "POST" /\ SubSeq(buf[w], BodyAt(w) + 1, Len(buf[w])) # own
     THEN Garbage ELSE r

Init ==
  /\ place = [c \in Connections |-> "new"] /\ queue = <<>>
  /\ stream = [c \in Connections |-> <<>>] /\ received = [c \in Connections |-> 0]
  /\ got = [c \in Connections |-> <<>>]
  /\ pc = [w \in Workers |-> "idle"] /\ sock = [w \in Workers |-> "none"]
  /\ buf = [w \in Workers |-> <<>>] /\ bufSize = [w \in Workers |-> FirstSize]

-----------------------------------------------------------------------------
Accept(c) ==
  /\ place[c] = "new"
  /\ place' = [place EXCEPT ![c] = "queued"]
  /\ queue' = Append(queue, c)
  /\ \E s \in Streams : stream' = [stream EXCEPT ![c] = s]
  /\ UNCHANGED <<received, got, pc, sock, buf, bufSize>>

Dequeue(w) ==
  /\ pc[w] = "idle" /\ queue # <<>>
  /\ sock' = [sock EXCEPT ![w] = Head(queue)]
  /\ place' = [place EXCEPT ![Head(queue)] = "worker"]
  /\ queue' = Tail(queue)
  /\ buf' = [buf EXCEPT ![w] = <<>>]
  /\ pc' = [pc EXCEPT ![w] = "header"]
  /\ UNCHANGED <<stream, received, got, bufSize>>

\* sock = 0: the socket is somewhere else now.
LeaveSocket(w, somewhere) ==
  /\ place' = [place EXCEPT ![sock[w]] = somewhere]
  /\ sock' = [sock EXCEPT ![w] = "none"]
  /\ pc' = [pc EXCEPT ![w] = "idle"]

Close(w) == LeaveSocket(w, "closed") /\ UNCHANGED queue

\* More input is needed: for the header, or for the content.
Wants(w) == \/ pc[w] = "header" /\ BodyAt(w) = 0
            \/ pc[w] = "content" /\ Len(buf[w]) < After(w)

\* One byte is kept for the final 0.
Room(w) == bufSize[w] - 1 - Len(buf[w])

\* A buffer of twice the size is over the limit.
TooLarge(w) == bufSize[w] * 2 > MaxSize

\* A full buffer doubles, or the socket is closed.  In the middle of the content only
\* the loop that reads it ends: the request is served as it is, and the answer goes to
\* descriptor 0.
Grow(w) ==
  /\ Wants(w) /\ Room(w) = 0
  /\ IF ~TooLarge(w)
     THEN /\ bufSize' = [bufSize EXCEPT ![w] = @ * 2]
          /\ UNCHANGED <<place, queue, pc, sock, got>>
     ELSE /\ UNCHANGED bufSize
          /\ Close(w)
          /\ got' = IF pc[w] = "header" THEN got
                    ELSE [got EXCEPT ![sock[w]] = Append(@, Garbage)]
  /\ UNCHANGED <<stream, received, buf>>

Recv(w) ==
  /\ Wants(w)
  /\ LET c == sock[w]
         bs == Bytes[stream[c]]
     IN \E n \in 1..Room(w) :
          /\ received[c] + n <= Len(bs)
          /\ buf' = [buf EXCEPT ![w] = @ \o SubSeq(bs, received[c] + 1, received[c] + n)]
          /\ received' = [received EXCEPT ![c] = @ + n]
  /\ UNCHANGED <<place, queue, stream, got, pc, sock, bufSize>>

\* Mutant: recv waits for ever.
RecvFailsNever(w) == FALSE

\* recv fails: the browser is gone, or silent for as long as SO_RCVTIMEO says.
RecvFails(w) == Wants(w) /\ Room(w) > 0

GiveUp(w) == RecvFails(w) /\ Close(w) /\ UNCHANGED <<stream, received, got, buf, bufSize>>

\* The header is there: a Content-Length that is no number ends the connection.
Parse(w) ==
  /\ pc[w] = "header" /\ BodyAt(w) # 0
  /\ IF Request(w).malformed THEN Close(w)
     ELSE pc' = [pc EXCEPT ![w] = "content"] /\ UNCHANGED <<place, queue, sock>>
  /\ UNCHANGED <<stream, received, got, buf, bufSize>>

\* The content is there too: a request line that is none ends the connection.
Call(w) ==
  /\ pc[w] = "content" /\ ~Wants(w)
  /\ IF Request(w).method = "bad" THEN Close(w) /\ UNCHANGED got
     ELSE /\ got' = [got EXCEPT ![sock[w]] = Append(@, Handed(w))]
          /\ pc' = [pc EXCEPT ![w] = "handling"]
          /\ UNCHANGED <<place, queue, sock>>
  /\ UNCHANGED <<stream, received, buf, bufSize>>

\* Mutant: what was read of the next request is forgotten.
KeptNone(w) == {<<>>}

\* What the last n bytes of a header may be by now: they have zeros in them, unless they
\* are only the end of the empty line.
HeaderTails(n) == {[k \in 1..n |-> Zero]}
  \cup IF n = 1 THEN {<<Stray(method)>> : method \in {"garbage", "bad"}} ELSE {}

\* What was read behind "after".
Kept(w) ==
  IF After(w) >= BodyAt(w) THEN {SubSeq(buf[w], After(w) + 1, Len(buf[w]))}
  ELSE {tail \o SubSeq(buf[w], BodyAt(w) + 1, Len(buf[w])) :
          tail \in HeaderTails(BodyAt(w) - After(w))}

\* SERVED or FAILED.
Answer(w) ==
  /\ pc[w] = "handling"
  /\ \/ /\ ~KeepAlive \/ Request(w).close
        /\ Close(w) /\ UNCHANGED buf
     \/ /\ KeepAlive /\ ~Request(w).close /\ Kept(w) = {<<>>}
        \* another connection may be served until there is more input on this one
        /\ queue' = Append(queue, sock[w])
        /\ LeaveSocket(w, "queued") /\ UNCHANGED buf
     \/ /\ KeepAlive /\ ~Request(w).close /\ Kept(w) # {<<>>}
        /\ \E kept \in Kept(w) : buf' = [buf EXCEPT ![w] = kept]
        /\ pc' = [pc EXCEPT ![w] = "header"]
        /\ UNCHANGED <<place, queue, sock>>
  /\ UNCHANGED <<stream, received, got, bufSize>>

\* Mutant: the worker keeps the socket of a poll.
HandOverNot(w) == pc' = [pc EXCEPT ![w] = "header"]
                  /\ place' = [place EXCEPT ![sock[w]] = "parked"] /\ UNCHANGED sock

\* KEEP_OPEN: the client has the socket now.
HandOver(w) == LeaveSocket(w, "parked")

KeepOpen(w) == pc[w] = "handling" /\ HandOver(w)
               /\ UNCHANGED <<queue, stream, received, got, buf, bufSize>>

\* A message for a parked poll: it is sent and the socket closed.
Deliver(c) == place[c] = "parked" /\ place' = [place EXCEPT ![c] = "closed"]
              /\ UNCHANGED <<queue, stream, received, got, pc, sock, buf, bufSize>>

Work(w) == Dequeue(w) \/ Grow(w) \/ Recv(w) \/ GiveUp(w) \/ Parse(w) \/ Call(w) \/ Answer(w)
           \/ KeepOpen(w)

Next == (\E w \in Workers : Work(w)) \/ (\E c \in Connections : Accept(c) \/ Deliver(c))

Spec == Init /\ [][Next]_vars

\* Threads run, handlers end, and recv comes back.
FairSpec == Spec /\ \A w \in Workers : WF_vars(Work(w))
-----------------------------------------------------------------------------
(* Properties.                                                              *)

\* A socket has one owner: the queue, one worker, a client, or nobody once it is closed.
Owners == INSTANCE Sockets
OneOwner == Owners!OneOwner

\* The requests of a connection come to uw_request one after the other, whole, each
\* with its own body, whichever workers read them and however they arrive.
Stream == INSTANCE RecordStream
            WITH Connections <- Connections, Streams <- Streams, stream <- stream, got <- got
RequestsInOrder == Stream!Spec

\* No socket stays open in the hands of the server.
ClosedInTheEnd == \A c \in Connections : place[c] = "queued" ~> place[c] \in {"closed", "parked"}
=============================================================================
