------------------------------ MODULE FastCgi ------------------------------
(***************************************************************************)
(* The FastCGI front end: src/urweb/src/c/fastcgi.c with the queue of      *)
(* queue.c.  Workers take connections from the queue, put the records of a *)
(* request together from whatever the socket delivers, call uw_request and *)
(* answer, or leave the socket to whoever will have a message for it.      *)
(* A byte of the model stands for some bytes of the wire; a record's       *)
(* header takes HeaderSize of them.                                        *)
(***************************************************************************)
EXTENDS Integers, Sequences, SequencesExt, FiniteSets

CONSTANTS
  Workers, Connections,
  Descriptors,   \* the numbers of file descriptors
  Streams,       \* what may be sent on each connection: sequences of records
  HeaderSize,    \* sizeof(FCGI_Record) - 65535
  MaxContent     \* 65535

AllStreams == UNION {Streams[c] : c \in Connections}

ASSUME FastCgiAssumption ==
  /\ HeaderSize \in Nat \ {0} /\ MaxContent \in Nat
  /\ <<>> \notin AllStreams /\ "none" \notin Connections
  \* streams and contents are sequences, whatever of
  /\ \A s \in AllStreams :
       /\ s \in Seq(Range(s))
       /\ \A r \in Range(s) : r.padding \in Nat /\ r.content \in Seq(Range(r.content))

VARIABLES
  place,            \* per connection: "new", "queued", "worker", "parked", "closed"
  queue,            \* the queue of queue.c
  stream, received, \* per connection: its records, and how many bytes were received
  out,              \* per connection: the records sent to the web server
  fd,               \* per connection: its file descriptor, from accept on
  got, asked,       \* ghosts per connection: records handed over, and whether uw_request
                    \* was called ("yes") and left the socket open ("parked")
  \* per worker: where it is and the socket it has, the descriptor it sends and logs to
  \* (out->sock), FCGI_Input, current_request_id, the array of parameters and how many of
  \* it are of this request, and the body
  pc, sock, outSock, buf, used, id, nvps, usedNvps, bodyLen, body

conns   == <<place, queue, stream, received, out, got, asked>>
files   == <<fd, outSock>>
input   == <<buf, used>>
request == <<id, nvps, usedNvps, bodyLen, body>>
vars    == <<conns, files, pc, sock, input, request>>

-----------------------------------------------------------------------------
Cap == HeaderSize + MaxContent

Size(r) == HeaderSize + Len(r.content) + r.padding

\* The bytes of a stream: each knows its record and its place there.
Bytes == [s \in AllStreams |->
  FlattenSeq([i \in 1..Len(s) |-> [k \in 1..Size(s[i]) |-> [rec |-> s[i], at |-> k]]])]

Garbage == [type |-> "garbage", id |-> 0, content |-> <<>>, padding |-> 0]

\* The header at the front of some bytes.
Header(bs) == IF bs[1].at = 1 THEN bs[1].rec ELSE Garbage

Complete(bs) == Len(bs) >= HeaderSize /\ Len(bs) >= Size(Header(bs))

\* What fastcgi_recv works on: the record handed over last is moved out first.
Pending(w) == SubSeq(buf[w], used[w] + 1, Len(buf[w]))

Init ==
  /\ place = [c \in Connections |-> "new"] /\ queue = <<>>
  /\ stream = [c \in Connections |-> <<>>] /\ received = [c \in Connections |-> 0]
  /\ out = [c \in Connections |-> <<>>] /\ got = [c \in Connections |-> <<>>]
  /\ asked = [c \in Connections |-> "no"] /\ fd = [c \in Connections |-> 0]
  /\ pc = [w \in Workers |-> "idle"] /\ sock = [w \in Workers |-> "none"]
  /\ outSock = [w \in Workers |-> 0]
  /\ buf = [w \in Workers |-> <<>>] /\ used = [w \in Workers |-> 0]
  /\ id = [w \in Workers |-> 0] /\ nvps = [w \in Workers |-> <<>>]
  /\ usedNvps = [w \in Workers |-> 0] /\ bodyLen = [w \in Workers |-> 0]
  /\ body = [w \in Workers |-> <<>>]

-----------------------------------------------------------------------------
(* Connections.                                                             *)

\* Descriptor d is that of connection c, which is open.
Has(c, d) == place[c] \notin {"new", "closed"} /\ fd[c] = d

\* A descriptor that was closed is used again.
Accept(c) ==
  /\ place[c] = "new"
  /\ \E d \in Descriptors :
       /\ \A e \in Connections : ~Has(e, d)
       /\ fd' = [fd EXCEPT ![c] = d]
  /\ place' = [place EXCEPT ![c] = "queued"]
  /\ queue' = Append(queue, c)
  /\ \E s \in Streams[c] : stream' = [stream EXCEPT ![c] = s]
  /\ UNCHANGED <<received, out, got, asked, pc, sock, outSock, input, request>>

\* Mutant: the node stays at the front.
DequeuedNot(q) == q

\* The queue after dequeue.
Dequeued(q) == Tail(q)

Dequeue(w) ==
  /\ pc[w] = "idle" /\ queue # <<>>
  /\ sock' = [sock EXCEPT ![w] = Head(queue)]
  /\ place' = [place EXCEPT ![Head(queue)] = "worker"]
  /\ queue' = Dequeued(queue)
  /\ pc' = [pc EXCEPT ![w] = "begin"]
  /\ outSock' = [outSock EXCEPT ![w] = fd[Head(queue)]]
  /\ usedNvps' = [usedNvps EXCEPT ![w] = 0]
  /\ UNCHANGED <<fd, stream, received, out, got, asked, input, id, nvps, bodyLen, body>>

Reading(w) == pc[w] \in {"begin", "params", "stdin"}

\* More bytes arrive in the middle of a record.
Recv(w) ==
  /\ Reading(w) /\ ~Complete(Pending(w))
  /\ LET c == sock[w]
         bs == Bytes[stream[c]]
     IN \E n \in 1..(Cap - Len(Pending(w))) :
          /\ received[c] + n <= Len(bs)
          /\ buf' = [buf EXCEPT ![w] = Pending(w) \o SubSeq(bs, received[c] + 1, received[c] + n)]
          /\ received' = [received EXCEPT ![c] = @ + n]
  /\ used' = [used EXCEPT ![w] = 0]
  /\ UNCHANGED <<place, queue, stream, out, got, asked, files, pc, sock, request>>

Sent(type, i) == [type |-> type, id |-> i]

\* write_stderr, unless "".
Err(w, text) == IF text = "" THEN <<>> ELSE <<Sent("STDERR", id'[w])>>

\* The end of a turn: the worker forgets its input.
Idle(w) ==
  /\ pc' = [pc EXCEPT ![w] = "idle"]
  /\ sock' = [sock EXCEPT ![w] = "none"]
  /\ buf' = [buf EXCEPT ![w] = <<>>]
  /\ used' = [used EXCEPT ![w] = 0]

\* goto done: complain, close the socket, wait for the next one.
Done(w, text) ==
  /\ out' = [out EXCEPT ![sock[w]] = @ \o Err(w, text)]
  /\ place' = [place EXCEPT ![sock[w]] = "closed"]
  /\ Idle(w)
  /\ UNCHANGED <<queue, stream, received, asked, files>>

\* Mutant: that recv returns 0 is not noticed.
GoneNever(w) == FALSE

\* The web server is gone, or the record does not fit into the buffer.
Gone(w) == received[sock[w]] = Len(Bytes[stream[sock[w]]]) \/ Len(Pending(w)) = Cap

RecvFails(w) ==
  /\ Reading(w) /\ ~Complete(Pending(w))
  /\ Gone(w)
  /\ UNCHANGED <<request, got>>
  /\ Done(w, IF pc[w] = "begin" THEN "" ELSE "Error receiving")

\* Mutant: the padding is not used up.
SkipOfContent(r) == HeaderSize + Len(r.content)

\* What a record uses up of the buffer.
Skip(r) == Size(r)

\* fastcgi_recv returns record r to worker w, which waits for it at label.
Record(w, label) == pc[w] = label /\ Complete(Pending(w))
                    /\ got' = [got EXCEPT ![sock[w]] = Append(@, Header(Pending(w)))]

\* The worker goes on at label, having complained of the record or not.
GoOn(w, label, text) ==
  /\ buf' = [buf EXCEPT ![w] = Pending(w)]
  /\ used' = [used EXCEPT ![w] = Skip(Header(Pending(w)))]
  /\ out' = [out EXCEPT ![sock[w]] = @ \o Err(w, text)]
  /\ pc' = [pc EXCEPT ![w] = label]
  /\ UNCHANGED <<place, queue, stream, received, asked, files, sock>>

-----------------------------------------------------------------------------
(* A request.                                                               *)

\* fastcgi_request_id.
Number(r) == r.id

BeginRequest(w) ==
  /\ Record(w, "begin")
  /\ LET r == Header(Pending(w)) IN
       /\ id' = [id EXCEPT ![w] = Number(r)]
       /\ IF r.type # "BEGIN_REQUEST" THEN Done(w, "First message is not BEGIN_REQUEST")
          ELSE IF r.content # <<"RESPONDER">> THEN Done(w, "a role besides RESPONDER")
          ELSE GoOn(w, "params", "")
  /\ UNCHANGED <<nvps, usedNvps, bodyLen, body>>

\* Mutant: requests share a connection.
OtherRequestNever(w, r) == FALSE

\* Records of other requests are ignored.
OtherRequest(w, r) == Number(r) # id[w]

\* The place of the first parameter of that name, or 0.
Named(ps, name) == SelectInSeq(ps, LAMBDA p : p.name = name)

\* search_nvps: the array up to its first empty name; <<>> when it is not there.
Search(ps, name) ==
  LET end == Named(ps, "")
      i == Named(ps, name)
  IN IF i # 0 /\ i < end THEN <<ps[i].value>> ELSE <<>>

\* get_header of Content-Length: the parameter of that name, or else the header.
ContentLength(ps) == LET own == Search(ps, "CONTENT_LENGTH")
                     IN IF own # <<>> THEN own ELSE Search(ps, "HTTP_CONTENT_LENGTH")

\* Parameters written over the array from n on.
Overwrite(ps, n, new) == SubSeq(ps, 1, n) \o new \o SubSeq(ps, n + Len(new) + 1, Len(ps))

\* The empty name after the last parameter.
Closing == <<[name |-> "", value |-> ""]>>

Params(w) ==
  /\ Record(w, "params")
  /\ LET r == Header(Pending(w))
         ps == Overwrite(nvps[w], usedNvps[w], Closing)
         len == ContentLength(ps)
     IN CASE OtherRequest(w, r) ->
               UNCHANGED request /\ GoOn(w, "params", "Ignoring environment variables")
          [] ~OtherRequest(w, r) /\ r.type # "PARAMS" ->
               UNCHANGED request /\ Done(w, "Expected FCGI_PARAMS")
          [] ~OtherRequest(w, r) /\ r.type = "PARAMS" /\ r.content # <<>> ->
               \* the pairs before a malformed one are in the array already
               LET bad == Named(r.content, "malformed")
                   new == IF bad = 0 THEN r.content ELSE SubSeq(r.content, 1, bad - 1)
               IN /\ nvps' = [nvps EXCEPT ![w] = Overwrite(@, usedNvps[w], new)]
                  /\ usedNvps' = [usedNvps EXCEPT ![w] = @ + Len(new)]
                  /\ UNCHANGED <<id, bodyLen, body>>
                  /\ IF bad = 0 THEN GoOn(w, "params", "") ELSE Done(w, "Error reading FCGI_PARAMS")
          [] ~OtherRequest(w, r) /\ r.type = "PARAMS" /\ r.content = <<>> ->
               /\ nvps' = [nvps EXCEPT ![w] = ps]
               /\ bodyLen' = [bodyLen EXCEPT ![w] = IF len = <<>> THEN 0 ELSE len[1]]
               /\ body' = [body EXCEPT ![w] = <<>>]
               /\ UNCHANGED <<id, usedNvps>>
               /\ IF bodyLen'[w] < 0 THEN Done(w, "Invalid Content-Length")
                  ELSE GoOn(w, IF bodyLen'[w] = 0 THEN "ready" ELSE "stdin", "")

\* The body would be longer than announced.
TooMuch(w, r) == Len(body[w]) + Len(r.content) > bodyLen[w]

Stdin(w) ==
  /\ Record(w, "stdin")
  /\ UNCHANGED <<id, nvps, usedNvps, bodyLen>>
  /\ LET r == Header(Pending(w))
         mine == ~OtherRequest(w, r)
         read == Len(body[w]) + Len(r.content)
     IN \/ ~mine /\ UNCHANGED body /\ GoOn(w, "stdin", "Ignoring STDIN")
        \/ mine /\ r.type # "STDIN" /\ UNCHANGED body /\ Done(w, "Expected FCGI_STDIN")
        \/ mine /\ r.type = "STDIN" /\ r.content = <<>> /\ UNCHANGED body
             /\ GoOn(w, "ready", "End of STDIN")
        \/ mine /\ r.type = "STDIN" /\ r.content # <<>> /\ TooMuch(w, r)
             /\ UNCHANGED body /\ Done(w, "Too much STDIN")
        \/ mine /\ r.type = "STDIN" /\ r.content # <<>> /\ ~TooMuch(w, r)
             /\ body' = [body EXCEPT ![w] = @ \o r.content]
             /\ GoOn(w, IF read = bodyLen[w] THEN "ready" ELSE "stdin", "")

\* The request is complete: uw_request is called, unless it has no method or path.
Call(w) ==
  /\ pc[w] = "ready" /\ UNCHANGED <<request, got>>
  /\ IF <<>> \in {Search(nvps[w], n) : n \in {"REQUEST_METHOD", "SCRIPT_NAME"}}
     THEN Done(w, "REQUEST_METHOD or SCRIPT_NAME not set")
     ELSE /\ pc' = [pc EXCEPT ![w] = "handling"]
          /\ asked' = [asked EXCEPT ![sock[w]] = "yes"]
          /\ UNCHANGED <<place, queue, stream, received, out, files, sock, input>>

\* fastcgi_close_with: the ends of both streams, and of the request.
Ending(i) == <<Sent("STDOUT end", i), Sent("STDERR end", i), Sent("END_REQUEST", i)>>

\* What a handler logs, and its page: one record or two.
Pages(i) == {[k \in 1..n |-> Sent("STDERR", i)] \o [k \in 1..m |-> Sent("STDOUT", i)] :
               n \in 0..1, m \in 1..2}

\* SERVED or FAILED.
Answer(w) ==
  /\ pc[w] = "handling"
  /\ \E page \in Pages(id[w]) :
       out' = [out EXCEPT ![sock[w]] = @ \o page \o Ending(id[w])]
  /\ place' = [place EXCEPT ![sock[w]] = "closed"]
  /\ Idle(w)
  /\ UNCHANGED <<queue, stream, received, got, asked, files, request>>

\* Mutant: the worker closes the socket of a poll it has left open.
LeftClosed == "closed"

\* Where a socket is after KEEP_OPEN.
Left == "parked"

\* uw_client_connect of a client with nothing to say: the client has the socket now.
Park(w) ==
  /\ place' = [place EXCEPT ![sock[w]] = Left]
  /\ asked' = [asked EXCEPT ![sock[w]] = "parked"]
  /\ pc' = [pc EXCEPT ![w] = "log"]
  /\ UNCHANGED out

\* uw_client_connect of a client with messages, or of none: it sends them, or chastises and
\* complains, and closes the socket.
AnswerPoll(w) ==
  /\ out' = [out EXCEPT ![sock[w]] = Append(@, Sent("STDOUT", id[w])) \o Ending(id[w])]
  /\ place' = [place EXCEPT ![sock[w]] = "closed"]
  /\ \E label \in {"complain", "log"} : pc' = [pc EXCEPT ![w] = label]
  /\ UNCHANGED asked

\* KEEP_OPEN: in either case the socket is no longer the worker's.
KeepOpen(w) ==
  /\ pc[w] = "handling"
  /\ Park(w) \/ AnswerPoll(w)
  /\ sock' = [sock EXCEPT ![w] = "none"]
  /\ UNCHANGED <<queue, stream, received, got, files, input, request>>

\* The worker logs that it has done so, to the descriptor it had: to a poll that is parked, or
\* is being answered, or to whichever connection has the descriptor by now, or to nobody.
Log(w) ==
  /\ pc[w] \in {"complain", "log"}
  /\ out' = [c \in Connections |->
        out[c] \o IF Has(c, outSock[w]) THEN <<Sent("late STDERR", id[w])>> ELSE <<>>]
  /\ IF pc[w] = "complain"
     THEN pc' = [pc EXCEPT ![w] = "log"] /\ UNCHANGED <<sock, input>>
     ELSE Idle(w)
  /\ UNCHANGED <<place, queue, stream, received, got, asked, files, request>>

\* The request of c was ended.
IsOver(c) == \E i \in 1..Len(out[c]) : out[c][i].type = "END_REQUEST"

\* A thread with request id i has messages for the parked socket c, or none when the client is
\* dropped or polls again: fastcgi_send_normal, and fastcgi_close ...
Deliver(c, i) ==
  /\ place[c] = "parked" /\ ~IsOver(c)
  /\ \E n \in 0..1 :
       out' = [out EXCEPT ![c] = @ \o [k \in 1..n |-> Sent("STDOUT", i)] \o Ending(i)]
  /\ UNCHANGED <<place, queue, stream, received, got, asked, files, pc, sock, input, request>>

\* Only the thread that delivers knows its request id; that of the pruner and of periodic
\* tasks is 0.
Delivery(c) == Deliver(c, 0) \/ \E w \in Workers : pc[w] = "handling" /\ Deliver(c, id[w])

\* ... up to its close.
ClosePoll(c) ==
  /\ place[c] = "parked" /\ IsOver(c)
  /\ place' = [place EXCEPT ![c] = "closed"]
  /\ UNCHANGED <<queue, stream, received, out, got, asked, files, pc, sock, input, request>>

Work(w) == Dequeue(w) \/ Recv(w) \/ RecvFails(w) \/ BeginRequest(w) \/ Params(w) \/ Stdin(w)
           \/ Call(w) \/ Answer(w) \/ KeepOpen(w) \/ Log(w)

Next == \/ \E w \in Workers : Work(w)
        \/ \E c \in Connections : Accept(c) \/ Delivery(c) \/ ClosePoll(c)

Spec == Init /\ [][Next]_vars

\* Threads run, handlers end, and web servers send what they have to send.
FairSpec == Spec /\ \A w \in Workers : WF_vars(Work(w))
-----------------------------------------------------------------------------
(* Properties.                                                              *)

\* However the bytes of a record arrive, fastcgi_recv hands over the records that
\* were sent.
Stream == INSTANCE RecordStream
            WITH Connections <- Connections, Streams <- AllStreams, stream <- stream, got <- got
StreamIntact == Stream!Spec

\* A socket has one owner, who alone reads it, answers on it and closes it: the queue, one
\* worker, a client, or nobody once it is closed.
Owners == INSTANCE Sockets

\* And while a worker has a socket, what it sends and logs goes there and nowhere else: the
\* descriptor it uses is that of its socket and of no other open one.
OwnDescriptor ==
  /\ \A c, d \in Connections : Has(c, fd[d]) /\ Has(d, fd[d]) => c = d
  /\ \A w \in Workers : sock[w] # "none" => Has(sock[w], outSock[w])
OneOwner == Owners!OneOwner /\ OwnDescriptor

\* What the records of one type say in the request that the first of some records begins.
Own(records, type) == FlattenSeq([i \in 1..Len(records) |->
  IF records[i].type = type /\ records[i].id = records[1].id THEN records[i].content ELSE <<>>])

\* What was sent of the request that worker w is about to call uw_request for.
Mine(w, type) == Own(got[sock[w]], type)

\* uw_request sees the parameters and the body of its own request and no others: not
\* those of a request that shares the connection, nor those the worker had before.
OwnRequest == \A w \in Workers : pc[w] = "handling" =>
  /\ body[w] = Mine(w, "STDIN")
  /\ \A n \in {"REQUEST_METHOD", "SCRIPT_NAME", "CONTENT_LENGTH", "HTTP_CONTENT_LENGTH"} :
       LET ps == Mine(w, "PARAMS")
           i == Named(ps, n)
       IN Search(nvps[w], n) = IF i = 0 THEN <<>> ELSE <<ps[i].value>>

\* Each request that was handled is ended once, by whichever thread, before its socket is
\* closed, and nothing but a late line of some worker follows its end.  Unless it is parked,
\* each other record sent to a web server bears the number of the request it answers, not
\* that of another one of the connection nor of the one the worker had before.
EndedOnce == \A c \in Connections :
  LET o == out[c]
      ends == {i \in 1..Len(o) : o[i].type = "END_REQUEST"}
      late == {i \in 1..Len(o) : o[i].type = "late STDERR"}
  IN /\ place[c] = "closed" => (ends = {} <=> asked[c] = "no")
     /\ place[c] \notin {"parked", "closed"} => ends = {}
     /\ \A i \in ends : \A j \in 1..Len(o) : j <= i \/ j \in late
     /\ asked[c] # "parked" => \A i \in 1..Len(o) : i \in late \/ o[i].id = stream[c][1].id

\* That nothing at all follows the end of a request does not hold: a worker logs its poll when
\* it has given up the socket.
NothingAfterTheEnd == \A c \in Connections : \A i \in 1..Len(out[c]) :
  out[c][i].type = "END_REQUEST" => i = Len(out[c])

\* Nor that what a worker logs goes to the web server whose request it handles.
LinesAreOwn == \A c \in Connections : \A i \in 1..Len(out[c]) :
  out[c][i].type = "late STDERR" => asked[c] # "no" /\ out[c][i].id = stream[c][1].id

\* The same of the messages for a parked poll.  It does not hold: fastcgi_send_normal finds the
\* number in the thread that sends.
OwnNumber == \A c \in Connections :
  \A i \in 1..Len(out[c]) : out[c][i].id = stream[c][1].id

\* No request waits for ever for a worker, nor a worker for a web server that is gone.
AnsweredOrParked == \A c \in Connections :
  place[c] = "queued" ~> place[c] \in {"parked", "closed"}
=============================================================================
