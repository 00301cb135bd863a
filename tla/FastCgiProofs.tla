----------------------------- MODULE FastCgiProofs -----------------------------
(***************************************************************************)
(* The FastCGI front end, for any number of workers and connections and    *)
(* any records on them: it does with sockets what Sockets says, hands over *)
(* the records that were sent, ends a request once, and calls the program  *)
(* with what was sent of that request.                                     *)
(***************************************************************************)
EXTENDS FastCgi, TLAPS

S == INSTANCE SocketsProofs

-----------------------------------------------------------------------------
(* The invariant.                                                           *)

Labels == {"begin", "params", "stdin", "ready", "handling"}

Typed ==
  /\ queue \in Seq(Connections)
  /\ pc \in [Workers -> Labels \cup {"idle", "complain", "log"}]
  /\ sock \in [Workers -> Connections \cup {"none"}]

\* The workers that wait for a socket, or log of the one they gave up, have none.
IdleHoldsNone == \A w \in Workers : pc[w] \in {"idle", "complain", "log"} <=> sock[w] = "none"

Inv == Typed /\ IdleHoldsNone

LEMMA InitInv == Init => Inv /\ S!Init
BY FastCgiAssumption DEF Init, Inv, Typed, IdleHoldsNone, S!Init

-----------------------------------------------------------------------------
(* Each step is one of Sockets, or touches no socket.                       *)

LEMMA AcceptStep == ASSUME Inv, NEW c \in Connections, Accept(c) PROVE Inv' /\ S!Accept(c)
<1>1. /\ place[c] = "new" /\ place' = [place EXCEPT ![c] = "queued"]
      /\ queue' = Append(queue, c) /\ UNCHANGED <<pc, sock>>
  BY DEF Accept
<1>2. Inv'
  BY <1>1 DEF Inv, Typed, IdleHoldsNone
<1> QED BY <1>1, <1>2 DEF S!Accept

LEMMA DequeueStep == ASSUME Inv, NEW w \in Workers, Dequeue(w) PROVE Inv' /\ S!Take(w)
<1> DEFINE c == Head(queue)
<1>1. /\ pc[w] = "idle" /\ queue # <<>>
      /\ sock' = [sock EXCEPT ![w] = c] /\ place' = [place EXCEPT ![c] = "worker"]
      /\ queue' = Tail(queue) /\ pc' = [pc EXCEPT ![w] = "begin"]
  BY DEF Dequeue, Dequeued
<1>2. c \in Connections /\ queue' \in Seq(Connections)
  BY <1>1 DEF Inv, Typed
<1>3. Inv'
  BY <1>1, <1>2, FastCgiAssumption DEF Inv, Typed, IdleHoldsNone, Labels
<1>4. sock[w] = "none"
  BY <1>1 DEF Inv, IdleHoldsNone
<1> QED BY <1>1, <1>3, <1>4 DEF S!Take

\* A worker leaves its socket, and waits for another one or logs that.
LEMMA PartStep ==
  ASSUME Inv, NEW w \in Workers, pc[w] \notin {"idle", "complain", "log"},
         NEW p \in {"parked", "closed"}, NEW label \in {"idle", "complain", "log"},
         place' = [place EXCEPT ![sock[w]] = p], sock' = [sock EXCEPT ![w] = "none"],
         pc' = [pc EXCEPT ![w] = label], UNCHANGED queue
  PROVE  Inv' /\ S!Part(w)
<1>1. sock' = [sock EXCEPT ![w] = "none"] /\ pc' = [pc EXCEPT ![w] = label]
  OBVIOUS
<1>2. Inv'
  BY <1>1 DEF Inv, Typed, IdleHoldsNone
<1>3. sock[w] # "none"
  BY DEF Inv, IdleHoldsNone
<1>4. S!GiveUp(w, p)
  BY <1>1, <1>3 DEF S!GiveUp
<1> QED BY <1>2, <1>4 DEF S!Part

\* The two ways the handling of a record ends: goto done, and going on with the socket.
Closes(w) == /\ place' = [place EXCEPT ![sock[w]] = "closed"] /\ Idle(w)
             /\ UNCHANGED <<queue, files>>
Continues(w) == /\ \E label \in Labels : pc' = [pc EXCEPT ![w] = label]
                /\ UNCHANGED <<place, queue, sock, files>>

LEMMA DoneCloses == ASSUME NEW w, NEW text, Done(w, text) PROVE Closes(w)
BY DEF Done, Closes

LEMMA GoOnContinues ==
  ASSUME NEW w, NEW label \in Labels, NEW text, GoOn(w, label, text) PROVE Continues(w)
BY DEF GoOn, Continues

LEMMA RecordStep ==
  ASSUME Inv, NEW w \in Workers, pc[w] \notin {"idle", "complain", "log"}, Closes(w) \/ Continues(w)
  PROVE  Inv' /\ UNCHANGED files /\ (S!Part(w) \/ UNCHANGED S!vars)
<1>1. CASE Closes(w)
  BY <1>1, PartStep DEF Closes, Idle
<1>2. CASE Continues(w)
  BY <1>2 DEF Continues, Inv, Typed, IdleHoldsNone, Labels, S!vars
<1> QED BY <1>1, <1>2

LEMMA NothingMoves ==
  ASSUME Inv, UNCHANGED <<place, queue, pc, sock>> PROVE Inv' /\ UNCHANGED S!vars
BY DEF Inv, Typed, IdleHoldsNone, S!vars

LEMMA BeginStep ==
  ASSUME Inv, NEW w \in Workers, BeginRequest(w)
  PROVE  Inv' /\ UNCHANGED files /\ (S!Part(w) \/ UNCHANGED S!vars)
<1>1. pc[w] \notin {"idle", "complain", "log"}
  BY DEF BeginRequest, Record
<1>2. \/ Done(w, "First message is not BEGIN_REQUEST")
      \/ Done(w, "a role besides RESPONDER")
      \/ GoOn(w, "params", "")
  BY DEF BeginRequest
<1>3. Closes(w) \/ Continues(w)
  BY <1>2, DoneCloses, GoOnContinues DEF Labels
<1> QED BY <1>1, <1>3, RecordStep

LEMMA ParamsStep ==
  ASSUME Inv, NEW w \in Workers, Params(w)
  PROVE  Inv' /\ UNCHANGED files /\ (S!Part(w) \/ UNCHANGED S!vars)
<1> DEFINE r == Header(Pending(w))
<1>1. pc[w] \notin {"idle", "complain", "log"}
  BY DEF Params, Record
<1>2. CASE OtherRequest(w, r)
  <2>1. GoOn(w, "params", "Ignoring environment variables")
    BY <1>2 DEF Params
  <2> QED BY <1>1, <2>1, GoOnContinues, RecordStep DEF Labels
<1>3. CASE ~OtherRequest(w, r) /\ r.type # "PARAMS"
  <2>1. Done(w, "Expected FCGI_PARAMS")
    BY <1>3 DEF Params
  <2> QED BY <1>1, <2>1, DoneCloses, RecordStep
<1>4. CASE ~OtherRequest(w, r) /\ r.type = "PARAMS" /\ r.content # <<>>
  <2>1. GoOn(w, "params", "") \/ Done(w, "Error reading FCGI_PARAMS")
    BY <1>4 DEF Params
  <2>2. Closes(w) \/ Continues(w)
    BY <2>1, DoneCloses, GoOnContinues DEF Labels
  <2> QED BY <1>1, <2>2, RecordStep
<1>5. CASE ~OtherRequest(w, r) /\ r.type = "PARAMS" /\ r.content = <<>>
  <2>1. \/ Done(w, "Invalid Content-Length")
        \/ GoOn(w, IF bodyLen'[w] = 0 THEN "ready" ELSE "stdin", "")
    BY <1>5 DEF Params
  <2>2. Closes(w) \/ Continues(w)
    BY <2>1, DoneCloses, GoOnContinues DEF Labels
  <2> QED BY <1>1, <2>2, RecordStep
<1> QED BY <1>2, <1>3, <1>4, <1>5

LEMMA StdinStep ==
  ASSUME Inv, NEW w \in Workers, Stdin(w)
  PROVE  Inv' /\ UNCHANGED files /\ (S!Part(w) \/ UNCHANGED S!vars)
<1> DEFINE ends == Len(body[w]) + Len(Header(Pending(w)).content) = bodyLen[w]
<1>1. pc[w] \notin {"idle", "complain", "log"}
  BY DEF Stdin, Record
<1>2. \/ GoOn(w, "stdin", "Ignoring STDIN")
      \/ Done(w, "Expected FCGI_STDIN")
      \/ GoOn(w, "ready", "End of STDIN")
      \/ Done(w, "Too much STDIN")
      \/ GoOn(w, IF ends THEN "ready" ELSE "stdin", "")
  BY DEF Stdin
<1>3. Closes(w) \/ Continues(w)
  BY <1>2, DoneCloses, GoOnContinues DEF Labels
<1> QED BY <1>1, <1>3, RecordStep

LEMMA CallStep ==
  ASSUME Inv, NEW w \in Workers, Call(w)
  PROVE  Inv' /\ UNCHANGED files /\ (S!Part(w) \/ UNCHANGED S!vars)
<1>1. pc[w] \notin {"idle", "complain", "log"}
  BY DEF Call
<1>2. CASE Done(w, "REQUEST_METHOD or SCRIPT_NAME not set")
  BY <1>1, <1>2, DoneCloses, RecordStep
<1>3. CASE pc' = [pc EXCEPT ![w] = "handling"] /\ UNCHANGED <<place, queue, sock, files>>
  BY <1>1, <1>3, RecordStep DEF Continues, Labels
<1> QED BY <1>2, <1>3 DEF Call

LEMMA FailStep ==
  ASSUME Inv, NEW w \in Workers, RecvFails(w)
  PROVE  Inv' /\ UNCHANGED files /\ (S!Part(w) \/ UNCHANGED S!vars)
<1>1. pc[w] \notin {"idle", "complain", "log"} /\ Done(w, IF pc[w] = "begin" THEN "" ELSE "Error receiving")
  BY DEF RecvFails, Reading
<1> QED BY <1>1, DoneCloses, RecordStep

LEMMA KeepOpenStep ==
  ASSUME Inv, NEW w \in Workers, KeepOpen(w) PROVE Inv' /\ S!Part(w) /\ UNCHANGED files
<1>1. /\ pc[w] = "handling" /\ sock' = [sock EXCEPT ![w] = "none"] /\ UNCHANGED <<queue, files>>
      /\ Park(w) \/ AnswerPoll(w)
  BY DEF KeepOpen
<1>2. CASE Park(w)
  BY <1>1, <1>2, PartStep DEF Park, Left
<1>3. CASE AnswerPoll(w)
  <2>1. PICK label \in {"complain", "log"} : pc' = [pc EXCEPT ![w] = label]
    BY <1>3 DEF AnswerPoll
  <2> QED BY <1>1, <1>3, <2>1, PartStep DEF AnswerPoll
<1> QED BY <1>1, <1>2, <1>3

LEMMA LogStep ==
  ASSUME Inv, NEW w \in Workers, Log(w) PROVE Inv' /\ UNCHANGED files /\ UNCHANGED S!vars
<1>1. /\ pc[w] \in {"complain", "log"} /\ UNCHANGED <<place, queue, files>>
      /\ \/ pc' = [pc EXCEPT ![w] = "log"] /\ UNCHANGED sock
         \/ pc' = [pc EXCEPT ![w] = "idle"] /\ sock' = [sock EXCEPT ![w] = "none"]
  BY DEF Log, Idle
<1>2. sock[w] = "none"
  BY <1>1 DEF Inv, IdleHoldsNone
<1>3. UNCHANGED sock
  BY <1>1, <1>2 DEF Inv, Typed
<1> QED BY <1>1, <1>2, <1>3 DEF Inv, Typed, IdleHoldsNone, S!vars

LEMMA DeliverStep ==
  ASSUME Inv, NEW c \in Connections, Delivery(c) PROVE Inv' /\ UNCHANGED S!vars
<1>1. UNCHANGED <<place, queue, pc, sock>>
  BY DEF Delivery, Deliver
<1> QED BY <1>1, NothingMoves

LEMMA ClosePollStep ==
  ASSUME Inv, NEW c \in Connections, ClosePoll(c) PROVE Inv' /\ S!Deliver(c)
<1>1. /\ place[c] = "parked" /\ place' = [place EXCEPT ![c] = "closed"]
      /\ UNCHANGED <<queue, pc, sock>>
  BY DEF ClosePoll
<1> QED BY <1>1 DEF Inv, Typed, IdleHoldsNone, S!Deliver

LEMMA WorkStep ==
  ASSUME Inv, NEW w \in Workers, Work(w)
  PROVE  /\ Inv'
         /\ \/ Dequeue(w) /\ S!Take(w)
            \/ UNCHANGED files /\ (S!Part(w) \/ UNCHANGED S!vars)
<1>1. CASE Recv(w)
  BY <1>1, NothingMoves DEF Recv
<1>2. CASE Answer(w)
  BY <1>2, PartStep DEF Answer, Idle
<1> QED BY <1>1, <1>2, KeepOpenStep, LogStep, DequeueStep, FailStep, BeginStep, ParamsStep,
        StdinStep, CallStep DEF Work

LEMMA NextStep == ASSUME Inv, [Next]_vars PROVE Inv' /\ [S!Next]_(S!vars)
<1>1. ASSUME NEW w \in Workers, Work(w)
      PROVE  Inv' /\ (S!Take(w) \/ S!Part(w) \/ UNCHANGED S!vars)
  BY <1>1, WorkStep
<1>2. CASE UNCHANGED vars
  BY <1>2, NothingMoves DEF vars, conns
<1> QED BY <1>1, <1>2, AcceptStep, DeliverStep, ClosePollStep DEF Next, S!Next

-----------------------------------------------------------------------------
(* The invariant of the streams.                                            *)

Records == UNION {Range(s) : s \in AllStreams}
Byte    == [rec : Records, at : Nat]
Ids     == {0} \cup {r.id : r \in Records}
Types   == {"STDERR", "STDOUT", "STDOUT end", "STDERR end", "END_REQUEST",
            "late STDERR"}
Message == [type : Types, id : Ids]

\* at[i] is the place up to which the first i records of s reach.
Reaches(s, at) ==
  /\ at \in [0..Len(s) -> Nat] /\ at[0] = 0 /\ at[Len(s)] = Len(Bytes[s])
  /\ \A i \in 1..Len(s) :
       /\ at[i] = at[i-1] + Size(s[i])
       /\ \A k \in 1..Size(s[i]) : Bytes[s][at[i-1] + k] = [rec |-> s[i], at |-> k]
  /\ \A i, j \in 0..Len(s) : i <= j => at[i] <= at[j]

At(s, i) == (CHOOSE at : Reaches(s, at))[i]

StreamTyped ==
  /\ stream \in [Connections -> AllStreams \cup {<<>>}]
  /\ received \in [Connections -> Nat]
  /\ got \in [Connections -> Seq(Records)]
  /\ out \in [Connections -> Seq(Message)]
  /\ asked \in [Connections -> {"no", "yes", "parked"}]
  /\ buf \in [Workers -> Seq(Byte)]
  /\ used \in [Workers -> Nat]
  /\ id \in [Workers -> Ids]

\* What was sent ends no request, or ends it with its last record but late lines.
Open(o)      == \A i \in 1..Len(o) : o[i].type # "END_REQUEST"
EndsAt(o, k) == /\ k \in 1..Len(o) /\ o[k].type = "END_REQUEST"
                /\ \A i \in 1..Len(o) : i # k => o[i].type # "END_REQUEST"
                /\ \A i \in 1..Len(o) : i > k => o[i].type = "late STDERR"
Ended(o)     == \E k \in 1..Len(o) : EndsAt(o, k)

\* What was sent bears one number, late lines excepted.
Bears(o, n) == \A i \in 1..Len(o) : o[i].type = "late STDERR" \/ o[i].id = n

\* Of a connection: a worker was handed the first records of its stream, nobody reads one that
\* is not with a worker, and only the answer to a request that was handled ends.
ConnectionOk(c) ==
  /\ place[c] # "new" => stream[c] \in AllStreams
  /\ place[c] = "new" => stream[c] = <<>>
  /\ place[c] = "new" => out[c] = <<>>
  /\ place[c] \in {"new", "queued"} => received[c] = 0 /\ got[c] = <<>> /\ asked[c] = "no"
  /\ Len(got[c]) <= Len(stream[c])
  /\ \A i \in 1..Len(got[c]) : got[c][i] = stream[c][i]
  /\ place[c] = "parked" => asked[c] = "parked"
  /\ asked[c] = "parked" => place[c] \in {"parked", "closed"}
  /\ place[c] = "closed" => IF asked[c] = "no" THEN Open(out[c]) ELSE Ended(out[c])
  /\ place[c] = "parked" => Open(out[c]) \/ Ended(out[c])
  /\ place[c] \notin {"parked", "closed"} => Open(out[c])
  /\ asked[c] # "parked" => Bears(out[c], stream[c][1].id)

\* Of a worker and its connection: what it has in its buffer are the bytes that were received
\* behind the records it was handed, and it knows the number of the request.
Unread(w) == LET c == sock[w]
                 n == At(stream[c], Len(got[c]))
             IN /\ used[w] <= Len(buf[w])
                /\ received[c] <= Len(Bytes[stream[c]])
                /\ received[c] = n + (Len(buf[w]) - used[w])
                /\ \A k \in 1..(Len(buf[w]) - used[w]) :
                     buf[w][used[w] + k] = Bytes[stream[c]][n + k]

WorkerOk(w) ==
  /\ pc[w] = "idle" => buf[w] = <<>> /\ used[w] = 0
  /\ pc[w] \notin {"idle", "complain", "log"} => Unread(w)
  /\ pc[w] = "begin" => got[sock[w]] = <<>>
  /\ pc[w] \notin {"idle", "complain", "log", "begin"} =>
       got[sock[w]] # <<>> /\ id[w] = stream[sock[w]][1].id
  /\ pc[w] \notin {"idle", "complain", "log"} => asked[sock[w]] = IF pc[w] = "handling" THEN "yes" ELSE "no"

StreamInv ==
  /\ Inv /\ S!Inv /\ StreamTyped
  /\ \A c \in Connections : ConnectionOk(c)
  /\ \A w \in Workers : WorkerOk(w)

\* SocketsProofs and this module mean the same FlattenSeq.
LEMMA SameFlatten == ASSUME NEW ss PROVE S!FlattenSeq(ss) = FlattenSeq(ss)
BY Zenon DEF FlattenSeq, S!FlattenSeq

LEMMA StreamFacts ==
  ASSUME NEW s \in AllStreams
  PROVE  /\ s \in Seq(Records) /\ s # <<>> /\ Len(s) \in Nat /\ 1 \in 1..Len(s)
         /\ \A i \in 1..Len(s) : s[i] \in Records
<1>1. s \in Seq(Range(s)) /\ s # <<>>
  BY FastCgiAssumption
<1>2. Range(s) \subseteq Records
  BY DEF Records
<1>3. \A i \in 1..Len(s) : s[i] \in Range(s)
  BY <1>1
<1>4. s \in Seq(Records)
  BY <1>1, <1>2, <1>3
<1> QED BY <1>1, <1>4

LEMMA RecordFacts ==
  ASSUME NEW r \in Records
  PROVE  /\ Size(r) \in Nat /\ Size(r) > 0 /\ Len(r.content) \in Nat
         /\ r.id \in Ids
<1>1. r.padding \in Nat /\ r.content \in Seq(Range(r.content))
  BY FastCgiAssumption DEF Records
<1>2. Len(r.content) \in Nat
  BY <1>1
<1> QED BY <1>1, <1>2, FastCgiAssumption DEF Size, Ids

\* The bytes of each record.
Block(r)  == [k \in 1..Size(r) |-> [rec |-> r, at |-> k]]
Blocks(s) == [i \in 1..Len(s) |-> Block(s[i])]

LEMMA BlockFacts ==
  ASSUME NEW r \in Records
  PROVE  /\ Block(r) \in Seq(Byte) /\ Len(Block(r)) = Size(r)
         /\ \A k \in 1..Size(r) : Block(r)[k] = [rec |-> r, at |-> k]
<1>1. Size(r) \in Nat
  BY RecordFacts
<1>2. \A k \in 1..Size(r) : [rec |-> r, at |-> k] \in Byte
  BY <1>1 DEF Byte
<1> QED BY <1>1, <1>2 DEF Block

\* The records of a stream have their places among its bytes.
LEMMA StreamPlaces ==
  ASSUME NEW s \in AllStreams
  PROVE  Bytes[s] \in Seq(Byte) /\ \E at : Reaches(s, at)
<1>1. s \in Seq(Records) /\ Len(s) \in Nat /\ \A i \in 1..Len(s) : s[i] \in Records
  BY StreamFacts
<1> DEFINE bs == Blocks(s)
<1>2. bs \in Seq(Seq(Byte)) /\ Len(bs) = Len(s) /\ \A i \in 1..Len(s) : bs[i] = Block(s[i])
  BY <1>1, BlockFacts DEF Blocks
<1>3. Bytes[s] = FlattenSeq(bs)
  BY Zenon DEF Bytes, Blocks, Block
<1>4. S!FlattenSeq(bs) = FlattenSeq(bs)
  BY SameFlatten
<1> HIDE DEF bs
<1>5. Bytes[s] \in Seq(Byte)
  BY <1>2, <1>3, <1>4, S!FlattenType
<1>6. PICK at \in [0..Len(bs) -> Nat] :
           /\ at[0] = 0 /\ at[Len(bs)] = Len(FlattenSeq(bs))
           /\ \A i \in 1..Len(bs) :
                /\ at[i] = at[i-1] + Len(bs[i])
                /\ \A k \in 1..Len(bs[i]) : FlattenSeq(bs)[at[i-1] + k] = bs[i][k]
           /\ \A i, j \in 0..Len(bs) : i <= j => at[i] <= at[j]
  BY <1>2, <1>4, S!FlattenPlaces
<1>7. ASSUME NEW i \in 1..Len(s)
      PROVE  /\ at[i] = at[i-1] + Size(s[i])
             /\ \A k \in 1..Size(s[i]) : Bytes[s][at[i-1] + k] = [rec |-> s[i], at |-> k]
  <2>1. /\ bs[i] = Block(s[i]) /\ s[i] \in Records
        /\ at[i] = at[i-1] + Len(bs[i])
        /\ \A k \in 1..Len(bs[i]) : Bytes[s][at[i-1] + k] = bs[i][k]
    BY <1>1, <1>2, <1>3, <1>6
  <2>2. Len(bs[i]) = Size(s[i]) /\ \A k \in 1..Size(s[i]) : bs[i][k] = [rec |-> s[i], at |-> k]
    BY <2>1, BlockFacts
  <2> QED BY <2>1, <2>2
<1>8. Reaches(s, at)
  BY <1>2, <1>3, <1>6, <1>7 DEF Reaches
<1> QED BY <1>5, <1>8

\* What the proofs use of them.
LEMMA Places ==
  ASSUME NEW s \in AllStreams
  PROVE  /\ Bytes[s] \in Seq(Byte) /\ Len(Bytes[s]) \in Nat
         /\ At(s, 0) = 0 /\ At(s, Len(s)) = Len(Bytes[s])
         /\ \A i \in 0..Len(s) : At(s, i) \in Nat /\ At(s, i) <= Len(Bytes[s])
         /\ \A i \in 1..Len(s) :
              /\ At(s, i) = At(s, i-1) + Size(s[i])
              /\ \A k \in 1..Size(s[i]) : Bytes[s][At(s, i-1) + k] = [rec |-> s[i], at |-> k]
<1> DEFINE at == CHOOSE at : Reaches(s, at)
<1>1. Bytes[s] \in Seq(Byte) /\ Reaches(s, at)
  BY StreamPlaces, Zenon
<1>2. \A i : At(s, i) = at[i]
  BY DEF At
<1>3. Len(s) \in Nat
  BY StreamFacts
<1> HIDE DEF at
<1>4. Len(Bytes[s]) \in Nat
  BY <1>1
<1>5. at \in [0..Len(s) -> Nat] /\ at[0] = 0 /\ at[Len(s)] = Len(Bytes[s])
  BY <1>1 DEF Reaches
<1>6. \A i \in 0..Len(s) : at[i] \in Nat /\ at[i] <= Len(Bytes[s])
  <2>1. \A i \in 0..Len(s) : Len(s) \in 0..Len(s) /\ i <= Len(s)
    BY <1>3
  <2> QED BY <2>1, <1>1, <1>5 DEF Reaches
<1>7. \A i \in 1..Len(s) :
        /\ at[i] = at[i-1] + Size(s[i])
        /\ \A k \in 1..Size(s[i]) : Bytes[s][at[i-1] + k] = [rec |-> s[i], at |-> k]
  BY <1>1 DEF Reaches
<1>8. At(s, 0) = 0 /\ At(s, Len(s)) = Len(Bytes[s])
  BY <1>2, <1>5
<1>9. \A i \in 0..Len(s) : At(s, i) \in Nat /\ At(s, i) <= Len(Bytes[s])
  BY <1>2, <1>6
<1>10. ASSUME NEW i \in 1..Len(s)
       PROVE  /\ At(s, i) = At(s, i-1) + Size(s[i])
              /\ \A k \in 1..Size(s[i]) : Bytes[s][At(s, i-1) + k] = [rec |-> s[i], at |-> k]
  <2>1. At(s, i) = at[i] /\ At(s, i-1) = at[i-1]
    BY <1>2
  <2> QED BY <2>1, <1>7
<1> QED BY <1>1, <1>4, <1>8, <1>9, <1>10

-----------------------------------------------------------------------------
(* What a step leaves alone.                                                *)

SameConnection(d) ==
  /\ place'[d] = place[d] /\ stream'[d] = stream[d] /\ received'[d] = received[d]
  /\ got'[d] = got[d] /\ out'[d] = out[d] /\ asked'[d] = asked[d]

SameWorker(v) == /\ pc'[v] = pc[v] /\ sock'[v] = sock[v]
                 /\ buf'[v] = buf[v] /\ used'[v] = used[v] /\ id'[v] = id[v]

\* A step touches one connection and those who hold it.
LEMMA Frame ==
  ASSUME StreamInv, Inv', S!Inv', StreamTyped', NEW c \in Connections, NEW T \in SUBSET Workers,
         \A d \in Connections : d # c => SameConnection(d),
         \A v \in Workers \ T : SameWorker(v) /\ sock[v] # c,
         ConnectionOk(c)', \A v \in T : WorkerOk(v)'
  PROVE  StreamInv'
<1>1. ASSUME NEW d \in Connections PROVE ConnectionOk(d)'
  <2>1. CASE d = c
    BY <2>1
  <2>2. CASE d # c
    BY <2>2 DEF StreamInv, SameConnection, ConnectionOk
  <2> QED BY <2>1, <2>2
<1>2. ASSUME NEW v \in Workers PROVE WorkerOk(v)'
  <2>1. CASE v \in T
    BY <2>1
  <2>2. CASE v \notin T
    <3>1. SameWorker(v) /\ sock[v] # c /\ WorkerOk(v)
      BY <2>2 DEF StreamInv
    <3>2. CASE pc[v] \in {"idle", "complain", "log"}
      BY <3>1, <3>2 DEF SameWorker, WorkerOk
    <3>3. CASE pc[v] \notin {"idle", "complain", "log"}
      <4>1. SameConnection(sock[v])
        BY <3>1, <3>3 DEF StreamInv, Inv, Typed, IdleHoldsNone
      <4> QED BY <3>1, <3>3, <4>1 DEF SameWorker, SameConnection, WorkerOk, Unread
    <3> QED BY <3>2, <3>3
  <2> QED BY <2>1, <2>2
<1> QED BY <1>1, <1>2 DEF StreamInv

\* ... one connection that no worker holds, or one worker and the connection it holds.
LEMMA FrameOfConnection ==
  ASSUME StreamInv, Inv', S!Inv', StreamTyped', NEW c \in Connections,
         \A d \in Connections : d # c => SameConnection(d),
         \A v \in Workers : SameWorker(v) /\ sock[v] # c,
         ConnectionOk(c)'
  PROVE  StreamInv'
<1>1. {} \in SUBSET Workers
  OBVIOUS
<1>2. \A v \in {} : WorkerOk(v)'
  OBVIOUS
<1>3. \A v \in Workers \ {} : SameWorker(v) /\ sock[v] # c
  OBVIOUS
<1> QED BY <1>1, <1>2, <1>3, Frame, Zenon

LEMMA FrameOfWorker ==
  ASSUME StreamInv, Inv', S!Inv', StreamTyped', NEW c \in Connections, NEW w \in Workers,
         \A d \in Connections : d # c => SameConnection(d),
         \A v \in Workers \ {w} : SameWorker(v) /\ sock[v] # c,
         ConnectionOk(c)', WorkerOk(w)'
  PROVE  StreamInv'
<1>1. {w} \in SUBSET Workers
  OBVIOUS
<1>2. \A v \in {w} : WorkerOk(v)'
  OBVIOUS
<1> QED BY <1>1, <1>2, Frame, Zenon

\* A busy worker has a connection of its own.
LEMMA Holds ==
  ASSUME StreamInv, NEW w \in Workers, pc[w] \notin {"idle", "complain", "log"}
  PROVE  /\ sock[w] \in Connections /\ place[sock[w]] = "worker"
         /\ \A v \in Workers : v # w => sock[v] # sock[w]
         /\ stream[sock[w]] \in AllStreams
         /\ Len(got[sock[w]]) \in 0..Len(stream[sock[w]])
         /\ ConnectionOk(sock[w]) /\ WorkerOk(w) /\ Unread(w)
<1>1. sock[w] \in Connections
  BY DEF StreamInv, Inv, Typed, IdleHoldsNone
<1>2. place[sock[w]] = "worker" /\ \A v \in Workers : v # w => sock[v] # sock[w]
  BY <1>1 DEF StreamInv, S!Inv, S!WorkerHolds
<1>3. ConnectionOk(sock[w]) /\ WorkerOk(w) /\ Unread(w)
  BY <1>1 DEF StreamInv, WorkerOk
<1>4. stream[sock[w]] \in AllStreams /\ Len(got[sock[w]]) <= Len(stream[sock[w]])
  BY <1>2, <1>3 DEF ConnectionOk
<1>5. Len(got[sock[w]]) \in Nat
  BY <1>1 DEF StreamInv, StreamTyped
<1> QED BY <1>1, <1>2, <1>3, <1>4, <1>5, StreamFacts

\* ... and has not read the rest of its buffer.
LEMMA PendingFacts ==
  ASSUME StreamInv, NEW w \in Workers, pc[w] \notin {"idle", "complain", "log"}
  PROVE  /\ Pending(w) \in Seq(Byte) /\ Len(Pending(w)) = Len(buf[w]) - used[w]
         /\ Len(buf[w]) \in Nat /\ used[w] \in Nat /\ used[w] <= Len(buf[w])
         /\ Len(Pending(w)) \in Nat
         /\ \A k \in 1..Len(Pending(w)) : Pending(w)[k] = buf[w][used[w] + k]
<1>1. buf[w] \in Seq(Byte) /\ used[w] \in Nat /\ used[w] <= Len(buf[w])
  BY Holds DEF StreamInv, StreamTyped, Unread
<1> DEFINE b == buf[w]
           u == used[w]
<1>2. Pending(w) = SubSeq(b, u + 1, Len(b))
  BY DEF Pending
<1> HIDE DEF b, u
<1>3. b \in Seq(Byte) /\ u \in Nat /\ u <= Len(b) /\ Len(b) \in Nat
  BY <1>1 DEF b, u
<1>4. /\ SubSeq(b, u + 1, Len(b)) \in Seq(Byte) /\ Len(SubSeq(b, u + 1, Len(b))) = Len(b) - u
      /\ \A k \in 1..(Len(b) - u) : SubSeq(b, u + 1, Len(b))[k] = b[u + k]
  BY <1>3
<1> QED BY <1>2, <1>3, <1>4 DEF b, u

\* A complete record at the front of the buffer is the next one of the stream.
LEMMA NextRecord ==
  ASSUME StreamInv, NEW w \in Workers, pc[w] \notin {"idle", "complain", "log"}, Complete(Pending(w))
  PROVE  LET c == sock[w]
             n == Len(got[c])
         IN /\ n + 1 \in 1..Len(stream[c]) /\ Header(Pending(w)) = stream[c][n + 1]
            /\ Header(Pending(w)) \in Records
            /\ Size(Header(Pending(w))) <= Len(Pending(w))
<1> DEFINE c == sock[w]
           s == stream[c]
           n == Len(got[c])
           p == Pending(w)
<1>1. s \in AllStreams /\ n \in 0..Len(s) /\ Unread(w) /\ c \in Connections
  BY Holds
<1>2. Len(s) \in Nat
  BY <1>1, StreamFacts
<1>3. p # <<>> /\ Len(p) >= 1
  BY PendingFacts, FastCgiAssumption DEF Complete
<1>4. received[c] = At(s, n) + Len(p) /\ received[c] <= Len(Bytes[s])
  BY <1>1, PendingFacts DEF Unread
<1>5. At(s, n) \in Nat /\ Len(Bytes[s]) \in Nat /\ At(s, Len(s)) = Len(Bytes[s])
  BY <1>1, Places
<1>6. n # Len(s)
  BY <1>3, <1>4, <1>5, PendingFacts
<1>7. n + 1 \in 1..Len(s) /\ (n + 1) - 1 = n
  BY <1>1, <1>2, <1>6
<1>8. s[n + 1] \in Records
  BY <1>1, <1>7, StreamFacts
<1>9. p[1] = Bytes[s][At(s, n) + 1]
  <2>1. /\ 1 \in 1..Len(p) /\ p[1] = buf[w][used[w] + 1] /\ 1 \in 1..(Len(buf[w]) - used[w])
    BY <1>3, PendingFacts
  <2> QED BY <2>1, <1>1 DEF Unread
<1>10. Bytes[s][At(s, n) + 1] = [rec |-> s[n + 1], at |-> 1]
  <2>1. 1 \in 1..Size(s[n + 1])
    BY <1>8, RecordFacts
  <2>2. \A k \in 1..Size(s[n + 1]) : Bytes[s][At(s, (n + 1) - 1) + k] = [rec |-> s[n + 1], at |-> k]
    <3> HIDE DEF s, n
    <3> QED BY <1>1, <1>7, Places
  <2> HIDE DEF s, n
  <2> QED BY <1>7, <2>1, <2>2
<1>11. Header(p) = s[n + 1]
  BY <1>9, <1>10 DEF Header
<1> QED BY <1>7, <1>8, <1>11 DEF Complete

-----------------------------------------------------------------------------
(* What is sent.                                                            *)

LEMMA SentOpen ==
  ASSUME NEW o \in Seq(Message), NEW m \in Seq(Message), Open(o)
  PROVE  /\ o \o m \in Seq(Message)
         /\ Open(m) => Open(o \o m)
         /\ Ended(m) => Ended(o \o m)
         /\ \A n : Bears(o, n) /\ Bears(m, n) => Bears(o \o m, n)
<1> DEFINE j == o \o m
<1>1. j \in Seq(Message) /\ Len(o) \in Nat /\ Len(m) \in Nat /\ Len(j) = Len(o) + Len(m)
  OBVIOUS
<1>2. /\ \A i \in 1..Len(o) : j[i] = o[i]
      /\ \A i \in 1..Len(m) : j[Len(o) + i] = m[i]
  OBVIOUS
<1> HIDE DEF j
<1>3. \A i \in 1..Len(j) : \/ i \in 1..Len(o)
                           \/ i - Len(o) \in 1..Len(m) /\ i = Len(o) + (i - Len(o))
  BY <1>1
<1>4. Open(m) => Open(j)
  BY <1>2, <1>3 DEF Open
<1>5. ASSUME Ended(m) PROVE Ended(j)
  <2>1. PICK k \in 1..Len(m) : EndsAt(m, k)
    BY <1>5 DEF Ended
  <2> DEFINE e == Len(o) + k
  <2>2. e \in 1..Len(j) /\ j[e].type = "END_REQUEST"
    <3>1. j[e] = m[k] /\ e \in 1..Len(j)
      BY <1>1, <1>2
    <3> QED BY <2>1, <3>1 DEF EndsAt
  <2>3. ASSUME NEW i \in 1..Len(j)
        PROVE  /\ i # e => j[i].type # "END_REQUEST"
               /\ i > e => j[i].type = "late STDERR"
    <3>1. CASE i \in 1..Len(o)
      <4>1. j[i] = o[i] /\ ~(i > e)
        BY <3>1, <1>1, <1>2
      <4> QED BY <3>1, <4>1 DEF Open
    <3>2. CASE i - Len(o) \in 1..Len(m) /\ i = Len(o) + (i - Len(o))
      <4>1. j[i] = m[i - Len(o)] /\ (i # e => i - Len(o) # k) /\ (i > e => i - Len(o) > k)
        BY <3>2, <1>1, <1>2
      <4> QED BY <3>2, <4>1, <2>1 DEF EndsAt
    <3> QED BY <3>1, <3>2, <1>3
  <2> HIDE DEF e
  <2>4. EndsAt(j, e)
    BY <2>2, <2>3 DEF EndsAt
  <2> QED BY <2>2, <2>4 DEF Ended
<1>6. \A n : Bears(o, n) /\ Bears(m, n) => Bears(j, n)
  <2> SUFFICES ASSUME NEW n, Bears(o, n), Bears(m, n), NEW i \in 1..Len(j)
               PROVE  j[i].type = "late STDERR" \/ j[i].id = n
    BY DEF Bears
  <2>1. CASE i \in 1..Len(o)
    BY <2>1, <1>2 DEF Bears
  <2>2. CASE i - Len(o) \in 1..Len(m) /\ i = Len(o) + (i - Len(o))
    <3>1. j[i] = m[i - Len(o)]
      BY <2>2, <1>2
    <3> QED BY <2>2, <3>1 DEF Bears
  <2> QED BY <2>1, <2>2, <1>3
<1> QED BY <1>1, <1>4, <1>5, <1>6 DEF j

\* A line that comes late, or none.
Late(m) == \A i \in 1..Len(m) : m[i].type = "late STDERR"

LEMMA SentLate ==
  ASSUME NEW o \in Seq(Message), NEW m \in Seq(Message), Late(m)
  PROVE  /\ o \o m \in Seq(Message)
         /\ Open(o) => Open(o \o m)
         /\ Ended(o) => Ended(o \o m)
         /\ \A n : Bears(o, n) => Bears(o \o m, n)
<1>1. ASSUME Open(o) PROVE Open(o \o m)
  <2>1. Open(m)
    BY DEF Late, Open
  <2> QED BY <1>1, <2>1, SentOpen
<1> DEFINE j == o \o m
<1>2. j \in Seq(Message) /\ Len(o) \in Nat /\ Len(m) \in Nat /\ Len(j) = Len(o) + Len(m)
  OBVIOUS
<1>3. /\ \A i \in 1..Len(o) : j[i] = o[i]
      /\ \A i \in 1..Len(m) : j[Len(o) + i] = m[i]
  OBVIOUS
<1> HIDE DEF j
<1>4. \A i \in 1..Len(j) : \/ i \in 1..Len(o)
                           \/ i - Len(o) \in 1..Len(m) /\ i = Len(o) + (i - Len(o))
  BY <1>2
<1>5. \A i \in 1..Len(j) : i \in 1..Len(o) \/ (i > Len(o) /\ j[i].type = "late STDERR")
  <2> SUFFICES ASSUME NEW i \in 1..Len(j), i \notin 1..Len(o)
               PROVE  i > Len(o) /\ j[i].type = "late STDERR"
    OBVIOUS
  <2>1. i - Len(o) \in 1..Len(m) /\ i = Len(o) + (i - Len(o))
    BY <1>4
  <2>2. j[i] = m[i - Len(o)]
    BY <1>3, <2>1
  <2>3. i > Len(o)
    BY <1>2, <2>1
  <2> QED BY <2>1, <2>2, <2>3 DEF Late
<1>6. ASSUME Ended(o) PROVE Ended(j)
  <2>1. PICK k \in 1..Len(o) : EndsAt(o, k)
    BY <1>6 DEF Ended
  <2>2. k \in 1..Len(j) /\ j[k] = o[k]
    BY <1>2, <1>3
  <2>3. EndsAt(j, k)
    BY <1>2, <1>3, <1>5, <2>1, <2>2 DEF EndsAt
  <2> QED BY <2>2, <2>3 DEF Ended
<1>7. ASSUME NEW n, Bears(o, n) PROVE Bears(j, n)
  BY <1>3, <1>5, <1>7 DEF Bears
<1> QED BY <1>1, <1>2, <1>6, <1>7 DEF j

LEMMA OneSent ==
  ASSUME NEW m \in Message
  PROVE  <<m>> \in Seq(Message) /\ Len(<<m>>) = 1 /\ \A i \in 1..Len(<<m>>) : <<m>>[i] = m
OBVIOUS

LEMMA NoneSent ==
  /\ <<>> \in Seq(Message) /\ Open(<<>>) /\ Late(<<>>) /\ \A n : Bears(<<>>, n)
<1>1. <<>> \in Seq(Message) /\ Len(<<>>) = 0
  OBVIOUS
<1>2. \A i \in 1..Len(<<>>) : FALSE
  BY <1>1
<1> QED BY <1>1, <1>2 DEF Open, Late, Bears

LEMMA SentFacts ==
  ASSUME NEW type \in Types, NEW n \in Ids
  PROVE  Sent(type, n) \in Message /\ Sent(type, n).type = type /\ Sent(type, n).id = n
BY DEF Sent, Message

\* A complaint.
Silent(text) == text = ""

LEMMA Complaint ==
  ASSUME NEW w \in Workers, NEW text, NEW n \in Ids, Silent(text) \/ id'[w] = n
  PROVE  Err(w, text) \in Seq(Message) /\ Open(Err(w, text)) /\ Bears(Err(w, text), n)
<1>1. CASE Silent(text)
  <2>1. Err(w, text) = <<>>
    BY <1>1, Zenon DEF Err, Silent
  <2>2. <<>> \in Seq(Message) /\ Len(<<>>) = 0
    OBVIOUS
  <2> QED BY <2>1, <2>2 DEF Open, Bears
<1>2. CASE ~Silent(text)
  <2> DEFINE m == Sent("STDERR", n)
  <2>1. Err(w, text) = <<m>>
    BY <1>2, Zenon DEF Err, Silent
  <2>2. m \in Message /\ m.type = "STDERR" /\ m.id = n
    <3>1. "STDERR" \in Types
      BY DEF Types
    <3> QED BY <3>1, SentFacts
  <2> HIDE DEF m
  <2>3. <<m>> \in Seq(Message) /\ \A i \in 1..Len(<<m>>) : <<m>>[i] = m
    BY <2>2, OneSent
  <2> DEFINE q == <<m>>
  <2> HIDE DEF q
  <2>4. Open(q) /\ Bears(q, n)
    BY <2>2, <2>3 DEF Open, Bears, q
  <2> QED BY <2>1, <2>3, <2>4 DEF q
<1> QED BY <1>1, <1>2

\* Some records of one type.
Some(type, n, k) == [i \in 1..k |-> Sent(type, n)]

LEMMA SomeSent ==
  ASSUME NEW n \in Ids, NEW type \in Types, type # "END_REQUEST", NEW k \in 0..2
  PROVE  /\ Some(type, n, k) \in Seq(Message)
         /\ Open(Some(type, n, k)) /\ Bears(Some(type, n, k), n)
<1> DEFINE m == Sent(type, n)
           p == [i \in 1..k |-> m]
<1>1. m \in Message /\ m.type = type /\ m.id = n
  BY SentFacts
<1>2. Some(type, n, k) = p
  BY Zenon DEF Some
<1> HIDE DEF m
<1>3. p \in Seq(Message) /\ Len(p) = k /\ \A i \in 1..Len(p) : p[i] = m
  BY <1>1
<1> HIDE DEF p
<1>4. Open(p) /\ Bears(p, n)
  BY <1>1, <1>3 DEF Open, Bears
<1> QED BY <1>2, <1>3, <1>4

LEMMA AppendSome ==
  ASSUME NEW o \in Seq(Message), NEW n, NEW type, Sent(type, n) \in Message
  PROVE  Append(o, Sent(type, n)) = o \o Some(type, n, 1)
<1> DEFINE m == Sent(type, n)
<1>1. Some(type, n, 1) = [i \in 1..1 |-> m]
  BY Zenon DEF Some
<1> HIDE DEF m
<1>2. m \in Message
  BY DEF m
<1>3. [i \in 1..1 |-> m] = <<m>>
  OBVIOUS
<1>4. Append(o, m) = o \o <<m>>
  BY <1>2
<1> QED BY <1>1, <1>3, <1>4 DEF m

\* A page, and the ends.
LEMMA PageFacts ==
  ASSUME NEW n \in Ids, NEW page \in Pages(n)
  PROVE  page \in Seq(Message) /\ Open(page) /\ Bears(page, n)
<1>1. PICK k \in 0..1, m \in 1..2 : page = Some("STDERR", n, k) \o Some("STDOUT", n, m)
  BY DEF Pages, Some
<1>2. "STDERR" \in Types /\ "STDOUT" \in Types /\ k \in 0..2 /\ m \in 0..2
  BY DEF Types
<1>3. /\ Some("STDERR", n, k) \in Seq(Message)
      /\ Open(Some("STDERR", n, k)) /\ Bears(Some("STDERR", n, k), n)
  BY <1>2, SomeSent
<1>4. /\ Some("STDOUT", n, m) \in Seq(Message)
      /\ Open(Some("STDOUT", n, m)) /\ Bears(Some("STDOUT", n, m), n)
  BY <1>2, SomeSent
<1> QED BY <1>1, <1>3, <1>4, SentOpen

LEMMA Ends ==
  ASSUME NEW n \in Ids
  PROVE  Ending(n) \in Seq(Message) /\ Ended(Ending(n)) /\ Bears(Ending(n), n)
<1> DEFINE a == Sent("STDOUT end", n)
           b == Sent("STDERR end", n)
           e == Sent("END_REQUEST", n)
<1>1. /\ Ending(n) = <<a, b, e>> /\ a \in Message /\ b \in Message /\ e \in Message
      /\ a.type # "END_REQUEST" /\ b.type # "END_REQUEST" /\ e.type = "END_REQUEST"
      /\ a.id = n /\ b.id = n /\ e.id = n
  <2>1. Ending(n) = <<a, b, e>>
    BY Zenon DEF Ending
  <2>2. {"STDOUT end", "STDERR end", "END_REQUEST"} \subseteq Types
    BY DEF Types
  <2> QED BY <2>1, <2>2, SentFacts
<1> HIDE DEF a, b, e
<1>2. <<a, b, e>> \in Seq(Message) /\ Len(<<a, b, e>>) = 3 /\ <<a, b, e>> # <<>>
  BY <1>1
<1>3. \A i \in 1..3 : i = 1 \/ i = 2 \/ i = 3
  OBVIOUS
<1>4. <<a, b, e>>[1] = a /\ <<a, b, e>>[2] = b /\ <<a, b, e>>[3] = e
  OBVIOUS
<1> DEFINE q == <<a, b, e>>
<1> HIDE DEF q
<1>5. /\ q \in Seq(Message) /\ Len(q) = 3 /\ 3 \in 1..Len(q) /\ q[3].type = "END_REQUEST"
      /\ \A i \in 1..Len(q) : q[i].id = n /\ (i # 3 => q[i].type # "END_REQUEST") /\ ~(i > 3)
  BY <1>1, <1>2, <1>3, <1>4 DEF q
<1>6. EndsAt(q, 3) /\ Bears(q, n)
  BY <1>5 DEF EndsAt, Bears
<1>7. Ended(q)
  BY <1>5, <1>6 DEF Ended
<1> QED BY <1>1, <1>5, <1>6, <1>7 DEF q

-----------------------------------------------------------------------------
(* Each step keeps the invariant.                                           *)

LEMMA InitStream == Init => StreamInv
<1> SUFFICES ASSUME Init PROVE StreamInv
  OBVIOUS
<1>1. Inv /\ S!Inv
  BY InitInv, S!InitInv, FastCgiAssumption
<1>2. StreamTyped
  BY DEF Init, StreamTyped, Ids
<1>3. \A c \in Connections : ConnectionOk(c)
  BY DEF Init, ConnectionOk, Open, Bears
<1>4. \A w \in Workers : WorkerOk(w)
  BY DEF Init, WorkerOk
<1> QED BY <1>1, <1>2, <1>3, <1>4 DEF StreamInv

LEMMA AcceptStream ==
  ASSUME StreamInv, Inv', S!Inv', NEW c \in Connections, Accept(c)
  PROVE  StreamInv' /\ Stream!Connect(c)
<1>1. PICK s \in Streams[c] : stream' = [stream EXCEPT ![c] = s]
  BY DEF Accept
<1>2. /\ place[c] = "new" /\ place' = [place EXCEPT ![c] = "queued"]
      /\ UNCHANGED <<received, out, got, asked, pc, sock, buf, used, id>>
  BY DEF Accept, input, request
<1>3. s \in AllStreams /\ Len(s) \in Nat
  BY <1>1, StreamFacts DEF AllStreams
<1>4. ConnectionOk(c) /\ place \in [Connections -> {"new", "queued", "worker", "parked", "closed"}]
  BY DEF StreamInv, S!Inv, S!Typed
<1>5. StreamTyped'
  BY <1>1, <1>2, <1>3 DEF StreamInv, StreamTyped
<1>6. \A d \in Connections : d # c => SameConnection(d)
  BY <1>1, <1>2, <1>4 DEF StreamInv, StreamTyped, SameConnection
<1>7. \A v \in Workers : SameWorker(v) /\ sock[v] # c
  BY <1>2 DEF StreamInv, S!Inv, S!WorkerHolds, SameWorker
<1>8. place'[c] = "queued" /\ stream'[c] = s
  BY <1>1, <1>2, <1>4 DEF StreamInv, StreamTyped
<1>9. received[c] = 0 /\ got[c] = <<>> /\ out[c] = <<>> /\ asked[c] = "no" /\ stream[c] = <<>>
  BY <1>2, <1>4 DEF ConnectionOk
<1>10. ConnectionOk(c)'
  BY <1>2, <1>3, <1>8, <1>9 DEF ConnectionOk, Open, Bears
<1>11. StreamInv'
  BY <1>5, <1>6, <1>7, <1>10, FrameOfConnection
<1>12. Stream!Connect(c)
  BY <1>1, <1>2, <1>3, <1>9 DEF Stream!Connect
<1> QED BY <1>11, <1>12

LEMMA DequeueStream ==
  ASSUME StreamInv, Inv', S!Inv', NEW w \in Workers, Dequeue(w)
  PROVE  StreamInv' /\ UNCHANGED <<stream, got>>
<1>0. PICK c \in Connections : c = Head(queue) /\ place[c] = "queued"
  BY DEF Dequeue, StreamInv, S!Inv, S!Typed, S!QueueHolds
<1>1. /\ pc[w] = "idle" /\ queue # <<>> /\ sock' = [sock EXCEPT ![w] = c]
      /\ place' = [place EXCEPT ![c] = "worker"] /\ pc' = [pc EXCEPT ![w] = "begin"]
      /\ UNCHANGED <<stream, received, out, got, asked, buf, used, id>>
  BY <1>0 DEF Dequeue, input
<1>2. c \in Connections /\ place[c] = "queued"
  BY <1>0
<1>3. ConnectionOk(c) /\ place \in [Connections -> {"new", "queued", "worker", "parked", "closed"}]
  BY <1>2 DEF StreamInv, S!Inv, S!Typed
<1>4. StreamTyped'
  BY <1>1 DEF StreamInv, StreamTyped
<1>5. \A d \in Connections : d # c => SameConnection(d)
  BY <1>1, <1>3 DEF SameConnection
<1>6. \A v \in Workers \ {w} : SameWorker(v) /\ sock[v] # c
  BY <1>1, <1>2 DEF StreamInv, Inv, Typed, S!Inv, S!WorkerHolds, SameWorker
<1>7. place'[c] = "worker" /\ sock'[w] = c /\ pc'[w] = "begin"
  BY <1>1, <1>2, <1>3 DEF StreamInv, Inv, Typed
<1>8. received[c] = 0 /\ got[c] = <<>> /\ asked[c] = "no" /\ stream[c] \in AllStreams
  BY <1>2, <1>3 DEF ConnectionOk
<1>9. ConnectionOk(c)'
  BY <1>1, <1>2, <1>3, <1>7, <1>8 DEF ConnectionOk
<1>10. WorkerOk(w)'
  <2>1. buf[w] = <<>> /\ used[w] = 0
    BY <1>1 DEF StreamInv, WorkerOk
  <2>2. At(stream[c], 0) = 0 /\ Len(Bytes[stream[c]]) \in Nat
    BY <1>8, Places
  <2>3. Unread(w)'
    <3>1. sock'[w] = c /\ buf'[w] = <<>> /\ used'[w] = 0 /\ received'[c] = 0 /\ got'[c] = <<>>
          /\ stream' = stream
      BY <1>1, <1>7, <1>8, <2>1
    <3>2. Len(<<>>) = 0
      OBVIOUS
    <3> QED BY <3>1, <3>2, <2>2 DEF Unread
  <2> QED BY <1>1, <1>7, <1>8, <2>3 DEF WorkerOk
<1>11. StreamInv'
  BY <1>2, <1>4, <1>5, <1>6, <1>9, <1>10, FrameOfWorker
<1> QED BY <1>1, <1>11

\* The bytes that arrive are the next ones of the stream.
LEMMA RecvStream ==
  ASSUME StreamInv, Inv', S!Inv', NEW w \in Workers, Recv(w)
  PROVE  StreamInv' /\ UNCHANGED <<stream, got>>
<1>1. pc[w] \notin {"idle", "complain", "log"}
  BY DEF Recv, Reading
<1>0. PICK c \in Connections : c = sock[w]
  BY <1>1, Holds
<1> DEFINE s == stream[c]
           bs == Bytes[s]
           p == Pending(w)
           r == received[c]
           at == At(s, Len(got[c]))
<1>2. PICK n \in 1..(Cap - Len(p)) :
        /\ r + n <= Len(bs)
        /\ buf' = [buf EXCEPT ![w] = p \o SubSeq(bs, r + 1, r + n)]
        /\ received' = [received EXCEPT ![c] = @ + n]
  BY <1>0 DEF Recv
<1>3. used' = [used EXCEPT ![w] = 0] /\ UNCHANGED <<place, stream, out, got, asked, pc, sock, id>>
  BY DEF Recv, request
<1>4. /\ c \in Connections /\ s \in AllStreams /\ ConnectionOk(c) /\ WorkerOk(w) /\ Unread(w)
      /\ \A v \in Workers : v # w => sock[v] # c
      /\ place[c] = "worker" /\ Len(got[c]) \in 0..Len(s)
  BY <1>0, <1>1, Holds
<1>5. bs \in Seq(Byte) /\ Len(bs) \in Nat /\ at \in Nat
  BY <1>4, Places
<1>6. p \in Seq(Byte) /\ Len(p) = Len(buf[w]) - used[w] /\ Len(p) \in Nat
  BY <1>1, PendingFacts
<1>7. r \in Nat /\ r = at + Len(p) /\ \A k \in 1..Len(p) : p[k] = bs[at + k]
  <2>1. r \in Nat
    BY <1>4 DEF StreamInv, StreamTyped
  <2>2. r = at + Len(p)
    BY <1>0, <1>4, <1>6 DEF Unread
  <2>3. \A k \in 1..Len(p) : p[k] = buf[w][used[w] + k]
    BY <1>1, PendingFacts
  <2>4. \A k \in 1..Len(p) : buf[w][used[w] + k] = bs[at + k]
    BY <1>0, <1>4, <1>6 DEF Unread
  <2> QED BY <2>1, <2>2, <2>3, <2>4
<1>8. n \in Nat
  BY <1>6, FastCgiAssumption DEF Cap
<1> DEFINE b == p \o SubSeq(bs, r + 1, r + n)
<1>9. b \in Seq(Byte) /\ Len(b) = Len(p) + n /\ \A k \in 1..Len(b) : b[k] = bs[at + k]
  <2> HIDE DEF s, bs, p, r, at
  <2> DEFINE q == SubSeq(bs, r + 1, r + n)
  <2>1. q \in Seq(Byte) /\ Len(q) = n /\ \A k \in 1..n : q[k] = bs[r + k]
    BY <1>2, <1>5, <1>7, <1>8
  <2> HIDE DEF q
  <2>2. /\ p \o q \in Seq(Byte) /\ Len(p \o q) = Len(p) + n
        /\ \A k \in 1..Len(p) : (p \o q)[k] = p[k]
        /\ \A k \in 1..n : (p \o q)[Len(p) + k] = q[k]
    BY <1>6, <2>1, <1>8
  <2>3. ASSUME NEW k \in 1..(Len(p) + n) PROVE (p \o q)[k] = bs[at + k]
    <3>1. CASE k \in 1..Len(p)
      BY <3>1, <2>2, <1>7
    <3>2. CASE k \notin 1..Len(p)
      <4>1. k - Len(p) \in 1..n /\ Len(p) + (k - Len(p)) = k /\ r + (k - Len(p)) = at + k
        BY <3>2, <1>5, <1>6, <1>7, <1>8
      <4> QED BY <4>1, <2>1, <2>2
    <3> QED BY <3>1, <3>2
  <2>4. b = p \o q
    BY DEF q
  <2> QED BY <2>2, <2>3, <2>4
<1>10. /\ buf' = [buf EXCEPT ![w] = b] /\ received' = [received EXCEPT ![c] = r + n]
       /\ r + n <= Len(bs)
  BY <1>2
<1> HIDE DEF b
<1>11. StreamTyped'
  <2>1. r + n \in Nat
    BY <1>7, <1>8
  <2> HIDE DEF r
  <2> QED BY <1>3, <1>9, <1>10, <2>1 DEF StreamInv, StreamTyped
<1>12. \A d \in Connections : d # c => SameConnection(d)
  BY <1>3, <1>10 DEF StreamInv, StreamTyped, SameConnection
<1>13. \A v \in Workers \ {w} : SameWorker(v) /\ sock[v] # c
  BY <1>3, <1>4, <1>10 DEF StreamInv, StreamTyped, SameWorker
<1>14. ConnectionOk(c)'
  BY <1>3, <1>4 DEF ConnectionOk
<1>15. Unread(w)'
  <2>1. buf'[w] = b /\ received'[c] = r + n /\ used'[w] = 0
    BY <1>3, <1>4, <1>10 DEF StreamInv, StreamTyped
  <2>2. r + n = at + (Len(b) - 0)
    BY <1>5, <1>6, <1>7, <1>8, <1>9
  <2>3. Len(b) \in Nat /\ 0 <= Len(b) /\ Len(b) - 0 = Len(b) /\ \A k \in 1..Len(b) : 0 + k = k
    BY <1>9
  <2> QED BY <1>0, <1>3, <1>9, <1>10, <2>1, <2>2, <2>3, SMTT(30) DEF Unread
<1>16. WorkerOk(w)'
  BY <1>0, <1>1, <1>3, <1>4, <1>15 DEF WorkerOk
<1>17. StreamInv'
  BY <1>4, <1>11, <1>12, <1>13, <1>14, <1>16, FrameOfWorker
<1> QED BY <1>3, <1>17

\* A worker was handed the record at the front of its buffer.
HandedOver(w) == /\ Complete(Pending(w))
                 /\ got' = [got EXCEPT ![sock[w]] = Append(@, Header(Pending(w)))]

LEMMA RecordHanded == ASSUME NEW w \in Workers, NEW l, Record(w, l) PROVE HandedOver(w) /\ pc[w] = l
BY DEF Record, HandedOver

LEMMA HandedFacts ==
  ASSUME StreamInv, NEW w \in Workers, pc[w] \notin {"idle", "complain", "log"}, HandedOver(w),
         NEW c \in Connections, c = sock[w]
  PROVE  /\ got' \in [Connections -> Seq(Records)]
         /\ \A d \in Connections : d # c => got'[d] = got[d]
         /\ got'[c] # <<>> /\ Len(got'[c]) = Len(got[c]) + 1 /\ Len(got'[c]) <= Len(stream[c])
         /\ \A i \in 1..Len(got'[c]) : got'[c][i] = stream[c][i]
         /\ At(stream[c], Len(got'[c])) = At(stream[c], Len(got[c])) + Size(Header(Pending(w)))
         /\ UNCHANGED stream => Stream!Hand(c)
<1> DEFINE g == got[c]
           s == stream[c]
           r == Header(Pending(w))
<1>1. /\ Len(g) + 1 \in 1..Len(s) /\ r = s[Len(g) + 1] /\ r \in Records
      /\ got' = [got EXCEPT ![c] = Append(g, r)]
  BY NextRecord DEF HandedOver
<1>2. s \in AllStreams /\ Len(g) \in Nat /\ g \in Seq(Records) /\ ConnectionOk(c)
  BY Holds DEF StreamInv, StreamTyped
<1>3. \A i \in 1..Len(g) : g[i] = s[i]
  BY <1>2 DEF ConnectionOk
<1>4. Len(s) \in Nat
  BY <1>2, StreamFacts
<1>5. At(s, Len(g) + 1) = At(s, (Len(g) + 1) - 1) + Size(s[Len(g) + 1])
  <2> HIDE DEF g, s, r
  <2> QED BY <1>1, <1>2, Places
<1>6. got'[c] = Append(g, r) /\ \A d \in Connections : d # c => got'[d] = got[d]
  BY <1>1 DEF StreamInv, StreamTyped
<1>7. got' \in [Connections -> Seq(Records)]
  <2>1. Append(g, r) \in Seq(Records)
    BY <1>1, <1>2
  <2> HIDE DEF g, r
  <2> QED BY <1>1, <2>1 DEF StreamInv, StreamTyped
<1>8. UNCHANGED stream => Stream!Hand(c)
  <2>1. Len(g) < Len(s)
    BY <1>1, <1>2, <1>4
  <2> QED BY <1>1, <2>1 DEF Stream!Hand
<1> HIDE DEF g, s, r
<1>9. /\ Append(g, r) # <<>> /\ Len(Append(g, r)) = Len(g) + 1 /\ Len(g) + 1 <= Len(s)
      /\ (Len(g) + 1) - 1 = Len(g)
      /\ \A i \in 1..Len(Append(g, r)) : Append(g, r)[i] = s[i]
  BY <1>1, <1>2, <1>3, <1>4
<1> QED BY <1>1, <1>5, <1>6, <1>7, <1>8, <1>9 DEF g, s, r

\* The worker goes on with its request, whose number it knows.
LEMMA GoOnStream ==
  ASSUME StreamInv, Inv', S!Inv', NEW w \in Workers, pc[w] \in {"begin", "params", "stdin"},
         HandedOver(w), NEW label \in {"params", "stdin", "ready"}, NEW text, GoOn(w, label, text),
         id' \in [Workers -> Ids], \A v \in Workers : v # w => id'[v] = id[v],
         id'[w] = stream[sock[w]][1].id
  PROVE  StreamInv' /\ \E c \in Connections : Stream!Hand(c)
<1>1. PICK c \in Connections : c = sock[w]
  BY Holds
<1> DEFINE s == stream[c]
           r == Header(Pending(w))
           p == Pending(w)
           at == At(s, Len(got[c]))
<1>2. /\ s \in AllStreams /\ ConnectionOk(c) /\ WorkerOk(w) /\ Unread(w)
      /\ \A v \in Workers : v # w => sock[v] # c
      /\ place[c] = "worker" /\ Len(got[c]) \in 0..Len(s)
  BY <1>1, Holds
<1>3. /\ got' \in [Connections -> Seq(Records)]
      /\ \A d \in Connections : d # c => got'[d] = got[d]
      /\ got'[c] # <<>> /\ Len(got'[c]) = Len(got[c]) + 1 /\ Len(got'[c]) <= Len(s)
      /\ \A i \in 1..Len(got'[c]) : got'[c][i] = s[i]
      /\ At(s, Len(got'[c])) = at + Size(r)
      /\ UNCHANGED stream => Stream!Hand(c)
  BY <1>1, HandedFacts
<1>4. /\ buf' = [buf EXCEPT ![w] = p] /\ used' = [used EXCEPT ![w] = Size(r)]
      /\ out' = [out EXCEPT ![c] = @ \o Err(w, text)] /\ pc' = [pc EXCEPT ![w] = label]
      /\ UNCHANGED <<place, stream, received, asked, sock>>
  BY <1>1 DEF GoOn, Skip
<1>5. r \in Records /\ Size(r) <= Len(p)
  BY NextRecord DEF HandedOver
<1>6. Size(r) \in Nat /\ at \in Nat
  BY <1>2, <1>5, RecordFacts, Places
<1>7. /\ p \in Seq(Byte) /\ Len(p) = Len(buf[w]) - used[w] /\ Len(p) \in Nat
      /\ \A k \in 1..Len(p) : p[k] = buf[w][used[w] + k]
  BY PendingFacts
<1>8. out[c] \in Seq(Message) /\ Open(out[c]) /\ Bears(out[c], s[1].id) /\ asked[c] # "parked"
  BY <1>2 DEF StreamInv, StreamTyped, ConnectionOk
<1>9. s[1].id \in Ids
  BY <1>2, StreamFacts, RecordFacts
<1>10. Err(w, text) \in Seq(Message) /\ Open(Err(w, text)) /\ Bears(Err(w, text), s[1].id)
  BY <1>1, <1>9, Complaint
<1> DEFINE o == out[c] \o Err(w, text)
<1>11. o \in Seq(Message) /\ Open(o) /\ Bears(o, s[1].id)
  BY <1>8, <1>10, SentOpen
<1>12. out' = [out EXCEPT ![c] = o]
  BY <1>4
<1> HIDE DEF o
<1>13. StreamTyped'
  <2> HIDE DEF p, r, s
  <2>1. /\ stream' \in [Connections -> AllStreams \cup {<<>>}]
        /\ received' \in [Connections -> Nat] /\ asked' \in [Connections -> {"no", "yes", "parked"}]
    BY <1>4 DEF StreamInv, StreamTyped
  <2>2. out' \in [Connections -> Seq(Message)]
    BY <1>11, <1>12 DEF StreamInv, StreamTyped
  <2>3. buf' \in [Workers -> Seq(Byte)]
    BY <1>4, <1>7 DEF StreamInv, StreamTyped
  <2>4. used' \in [Workers -> Nat]
    BY <1>4, <1>6 DEF StreamInv, StreamTyped
  <2> QED BY <1>3, <2>1, <2>2, <2>3, <2>4 DEF StreamTyped
<1>14. \A d \in Connections : d # c => SameConnection(d)
  BY <1>3, <1>4, <1>12 DEF StreamInv, StreamTyped, SameConnection
<1>15. \A v \in Workers \ {w} : SameWorker(v) /\ sock[v] # c
  BY <1>2, <1>4 DEF StreamInv, StreamTyped, SameWorker
<1>16. ConnectionOk(c)'
  <2>1. out'[c] = o
    BY <1>12 DEF StreamInv, StreamTyped
  <2> QED BY <2>1, <1>2, <1>3, <1>4, <1>11 DEF ConnectionOk
<1>17. Unread(w)'
  <2>1. buf'[w] = p /\ used'[w] = Size(r) /\ sock'[w] = c
    BY <1>1, <1>4 DEF StreamInv, StreamTyped
  <2>2. received[c] = at + Len(p) /\ received[c] <= Len(Bytes[s])
    BY <1>1, <1>2, <1>7 DEF Unread
  <2>3. \A k \in 1..Len(p) : p[k] = Bytes[s][at + k]
    BY <1>1, <1>2, <1>7 DEF Unread
  <2> DEFINE z == Size(r)
  <2>4. z \in Nat /\ z <= Len(p) /\ Len(p) \in Nat /\ at \in Nat
    BY <1>5, <1>6, <1>7
  <2> HIDE DEF z, p, at
  <2>5. \A k \in 1..(Len(p) - z) : z + k \in 1..Len(p) /\ at + (z + k) = (at + z) + k
    BY <2>4
  <2>6. \A k \in 1..(Len(p) - z) : p[z + k] = Bytes[s][(at + z) + k]
    BY <2>3, <2>5
  <2>7. received[c] = (at + z) + (Len(p) - z)
    BY <2>2, <2>4
  <2>8. At(s, Len(got'[c])) = at + z /\ used'[w] = z
    BY <1>3, <2>1 DEF z
  <2> HIDE DEF s
  <2>9. received'[c] = received[c] /\ stream'[c] = s
    BY <1>4 DEF s
  <2> QED BY <2>1, <2>2, <2>4, <2>6, <2>7, <2>8, <2>9 DEF Unread
<1>18. WorkerOk(w)'
  <2>1. pc'[w] = label /\ sock'[w] = c /\ asked'[c] = "no" /\ stream'[c] = s
    BY <1>1, <1>2, <1>4 DEF StreamInv, Inv, Typed, WorkerOk
  <2> QED BY <2>1, <1>1, <1>3, <1>17 DEF WorkerOk
<1>19. StreamInv'
  BY <1>13, <1>14, <1>15, <1>16, <1>18, FrameOfWorker
<1> QED BY <1>3, <1>4, <1>19

\* The worker complains, if it knows the number of the request, and closes the socket.
LEMMA DoneStream ==
  ASSUME StreamInv, Inv', S!Inv', NEW w \in Workers,
         pc[w] \in {"begin", "params", "stdin", "ready"},
         HandedOver(w) \/ UNCHANGED got, NEW text, Done(w, text),
         id' \in [Workers -> Ids], \A v \in Workers : v # w => id'[v] = id[v],
         Silent(text) \/ id'[w] = stream[sock[w]][1].id
  PROVE  StreamInv' /\ (UNCHANGED <<stream, got>> \/ \E c \in Connections : Stream!Hand(c))
<1>1. PICK c \in Connections : c = sock[w]
  BY Holds
<1> DEFINE s == stream[c]
<1>2. /\ s \in AllStreams /\ ConnectionOk(c) /\ WorkerOk(w)
      /\ \A v \in Workers : v # w => sock[v] # c
      /\ place[c] = "worker"
  BY <1>1, Holds
<1>3. /\ got' \in [Connections -> Seq(Records)]
      /\ \A d \in Connections : d # c => got'[d] = got[d]
      /\ Len(got'[c]) <= Len(s)
      /\ \A i \in 1..Len(got'[c]) : got'[c][i] = s[i]
      /\ UNCHANGED got \/ (UNCHANGED stream => Stream!Hand(c))
  <2>1. CASE HandedOver(w)
    BY <1>1, <2>1, HandedFacts
  <2>2. CASE UNCHANGED got
    BY <1>2, <2>2 DEF StreamInv, StreamTyped, ConnectionOk
  <2> QED BY <2>1, <2>2
<1>4. /\ buf' = [buf EXCEPT ![w] = <<>>] /\ used' = [used EXCEPT ![w] = 0]
      /\ out' = [out EXCEPT ![c] = @ \o Err(w, text)]
      /\ pc' = [pc EXCEPT ![w] = "idle"] /\ sock' = [sock EXCEPT ![w] = "none"]
      /\ place' = [place EXCEPT ![c] = "closed"]
      /\ UNCHANGED <<stream, received, asked>>
  BY <1>1 DEF Done, Idle
<1>5. out[c] \in Seq(Message) /\ Open(out[c]) /\ Bears(out[c], s[1].id) /\ asked[c] = "no"
  BY <1>1, <1>2 DEF StreamInv, StreamTyped, ConnectionOk, WorkerOk
<1>6. s[1].id \in Ids
  BY <1>2, StreamFacts, RecordFacts
<1>7. Err(w, text) \in Seq(Message) /\ Open(Err(w, text)) /\ Bears(Err(w, text), s[1].id)
  BY <1>1, <1>6, Complaint
<1> DEFINE o == out[c] \o Err(w, text)
<1>8. o \in Seq(Message) /\ Open(o) /\ Bears(o, s[1].id)
  BY <1>5, <1>7, SentOpen
<1>9. out' = [out EXCEPT ![c] = o]
  BY <1>4
<1> HIDE DEF o
<1>10. StreamTyped'
  <2>1. /\ stream' \in [Connections -> AllStreams \cup {<<>>}]
        /\ received' \in [Connections -> Nat] /\ asked' \in [Connections -> {"no", "yes", "parked"}]
    BY <1>4 DEF StreamInv, StreamTyped
  <2>2. out' \in [Connections -> Seq(Message)]
    BY <1>8, <1>9 DEF StreamInv, StreamTyped
  <2>3. buf' \in [Workers -> Seq(Byte)] /\ used' \in [Workers -> Nat]
    BY <1>4 DEF StreamInv, StreamTyped
  <2> QED BY <1>3, <2>1, <2>2, <2>3 DEF StreamTyped
<1>11. place \in [Connections -> {"new", "queued", "worker", "parked", "closed"}]
  BY DEF StreamInv, S!Inv, S!Typed
<1>12. \A d \in Connections : d # c => SameConnection(d)
  BY <1>3, <1>4, <1>9, <1>11 DEF StreamInv, StreamTyped, SameConnection
<1>13. \A v \in Workers \ {w} : SameWorker(v) /\ sock[v] # c
  BY <1>2, <1>4 DEF StreamInv, StreamTyped, Inv, Typed, SameWorker
<1>14. ConnectionOk(c)'
  <2>1. out'[c] = o /\ place'[c] = "closed"
    BY <1>4, <1>9, <1>11 DEF StreamInv, StreamTyped
  <2> QED BY <2>1, <1>2, <1>3, <1>4, <1>5, <1>8 DEF ConnectionOk
<1>15. WorkerOk(w)'
  BY <1>4 DEF StreamInv, StreamTyped, Inv, Typed, WorkerOk
<1>16. StreamInv'
  BY <1>10, <1>12, <1>13, <1>14, <1>15, FrameOfWorker
<1> QED BY <1>3, <1>4, <1>16

LEMMA FailStream ==
  ASSUME StreamInv, Inv', S!Inv', NEW w \in Workers, RecvFails(w)
  PROVE  StreamInv' /\ (UNCHANGED <<stream, got>> \/ \E c \in Connections : Stream!Hand(c))
<1> DEFINE text == IF pc[w] = "begin" THEN "" ELSE "Error receiving"
<1>1. pc[w] \in {"begin", "params", "stdin"} /\ UNCHANGED <<id, got>> /\ Done(w, text)
  BY DEF RecvFails, Reading, request
<1>2. Silent(text) \/ id'[w] = stream[sock[w]][1].id
  <2>1. CASE pc[w] = "begin"
    BY <2>1 DEF Silent
  <2>2. CASE pc[w] # "begin"
    BY <2>2, <1>1, Holds DEF WorkerOk
  <2> QED BY <2>1, <2>2
<1>3. id' \in [Workers -> Ids]
  BY <1>1 DEF StreamInv, StreamTyped
<1> HIDE DEF text
<1> QED BY <1>1, <1>2, <1>3, DoneStream

LEMMA BeginStream ==
  ASSUME StreamInv, Inv', S!Inv', NEW w \in Workers, BeginRequest(w)
  PROVE  StreamInv' /\ (UNCHANGED <<stream, got>> \/ \E c \in Connections : Stream!Hand(c))
<1> DEFINE r == Header(Pending(w))
<1>1. HandedOver(w) /\ pc[w] = "begin"
  BY RecordHanded DEF BeginRequest
<1>2. /\ id' = [id EXCEPT ![w] = r.id]
      /\ \/ Done(w, "First message is not BEGIN_REQUEST")
         \/ Done(w, "a role besides RESPONDER")
         \/ GoOn(w, "params", "")
  BY DEF BeginRequest, Number
<1>3. r = stream[sock[w]][1] /\ r \in Records
  <2>1. got[sock[w]] = <<>>
    BY <1>1, Holds DEF WorkerOk
  <2>2. Len(<<>>) + 1 = 1
    OBVIOUS
  <2> QED BY <1>1, <2>1, <2>2, NextRecord DEF HandedOver
<1>4. r.id \in Ids
  BY <1>3, RecordFacts
<1>5. /\ id' \in [Workers -> Ids] /\ \A v \in Workers : v # w => id'[v] = id[v]
      /\ id'[w] = stream[sock[w]][1].id
  BY <1>2, <1>3, <1>4 DEF StreamInv, StreamTyped
<1> HIDE DEF r
<1>6. CASE Done(w, "First message is not BEGIN_REQUEST")
  BY <1>1, <1>5, <1>6, DoneStream
<1>7. CASE Done(w, "a role besides RESPONDER")
  BY <1>1, <1>5, <1>7, DoneStream
<1>8. CASE GoOn(w, "params", "")
  BY <1>1, <1>5, <1>8, GoOnStream
<1> QED BY <1>2, <1>6, <1>7, <1>8

\* A record of the request, or of another one.
LEMMA FurtherStream ==
  ASSUME StreamInv, Inv', S!Inv', NEW w \in Workers, pc[w] \in {"params", "stdin"},
         HandedOver(w), UNCHANGED id, NEW text, NEW label \in {"params", "stdin", "ready"},
         Done(w, text) \/ GoOn(w, label, text)
  PROVE  StreamInv' /\ (UNCHANGED <<stream, got>> \/ \E c \in Connections : Stream!Hand(c))
<1>1. /\ id' \in [Workers -> Ids] /\ \A v \in Workers : v # w => id'[v] = id[v]
      /\ id'[w] = stream[sock[w]][1].id
  BY Holds DEF StreamInv, StreamTyped, WorkerOk
<1>2. CASE Done(w, text)
  BY <1>1, <1>2, DoneStream
<1>3. CASE GoOn(w, label, text)
  BY <1>1, <1>3, GoOnStream
<1> QED BY <1>2, <1>3

LEMMA ParamsStream ==
  ASSUME StreamInv, Inv', S!Inv', NEW w \in Workers, Params(w)
  PROVE  StreamInv' /\ (UNCHANGED <<stream, got>> \/ \E c \in Connections : Stream!Hand(c))
<1> DEFINE r == Header(Pending(w))
<1>1. HandedOver(w) /\ pc[w] = "params"
  BY RecordHanded DEF Params
<1>2. CASE OtherRequest(w, r)
  <2>1. UNCHANGED id /\ GoOn(w, "params", "Ignoring environment variables")
    BY <1>2 DEF Params, request
  <2> QED BY <1>1, <2>1, FurtherStream
<1>3. CASE ~OtherRequest(w, r) /\ r.type # "PARAMS"
  <2>1. UNCHANGED id /\ Done(w, "Expected FCGI_PARAMS")
    BY <1>3 DEF Params, request
  <2> QED BY <1>1, <2>1, FurtherStream
<1>4. CASE ~OtherRequest(w, r) /\ r.type = "PARAMS" /\ r.content # <<>>
  <2>1. UNCHANGED id /\ (GoOn(w, "params", "") \/ Done(w, "Error reading FCGI_PARAMS"))
    BY <1>4 DEF Params
  <2> QED BY <1>1, <2>1, FurtherStream
<1>5. CASE ~OtherRequest(w, r) /\ r.type = "PARAMS" /\ r.content = <<>>
  <2> DEFINE label == IF bodyLen'[w] = 0 THEN "ready" ELSE "stdin"
  <2>1. /\ UNCHANGED id
        /\ Done(w, "Invalid Content-Length") \/ GoOn(w, label, "")
    BY <1>5 DEF Params
  <2>2. label = "ready" \/ label = "stdin"
    OBVIOUS
  <2> HIDE DEF label
  <2>3. CASE Done(w, "Invalid Content-Length")
    BY <1>1, <2>1, <2>3, FurtherStream
  <2>4. CASE GoOn(w, "ready", "")
    BY <1>1, <2>1, <2>4, FurtherStream
  <2>5. CASE GoOn(w, "stdin", "")
    BY <1>1, <2>1, <2>5, FurtherStream
  <2> QED BY <2>1, <2>2, <2>3, <2>4, <2>5
<1> QED BY <1>2, <1>3, <1>4, <1>5

LEMMA StdinStream ==
  ASSUME StreamInv, Inv', S!Inv', NEW w \in Workers, Stdin(w)
  PROVE  StreamInv' /\ (UNCHANGED <<stream, got>> \/ \E c \in Connections : Stream!Hand(c))
<1> DEFINE ends == Len(body[w]) + Len(Header(Pending(w)).content) = bodyLen[w]
<1>1. HandedOver(w) /\ pc[w] = "stdin" /\ UNCHANGED id
  BY RecordHanded DEF Stdin
<1>2. \/ GoOn(w, "stdin", "Ignoring STDIN")
      \/ Done(w, "Expected FCGI_STDIN")
      \/ GoOn(w, "ready", "End of STDIN")
      \/ Done(w, "Too much STDIN")
      \/ GoOn(w, "ready", "")
      \/ GoOn(w, "stdin", "")
  <2>1. ends \/ ~ends
    OBVIOUS
  <2> QED BY <2>1, Zenon DEF Stdin
<1>3. CASE GoOn(w, "stdin", "Ignoring STDIN")
  BY <1>1, <1>3, FurtherStream
<1>4. CASE Done(w, "Expected FCGI_STDIN")
  BY <1>1, <1>4, FurtherStream
<1>5. CASE GoOn(w, "ready", "End of STDIN")
  BY <1>1, <1>5, FurtherStream
<1>6. CASE Done(w, "Too much STDIN")
  BY <1>1, <1>6, FurtherStream
<1>7. CASE GoOn(w, "ready", "")
  BY <1>1, <1>7, FurtherStream
<1>8. CASE GoOn(w, "stdin", "")
  BY <1>1, <1>8, FurtherStream
<1> QED BY <1>2, <1>3, <1>4, <1>5, <1>6, <1>7, <1>8

LEMMA CallStream ==
  ASSUME StreamInv, Inv', S!Inv', NEW w \in Workers, Call(w)
  PROVE  StreamInv' /\ (UNCHANGED <<stream, got>> \/ \E c \in Connections : Stream!Hand(c))
<1>0. pc[w] = "ready" /\ UNCHANGED <<id, got>>
  BY DEF Call, request
<1>1. CASE Done(w, "REQUEST_METHOD or SCRIPT_NAME not set")
  <2>1. id'[w] = stream[sock[w]][1].id
    BY <1>0, Holds DEF WorkerOk
  <2>2. id' \in [Workers -> Ids] /\ \A v \in Workers : v # w => id'[v] = id[v]
    BY <1>0 DEF StreamInv, StreamTyped
  <2> QED BY <1>0, <1>1, <2>1, <2>2, DoneStream
<1>2. CASE /\ pc' = [pc EXCEPT ![w] = "handling"] /\ asked' = [asked EXCEPT ![sock[w]] = "yes"]
           /\ UNCHANGED <<place, queue, stream, received, out, sock, input>>
  <2>1. PICK c \in Connections : c = sock[w]
    BY <1>0, Holds
  <2>2. /\ ConnectionOk(c) /\ WorkerOk(w) /\ Unread(w) /\ place[c] = "worker"
        /\ \A v \in Workers : v # w => sock[v] # c
    BY <1>0, <2>1, Holds
  <2>3. /\ pc' = [pc EXCEPT ![w] = "handling"] /\ asked' = [asked EXCEPT ![c] = "yes"]
        /\ UNCHANGED <<place, stream, received, got, out, sock, buf, used, id>>
    BY <1>0, <1>2, <2>1 DEF input
  <2>4. StreamTyped'
    BY <2>3 DEF StreamInv, StreamTyped
  <2>5. \A d \in Connections : d # c => SameConnection(d)
    BY <2>3 DEF StreamInv, StreamTyped, SameConnection
  <2>6. \A v \in Workers \ {w} : SameWorker(v) /\ sock[v] # c
    BY <2>2, <2>3 DEF StreamInv, Inv, Typed, SameWorker
  <2>7. asked[c] = "no" /\ asked'[c] = "yes" /\ pc'[w] = "handling"
    BY <1>0, <2>1, <2>2, <2>3 DEF StreamInv, StreamTyped, Inv, Typed, WorkerOk
  <2>8. ConnectionOk(c)'
    BY <2>2, <2>3, <2>7 DEF ConnectionOk
  <2>9. Unread(w)'
    BY <2>2, <2>3 DEF Unread
  <2>10. WorkerOk(w)'
    BY <1>0, <2>1, <2>2, <2>3, <2>7, <2>9 DEF WorkerOk
  <2>11. StreamInv'
    BY <2>4, <2>5, <2>6, <2>8, <2>10, FrameOfWorker
  <2> QED BY <2>3, <2>11
<1> QED BY <1>1, <1>2 DEF Call

LEMMA Emptied ==
  ASSUME NEW w \in Workers, buf \in [Workers -> Seq(Byte)], used \in [Workers -> Nat],
         \/ buf' = [buf EXCEPT ![w] = <<>>] /\ used' = [used EXCEPT ![w] = 0]
         \/ UNCHANGED <<buf, used>>
  PROVE  buf' \in [Workers -> Seq(Byte)] /\ used' \in [Workers -> Nat]
<1>1. PICK none : none = <<>> /\ none \in Seq(Byte)
  <2>1. <<>> \in Seq(Byte)
    OBVIOUS
  <2> QED BY <2>1
<1> DEFINE B == Seq(Byte)
<1>2. none \in B /\ buf \in [Workers -> B]
  BY <1>1
<1> HIDE DEF B
<1>3. CASE buf' = [buf EXCEPT ![w] = <<>>] /\ used' = [used EXCEPT ![w] = 0]
  <2>1. buf' = [buf EXCEPT ![w] = none]
    BY <1>1, <1>3
  <2>2. buf' \in [Workers -> B]
    BY <1>2, <2>1
  <2> QED BY <1>3, <2>2 DEF B
<1> QED BY <1>3

\* A worker waits for a socket with an empty buffer, or has it yet to empty.
Rests(w) == \/ Idle(w)
            \/ /\ \E label \in {"complain", "log"} : pc' = [pc EXCEPT ![w] = label]
               /\ UNCHANGED input

\* A worker that handles a request parts from its socket: it has ended the answer and closed the
\* socket, or has left it open.
LEMMA LeaveStream ==
  ASSUME StreamInv, Inv', S!Inv', NEW w \in Workers, pc[w] = "handling",
         sock' = [sock EXCEPT ![w] = "none"], Rests(w), NEW c \in Connections, c = sock[w], NEW o,
         UNCHANGED <<stream, received, got, id>>, out' = [out EXCEPT ![c] = o],
         \/ /\ place' = [place EXCEPT ![c] = "closed"] /\ UNCHANGED asked
            /\ o \in Seq(Message) /\ Ended(o) /\ Bears(o, stream[c][1].id)
         \/ /\ place' = [place EXCEPT ![c] = "parked"] /\ asked' = [asked EXCEPT ![c] = "parked"]
            /\ o = out[c]
  PROVE  StreamInv'
<1>1. /\ ConnectionOk(c) /\ WorkerOk(w) /\ place[c] = "worker"
      /\ \A v \in Workers : v # w => sock[v] # c
  BY Holds
<1>2. /\ sock' = [sock EXCEPT ![w] = "none"]
      /\ \/ /\ pc' = [pc EXCEPT ![w] = "idle"]
            /\ buf' = [buf EXCEPT ![w] = <<>>] /\ used' = [used EXCEPT ![w] = 0]
         \/ /\ \E label \in {"complain", "log"} : pc' = [pc EXCEPT ![w] = label]
            /\ UNCHANGED <<buf, used>>
  BY DEF Rests, Idle, input
<1>3. place \in [Connections -> {"new", "queued", "worker", "parked", "closed"}]
  BY DEF StreamInv, S!Inv, S!Typed
<1>4. o \in Seq(Message) /\ asked' \in [Connections -> {"no", "yes", "parked"}]
  <2>1. out[c] \in Seq(Message) /\ asked \in [Connections -> {"no", "yes", "parked"}]
    BY DEF StreamInv, StreamTyped
  <2>2. o \in Seq(Message)
    BY <2>1
  <2>3. UNCHANGED asked \/ asked' = [asked EXCEPT ![c] = "parked"]
    OBVIOUS
  <2> QED BY <2>1, <2>2, <2>3
<1>5. StreamTyped'
  <2>1. out' \in [Connections -> Seq(Message)]
    BY <1>4 DEF StreamInv, StreamTyped
  <2>2. buf' \in [Workers -> Seq(Byte)] /\ used' \in [Workers -> Nat]
    BY <1>2, Emptied DEF StreamInv, StreamTyped
  <2> QED BY <1>4, <2>1, <2>2 DEF StreamInv, StreamTyped
<1>6. \A d \in Connections : d # c => SameConnection(d)
  BY <1>3 DEF StreamInv, StreamTyped, SameConnection
<1>7. \A v \in Workers \ {w} : SameWorker(v) /\ sock[v] # c
  BY <1>1, <1>2 DEF StreamInv, StreamTyped, Inv, Typed, SameWorker
<1>8. out'[c] = o /\ asked[c] = "yes"
  BY <1>1 DEF StreamInv, StreamTyped, WorkerOk
<1>9. ConnectionOk(c)'
  <2>1. CASE /\ place' = [place EXCEPT ![c] = "closed"] /\ UNCHANGED asked
             /\ o \in Seq(Message) /\ Ended(o) /\ Bears(o, stream[c][1].id)
    <3>1. place'[c] = "closed" /\ asked'[c] = "yes"
      BY <2>1, <1>3, <1>8
    <3> QED BY <2>1, <3>1, <1>1, <1>8 DEF ConnectionOk
  <2>2. CASE /\ place' = [place EXCEPT ![c] = "parked"] /\ asked' = [asked EXCEPT ![c] = "parked"]
             /\ o = out[c]
    <3>1. place'[c] = "parked" /\ asked'[c] = "parked"
      BY <2>2, <1>3, <1>8 DEF StreamInv, StreamTyped
    <3> QED BY <2>2, <3>1, <1>1, <1>8 DEF ConnectionOk
  <2> QED BY <2>1, <2>2
<1>10. WorkerOk(w)'
  BY <1>2 DEF StreamInv, StreamTyped, Inv, Typed, WorkerOk
<1> QED BY <1>5, <1>6, <1>7, <1>9, <1>10, FrameOfWorker

LEMMA AnswerStream ==
  ASSUME StreamInv, Inv', S!Inv', NEW w \in Workers, Answer(w)
  PROVE  StreamInv' /\ UNCHANGED <<stream, got>>
<1>1. /\ pc[w] = "handling" /\ Rests(w) /\ sock' = [sock EXCEPT ![w] = "none"]
      /\ UNCHANGED <<stream, received, got, asked, id>>
  BY DEF Answer, request, Rests, Idle
<1>2. PICK c \in Connections : c = sock[w]
  BY <1>1, Holds
<1>3. PICK p \in Pages(id[w]) : out' = [out EXCEPT ![c] = @ \o p \o Ending(id[w])]
  BY <1>2 DEF Answer
<1>4. place' = [place EXCEPT ![c] = "closed"]
  BY <1>2 DEF Answer
<1> DEFINE e == Ending(id[w])
           o == out[c] \o p \o e
<1>5. id[w] \in Ids /\ id[w] = stream[c][1].id /\ out[c] \in Seq(Message)
  BY <1>1, <1>2, Holds DEF StreamInv, StreamTyped, WorkerOk
<1>6. Open(out[c]) /\ Bears(out[c], id[w])
  BY <1>1, <1>2, <1>5, Holds DEF ConnectionOk, WorkerOk
<1>7. p \in Seq(Message) /\ Open(p) /\ Bears(p, id[w])
  BY <1>5, PageFacts
<1>8. e \in Seq(Message) /\ Ended(e) /\ Bears(e, id[w])
  BY <1>5, Ends
<1>9. out' = [out EXCEPT ![c] = o]
  BY <1>3
<1> HIDE DEF e
<1>10. out[c] \o p \in Seq(Message) /\ Open(out[c] \o p) /\ Bears(out[c] \o p, id[w])
  BY <1>5, <1>6, <1>7, SentOpen
<1>11. o \in Seq(Message) /\ Ended(o) /\ Bears(o, id[w])
  BY <1>8, <1>10, SentOpen
<1> HIDE DEF o
<1> QED BY <1>1, <1>2, <1>4, <1>5, <1>9, <1>11, LeaveStream

LEMMA KeepOpenStream ==
  ASSUME StreamInv, Inv', S!Inv', NEW w \in Workers, KeepOpen(w)
  PROVE  StreamInv' /\ UNCHANGED <<stream, got>>
<1>1. /\ pc[w] = "handling" /\ sock' = [sock EXCEPT ![w] = "none"]
      /\ UNCHANGED <<stream, received, got, id, input>>
      /\ Park(w) \/ AnswerPoll(w)
  BY DEF KeepOpen, request
<1>2. PICK c \in Connections : c = sock[w]
  BY <1>1, Holds
<1>3. CASE Park(w)
  <2>1. /\ place' = [place EXCEPT ![c] = "parked"] /\ asked' = [asked EXCEPT ![c] = "parked"]
        /\ Rests(w) /\ UNCHANGED out
    BY <1>1, <1>2, <1>3 DEF Park, Left, Rests
  <2>2. out' = [out EXCEPT ![c] = out[c]]
    BY <2>1 DEF StreamInv, StreamTyped
  <2> QED BY <1>1, <1>2, <2>1, <2>2, LeaveStream
<1>4. CASE AnswerPoll(w)
  <2> DEFINE p == Some("STDOUT", id[w], 1)
             e == Ending(id[w])
             o == out[c] \o p \o e
  <2>1. /\ place' = [place EXCEPT ![c] = "closed"] /\ UNCHANGED asked /\ Rests(w)
        /\ out' = [out EXCEPT ![c] = Append(@, Sent("STDOUT", id[w])) \o e]
    BY <1>1, <1>2, <1>4 DEF AnswerPoll, Rests
  <2>2. id[w] \in Ids /\ id[w] = stream[c][1].id /\ out[c] \in Seq(Message)
    BY <1>1, <1>2, Holds DEF StreamInv, StreamTyped, WorkerOk
  <2>3. Open(out[c]) /\ Bears(out[c], id[w])
    BY <1>1, <1>2, <2>2, Holds DEF ConnectionOk, WorkerOk
  <2>4. "STDOUT" \in Types /\ 1 \in 0..2
    BY DEF Types
  <2>5. p \in Seq(Message) /\ Open(p) /\ Bears(p, id[w])
    BY <2>2, <2>4, SomeSent
  <2>6. e \in Seq(Message) /\ Ended(e) /\ Bears(e, id[w])
    BY <2>2, Ends
  <2>7. Append(out[c], Sent("STDOUT", id[w])) = out[c] \o p
    <3>1. Sent("STDOUT", id[w]) \in Message
      BY <2>2, <2>4, SentFacts
    <3> QED BY <2>2, <3>1, AppendSome
  <2>8. out' = [out EXCEPT ![c] = o]
    BY <2>1, <2>7
  <2> HIDE DEF p, e
  <2>9. out[c] \o p \in Seq(Message) /\ Open(out[c] \o p) /\ Bears(out[c] \o p, id[w])
    BY <2>2, <2>3, <2>5, SentOpen
  <2>10. o \in Seq(Message) /\ Ended(o) /\ Bears(o, id[w])
    BY <2>6, <2>9, SentOpen
  <2> HIDE DEF o
  <2> QED BY <1>1, <1>2, <2>1, <2>2, <2>8, <2>10, LeaveStream
<1> QED BY <1>1, <1>3, <1>4

\* A late line reaches one connection at most, whoever has it.
LEMMA LogStream ==
  ASSUME StreamInv, Inv', S!Inv', NEW w \in Workers, Log(w)
  PROVE  StreamInv' /\ UNCHANGED <<stream, got>>
<1> DEFINE line(c) == IF Has(c, outSock[w]) THEN <<Sent("late STDERR", id[w])>> ELSE <<>>
<1>1. /\ pc[w] \in {"complain", "log"}
      /\ UNCHANGED <<place, stream, received, got, asked, id>>
      /\ out' = [c \in Connections |-> out[c] \o line(c)]
      /\ \/ /\ pc' = [pc EXCEPT ![w] = "idle"] /\ sock' = [sock EXCEPT ![w] = "none"]
            /\ buf' = [buf EXCEPT ![w] = <<>>] /\ used' = [used EXCEPT ![w] = 0]
         \/ pc' = [pc EXCEPT ![w] = "log"] /\ UNCHANGED <<sock, buf, used>>
  BY DEF Log, Idle, input, request
<1>2. ASSUME NEW c \in Connections PROVE line(c) \in Seq(Message) /\ Late(line(c))
  <2>1. "late STDERR" \in Types /\ id[w] \in Ids
    BY DEF Types, StreamInv, StreamTyped
  <2> DEFINE m == Sent("late STDERR", id[w])
  <2>2. m \in Message /\ m.type = "late STDERR"
    BY <2>1, SentFacts
  <2> HIDE DEF m
  <2> DEFINE q == <<m>>
  <2>3. q \in Seq(Message) /\ \A i \in 1..Len(q) : q[i] = m
    BY <2>2, OneSent
  <2>4. line(c) = q \/ line(c) = <<>>
    BY Zenon DEF m
  <2> HIDE DEF line, q
  <2>5. Late(q)
    BY <2>2, <2>3 DEF Late
  <2> QED BY <2>3, <2>4, <2>5, NoneSent
<1> HIDE DEF line
<1>3. ASSUME NEW c \in Connections
      PROVE  /\ out'[c] \in Seq(Message)
             /\ Open(out[c]) => Open(out'[c])
             /\ Ended(out[c]) => Ended(out'[c])
             /\ \A n : Bears(out[c], n) => Bears(out'[c], n)
  <2>1. out'[c] = out[c] \o line(c) /\ out[c] \in Seq(Message)
    BY <1>1 DEF StreamInv, StreamTyped
  <2> QED BY <1>2, <2>1, SentLate
<1>4. StreamTyped'
  <2>1. out' \in [Connections -> Seq(Message)]
    <3>1. \A c \in Connections : out[c] \o line(c) \in Seq(Message)
      BY <1>1, <1>3
    <3> QED BY <1>1, <3>1
  <2>2. buf' \in [Workers -> Seq(Byte)] /\ used' \in [Workers -> Nat]
    BY <1>1, Emptied DEF StreamInv, StreamTyped
  <2> QED BY <1>1, <2>1, <2>2 DEF StreamInv, StreamTyped
<1>5. ASSUME NEW c \in Connections PROVE ConnectionOk(c)'
  <2>1. ConnectionOk(c) /\ UNCHANGED <<place, stream, received, got, asked>>
    BY <1>1 DEF StreamInv
  <2>2. place[c] = "new" => out'[c] = <<>>
    <3> SUFFICES ASSUME place[c] = "new" PROVE out'[c] = <<>>
      OBVIOUS
    <3>1. out[c] = <<>> /\ ~Has(c, outSock[w])
      BY <2>1 DEF ConnectionOk, Has
    <3>2. line(c) = <<>>
      BY <3>1 DEF line
    <3>3. <<>> \o <<>> = <<>>
      OBVIOUS
    <3> QED BY <1>1, <3>1, <3>2, <3>3
  <2>3. asked[c] # "parked" => Bears(out'[c], stream[c][1].id)
    BY <1>3, <2>1 DEF ConnectionOk
  <2> QED BY <1>3, <2>1, <2>2, <2>3 DEF ConnectionOk
<1>6. ASSUME NEW v \in Workers PROVE WorkerOk(v)'
  <2>1. CASE v = w
    BY <1>1, <2>1 DEF StreamInv, StreamTyped, Inv, Typed, WorkerOk
  <2>2. CASE v # w
    <3>1. WorkerOk(v) /\ SameWorker(v)
      BY <1>1, <2>2 DEF StreamInv, StreamTyped, Inv, Typed, SameWorker
    <3> QED BY <1>1, <3>1 DEF SameWorker, WorkerOk, Unread
  <2> QED BY <2>1, <2>2
<1> QED BY <1>1, <1>4, <1>5, <1>6 DEF StreamInv

LEMMA DeliverStream ==
  ASSUME StreamInv, Inv', S!Inv', NEW c \in Connections, Delivery(c)
  PROVE  StreamInv' /\ UNCHANGED <<stream, got>>
<1>1. PICK n \in Ids : Deliver(c, n)
  BY DEF Delivery, StreamInv, StreamTyped, Ids
<1>2. PICK k \in 0..1 :
        out' = [out EXCEPT ![c] = @ \o [i \in 1..k |-> Sent("STDOUT", n)] \o Ending(n)]
  BY <1>1 DEF Deliver
<1>3. /\ place[c] = "parked" /\ ~IsOver(c)
      /\ UNCHANGED <<place, stream, received, got, asked, pc, sock, buf, used, id>>
  BY <1>1 DEF Deliver, input, request
<1> DEFINE p == Some("STDOUT", n, k)
           o == out[c] \o p \o Ending(n)
<1>4. out[c] \in Seq(Message) /\ Open(out[c]) /\ ConnectionOk(c)
  BY <1>3 DEF StreamInv, StreamTyped, IsOver, Open
<1>5. p \in Seq(Message) /\ Open(p)
  <2>1. "STDOUT" \in Types /\ k \in 0..2
    BY DEF Types
  <2> QED BY <2>1, SomeSent
<1>6. out' = [out EXCEPT ![c] = o]
  BY <1>2 DEF Some
<1> HIDE DEF p
<1>7. out[c] \o p \in Seq(Message) /\ Open(out[c] \o p)
  BY <1>4, <1>5, SentOpen
<1>8. o \in Seq(Message) /\ Ended(o)
  BY <1>7, Ends, SentOpen
<1> HIDE DEF o
<1>9. StreamTyped'
  BY <1>3, <1>6, <1>8 DEF StreamInv, StreamTyped
<1>10. \A d \in Connections : d # c => SameConnection(d)
  BY <1>3, <1>6 DEF StreamInv, StreamTyped, SameConnection
<1>11. \A v \in Workers : SameWorker(v) /\ sock[v] # c
  BY <1>3 DEF StreamInv, S!Inv, S!WorkerHolds, SameWorker
<1>12. out'[c] = o
  BY <1>6 DEF StreamInv, StreamTyped
<1>13. ConnectionOk(c)'
  BY <1>3, <1>4, <1>8, <1>12 DEF ConnectionOk
<1>14. StreamInv'
  BY <1>9, <1>10, <1>11, <1>13, FrameOfConnection
<1> QED BY <1>3, <1>14

LEMMA ClosePollStream ==
  ASSUME StreamInv, Inv', S!Inv', NEW c \in Connections, ClosePoll(c)
  PROVE  StreamInv' /\ UNCHANGED <<stream, got>>
<1>1. /\ place[c] = "parked" /\ IsOver(c) /\ place' = [place EXCEPT ![c] = "closed"]
      /\ UNCHANGED <<stream, received, out, got, asked, pc, sock, buf, used, id>>
  BY DEF ClosePoll, input, request
<1>2. place \in [Connections -> {"new", "queued", "worker", "parked", "closed"}] /\ ConnectionOk(c)
  BY DEF StreamInv, S!Inv, S!Typed
<1>3. StreamTyped'
  BY <1>1 DEF StreamInv, StreamTyped
<1>4. \A d \in Connections : d # c => SameConnection(d)
  BY <1>1, <1>2 DEF SameConnection
<1>5. \A v \in Workers : SameWorker(v) /\ sock[v] # c
  BY <1>1 DEF StreamInv, S!Inv, S!WorkerHolds, SameWorker
<1>6. Ended(out[c]) /\ asked[c] = "parked" /\ place'[c] = "closed"
  BY <1>1, <1>2 DEF ConnectionOk, IsOver, Open
<1>7. ConnectionOk(c)'
  BY <1>1, <1>2, <1>6 DEF ConnectionOk
<1>8. StreamInv'
  BY <1>3, <1>4, <1>5, <1>7, FrameOfConnection
<1> QED BY <1>1, <1>8

LEMMA StutterStream ==
  ASSUME StreamInv, Inv', S!Inv', UNCHANGED vars
  PROVE  StreamInv' /\ UNCHANGED <<stream, got>>
<1>1. /\ UNCHANGED <<place, stream, received, out, got, asked>>
      /\ UNCHANGED <<pc, sock, buf, used, id>>
  BY DEF vars, conns, input, request
<1>2. StreamTyped'
  BY <1>1 DEF StreamInv, StreamTyped
<1>3. \A c \in Connections : ConnectionOk(c)'
  BY <1>1 DEF StreamInv, ConnectionOk
<1>4. \A w \in Workers : WorkerOk(w)'
  BY <1>1 DEF StreamInv, WorkerOk, Unread
<1> QED BY <1>1, <1>2, <1>3, <1>4 DEF StreamInv

LEMMA NextStream ==
  ASSUME StreamInv, [Next]_vars PROVE StreamInv' /\ [Stream!Next]_(Stream!vars)
<1>1. Inv' /\ S!Inv'
  BY NextStep, S!NextInv, FastCgiAssumption DEF StreamInv
<1>2. ASSUME NEW w \in Workers, Work(w)
      PROVE  StreamInv' /\ (UNCHANGED <<stream, got>> \/ \E c \in Connections : Stream!Hand(c))
  BY <1>1, <1>2, DequeueStream, RecvStream, FailStream, BeginStream, ParamsStream, StdinStream,
     CallStream, AnswerStream, KeepOpenStream, LogStream DEF Work
<1>3. ASSUME NEW c \in Connections, Accept(c) \/ Delivery(c) \/ ClosePoll(c)
      PROVE  StreamInv' /\ (UNCHANGED <<stream, got>> \/ Stream!Connect(c))
  BY <1>1, <1>3, AcceptStream, DeliverStream, ClosePollStream
<1>4. CASE UNCHANGED vars
  BY <1>1, <1>4, StutterStream DEF Stream!vars
<1> QED BY <1>2, <1>3, <1>4 DEF Next, Stream!Next, Stream!vars

-----------------------------------------------------------------------------
(* The request a worker puts together.                                      *)

Things == UNION {Range(r.content) : r \in Records}
Param  == Things \cup {[name |-> "", value |-> ""]}

OwnTyped ==
  /\ nvps \in [Workers -> Seq(Param)]
  /\ usedNvps \in [Workers -> Nat]
  /\ body \in [Workers -> Seq(Things)]

\* ps begins with qs.
Begins(ps, qs) == Len(qs) <= Len(ps) /\ \A i \in 1..Len(qs) : ps[i] = qs[i]

\* The array begins with the parameters of the request, all of which came before its body, and
\* the body is what came since.
OwnOk(w) == LET g == got[sock[w]] IN
  /\ pc[w] = "begin" => usedNvps[w] = 0
  /\ pc[w] = "params" =>
       /\ usedNvps[w] = Len(Own(g, "PARAMS")) /\ Begins(nvps[w], Own(g, "PARAMS"))
       /\ Own(g, "STDIN") = <<>>
  /\ pc[w] \in {"stdin", "ready", "handling"} =>
       /\ Begins(nvps[w], Own(g, "PARAMS") \o Closing)
       /\ body[w] = Own(g, "STDIN")

OwnInv == OwnTyped /\ \A w \in Workers : OwnOk(w)

LEMMA ContentFacts == ASSUME NEW r \in Records PROVE r.content \in Seq(Things)
<1>1. r.content \in Seq(Range(r.content))
  BY FastCgiAssumption DEF Records
<1>2. Range(r.content) \subseteq Things
  BY DEF Things
<1> DEFINE q == r.content
<1> HIDE DEF q
<1>3. q \in Seq(Range(q)) /\ Range(q) \subseteq Things
  BY <1>1, <1>2 DEF q
<1>4. \A i \in 1..Len(q) : q[i] \in Things
  BY <1>3
<1>5. q \in Seq(Things)
  BY <1>3, <1>4
<1> QED BY <1>5 DEF q

\* What record r adds to the request that h begins.
Adds(h, r, type) == IF r.type = type /\ r.id = h.id THEN r.content ELSE <<>>
Contents(g, type) == [i \in 1..Len(g) |-> Adds(g[1], g[i], type)]

LEMMA OwnContents == ASSUME NEW g, NEW type PROVE Own(g, type) = FlattenSeq(Contents(g, type))
BY Zenon DEF Own, Contents, Adds

LEMMA AddsType ==
  ASSUME NEW h, NEW r \in Records, NEW type PROVE Adds(h, r, type) \in Seq(Things)
<1>1. r.content \in Seq(Things) /\ <<>> \in Seq(Things)
  BY ContentFacts
<1> QED BY <1>1, Zenon DEF Adds

LEMMA ContentsType ==
  ASSUME NEW g \in Seq(Records), NEW type
  PROVE  /\ Contents(g, type) \in Seq(Seq(Things)) /\ Len(Contents(g, type)) = Len(g)
         /\ \A i \in 1..Len(g) : Contents(g, type)[i] = Adds(g[1], g[i], type)
<1>1. Len(g) \in Nat /\ \A i \in 1..Len(g) : Adds(g[1], g[i], type) \in Seq(Things)
  BY AddsType
<1> QED BY <1>1 DEF Contents

LEMMA OwnType == ASSUME NEW g \in Seq(Records), NEW type PROVE Own(g, type) \in Seq(Things)
BY OwnContents, ContentsType, SameFlatten, S!FlattenType

LEMMA OwnNone == ASSUME NEW type PROVE Own(<<>>, type) = <<>>
<1>1. <<>> \in Seq(Records) /\ Len(<<>>) = 0
  OBVIOUS
<1>2. Contents(<<>>, type) \in Seq(Seq(Things)) /\ Len(Contents(<<>>, type)) = 0
  BY <1>1, ContentsType
<1>3. Contents(<<>>, type) = <<>>
  BY <1>2
<1>4. FlattenSeq(<<>>) = <<>>
  BY SameFlatten, S!FlattenEmpty
<1> QED BY <1>3, <1>4, OwnContents

\* ... and all of them, one after the other.
Beginning(g, r) == IF g = <<>> THEN r ELSE g[1]

LEMMA OwnAppend ==
  ASSUME NEW g \in Seq(Records), NEW r \in Records, NEW type
  PROVE  Own(Append(g, r), type) = Own(g, type) \o Adds(Beginning(g, r), r, type)
<1> DEFINE h == Beginning(g, r)
           gg == Append(g, r)
           n == Len(g)
           e == Adds(h, r, type)
<1>1. /\ gg \in Seq(Records) /\ Len(gg) = n + 1 /\ n \in Nat /\ gg[n + 1] = r
      /\ \A i \in 1..n : gg[i] = g[i]
  OBVIOUS
<1>2. gg[1] = h /\ (g # <<>> => g[1] = h)
  <2>1. CASE g = <<>>
    <3>1. n + 1 = 1
      BY <2>1
    <3> QED BY <1>1, <2>1, <3>1 DEF Beginning
  <2>2. CASE g # <<>>
    <3>1. 1 \in 1..n
      BY <2>2
    <3> QED BY <1>1, <2>2, <3>1 DEF Beginning
  <2> QED BY <2>1, <2>2
<1>3. e \in Seq(Things)
  BY AddsType
<1> DEFINE cs == Contents(g, type)
           ds == Contents(gg, type)
<1> HIDE DEF h
<1>4. /\ cs \in Seq(Seq(Things)) /\ Len(cs) = n
      /\ \A i \in 1..n : cs[i] = Adds(g[1], g[i], type)
  BY ContentsType
<1>5. /\ ds \in Seq(Seq(Things)) /\ Len(ds) = n + 1
      /\ \A i \in 1..(n + 1) : ds[i] = Adds(h, gg[i], type)
  BY <1>1, <1>2, ContentsType
<1>6. \A i \in 1..n : ds[i] = cs[i]
  <2> SUFFICES ASSUME NEW i \in 1..n PROVE ds[i] = cs[i]
    OBVIOUS
  <2>1. g # <<>> /\ i \in 1..(n + 1)
    BY <1>1
  <2>2. cs[i] = Adds(h, g[i], type)
    BY <2>1, <1>2, <1>4
  <2>3. ds[i] = Adds(h, g[i], type)
    BY <2>1, <1>1, <1>5
  <2> QED BY <2>2, <2>3
<1>7. ds[n + 1] = e
  <2>1. n + 1 \in 1..(n + 1)
    BY <1>1
  <2> QED BY <2>1, <1>1, <1>5
<1>8. ds = Append(cs, e)
  <2> HIDE DEF cs, ds, e, n, gg
  <2>1. Append(cs, e) \in Seq(Seq(Things)) /\ Len(Append(cs, e)) = n + 1
    BY <1>3, <1>4
  <2>2. \A i \in 1..(n + 1) : i \in 1..n \/ i = n + 1
    BY <1>1
  <2>3. \A i \in 1..(n + 1) : Append(cs, e)[i] = ds[i]
    BY <2>2, <1>1, <1>3, <1>4, <1>6, <1>7
  <2> QED BY <2>1, <2>3, <1>1, <1>5
<1>9. FlattenSeq(Append(cs, e)) = FlattenSeq(cs) \o e
  <2> HIDE DEF cs, e
  <2> QED BY <1>3, <1>4, SameFlatten, S!FlattenAppend
<1> QED BY <1>8, <1>9, OwnContents DEF h

\* A worker changes what it has of the request, and the others do not.
LEMMA OwnFrame ==
  ASSUME StreamInv, OwnInv, OwnTyped', NEW w \in Workers, OwnOk(w)',
         \A v \in Workers : v # w =>
           /\ pc'[v] = pc[v] /\ nvps'[v] = nvps[v] /\ usedNvps'[v] = usedNvps[v]
           /\ body'[v] = body[v]
           /\ pc[v] \notin {"idle", "complain", "log"} => sock'[v] = sock[v] /\ got'[sock[v]] = got[sock[v]]
  PROVE  OwnInv'
<1>1. ASSUME NEW v \in Workers, v # w PROVE OwnOk(v)'
  <2>1. OwnOk(v)
    BY DEF OwnInv
  <2>2. CASE pc[v] \in {"idle", "complain", "log"}
    BY <1>1, <2>2 DEF OwnOk
  <2>3. CASE pc[v] \notin {"idle", "complain", "log"}
    BY <1>1, <2>1, <2>3 DEF OwnOk
  <2> QED BY <2>2, <2>3
<1> QED BY <1>1 DEF OwnInv

\* Nobody was handed anything, and the arrays are the same.
LEMMA OwnStays ==
  ASSUME OwnInv, UNCHANGED <<nvps, body, got>>,
         \A v \in Workers :
           \/ pc'[v] \in {"idle", "complain", "log"}
           \/ pc'[v] = "begin" /\ usedNvps'[v] = 0
           \/ /\ pc'[v] = pc[v] \/ (pc[v] = "ready" /\ pc'[v] = "handling")
              /\ sock'[v] = sock[v] /\ usedNvps'[v] = usedNvps[v],
         usedNvps' \in [Workers -> Nat]
  PROVE  OwnInv'
<1>1. OwnTyped'
  BY DEF OwnInv, OwnTyped
<1>2. ASSUME NEW v \in Workers PROVE OwnOk(v)'
  <2>1. OwnOk(v)
    BY DEF OwnInv
  <2>2. CASE pc'[v] \in {"idle", "complain", "log"} \/ (pc'[v] = "begin" /\ usedNvps'[v] = 0)
    BY <2>2 DEF OwnOk
  <2>3. CASE /\ pc'[v] = pc[v] \/ (pc[v] = "ready" /\ pc'[v] = "handling")
             /\ sock'[v] = sock[v] /\ usedNvps'[v] = usedNvps[v]
    BY <2>1, <2>3 DEF OwnOk
  <2> QED BY <2>2, <2>3
<1> QED BY <1>1, <1>2 DEF OwnInv

\* A worker gives up its socket.
LEMMA OwnIdle ==
  ASSUME StreamInv, OwnInv, OwnTyped', NEW w \in Workers, pc[w] \notin {"idle", "complain", "log"}, Idle(w),
         HandedOver(w) \/ UNCHANGED got,
         \A v \in Workers : v # w =>
           nvps'[v] = nvps[v] /\ usedNvps'[v] = usedNvps[v] /\ body'[v] = body[v]
  PROVE  OwnInv'
<1>1. pc' = [pc EXCEPT ![w] = "idle"] /\ sock' = [sock EXCEPT ![w] = "none"]
  BY DEF Idle
<1>2. ASSUME NEW v \in Workers, v # w, pc[v] \notin {"idle", "complain", "log"}
      PROVE  sock'[v] = sock[v] /\ got'[sock[v]] = got[sock[v]]
  <2>1. sock[v] \in Connections /\ sock[v] # sock[w] /\ sock[w] \in Connections
    BY <1>2, Holds
  <2>2. sock'[v] = sock[v]
    BY <1>1, <1>2 DEF StreamInv, Inv, Typed
  <2>3. CASE HandedOver(w)
    BY <2>1, <2>2, <2>3, HandedFacts
  <2>4. CASE UNCHANGED got
    BY <2>2, <2>4
  <2> QED BY <2>3, <2>4
<1>3. \A v \in Workers : v # w => pc'[v] = pc[v]
  BY <1>1 DEF StreamInv, Inv, Typed
<1>4. OwnOk(w)'
  BY <1>1 DEF StreamInv, Inv, Typed, OwnOk
<1> QED BY <1>2, <1>3, <1>4, OwnFrame

\* A worker goes on with the record it was handed: what it adds to the request.
PutTogether(w, label, params, stdin) ==
  /\ label # "begin"
  /\ label = "params" =>
       /\ usedNvps'[w] = Len(params) /\ Begins(nvps'[w], params) /\ stdin = <<>>
  /\ label \in {"stdin", "ready", "handling"} =>
       /\ Begins(nvps'[w], params \o Closing) /\ body'[w] = stdin

LEMMA OwnGoesOn ==
  ASSUME StreamInv, OwnInv, OwnTyped', NEW w \in Workers, pc[w] \notin {"idle", "complain", "log"}, HandedOver(w),
         NEW label, pc' = [pc EXCEPT ![w] = label], UNCHANGED sock,
         \A v \in Workers : v # w =>
           nvps'[v] = nvps[v] /\ usedNvps'[v] = usedNvps[v] /\ body'[v] = body[v],
         NEW c \in Connections, c = sock[w],
         LET r == Header(Pending(w))
             h == Beginning(got[c], r)
         IN PutTogether(w, label, Own(got[c], "PARAMS") \o Adds(h, r, "PARAMS"),
                                  Own(got[c], "STDIN") \o Adds(h, r, "STDIN"))
  PROVE  OwnInv'
<1> DEFINE r == Header(Pending(w))
           h == Beginning(got[c], r)
<1>1. got[c] \in Seq(Records) /\ r \in Records /\ got'[c] = Append(got[c], r)
  BY NextRecord DEF HandedOver, StreamInv, StreamTyped
<1>2. /\ Own(got'[c], "PARAMS") = Own(got[c], "PARAMS") \o Adds(h, r, "PARAMS")
      /\ Own(got'[c], "STDIN") = Own(got[c], "STDIN") \o Adds(h, r, "STDIN")
  BY <1>1, OwnAppend
<1>3. pc'[w] = label /\ sock'[w] = c
  BY DEF StreamInv, Inv, Typed
<1>4. OwnOk(w)'
  BY <1>2, <1>3, Zenon DEF OwnOk, PutTogether
<1>5. ASSUME NEW v \in Workers, v # w, pc[v] \notin {"idle", "complain", "log"}
      PROVE  sock'[v] = sock[v] /\ got'[sock[v]] = got[sock[v]]
  <2>1. sock[v] \in Connections /\ sock[v] # c
    BY <1>5, Holds
  <2> QED BY <2>1, HandedFacts
<1>6. \A v \in Workers : v # w => pc'[v] = pc[v]
  BY DEF StreamInv, Inv, Typed
<1> QED BY <1>4, <1>5, <1>6, OwnFrame

LEMMA OwnOther ==
  ASSUME StreamInv, OwnInv, NEW w \in Workers, pc[w] \in {"params", "stdin"}, HandedOver(w),
         UNCHANGED <<nvps, usedNvps, body, sock>>, pc' = pc,
         Header(Pending(w)).id # id[w]
  PROVE  OwnInv'
<1>1. PICK c \in Connections : c = sock[w]
  BY Holds
<1> DEFINE r == Header(Pending(w))
           g == got[c]
           h == Beginning(g, r)
<1>2. g # <<>> /\ id[w] = stream[c][1].id /\ g \in Seq(Records) /\ ConnectionOk(c)
  BY <1>1, Holds DEF WorkerOk, StreamInv, StreamTyped
<1>3. h = g[1] /\ g[1] = stream[c][1]
  <2>1. 1 \in 1..Len(g)
    BY <1>2
  <2> QED BY <1>2, <2>1 DEF ConnectionOk, Beginning
<1>4. \A type : Adds(h, r, type) = <<>>
  BY <1>2, <1>3 DEF Adds
<1>5. /\ Own(g, "PARAMS") \o <<>> = Own(g, "PARAMS")
      /\ Own(g, "STDIN") \o <<>> = Own(g, "STDIN")
  BY <1>2, OwnType
<1>6. OwnOk(w) /\ OwnTyped'
  BY DEF OwnInv, OwnTyped
<1>7. pc' = [pc EXCEPT ![w] = pc[w]]
  BY DEF StreamInv, Inv, Typed
<1> DEFINE params == Own(g, "PARAMS") \o Adds(h, r, "PARAMS")
           stdin  == Own(g, "STDIN") \o Adds(h, r, "STDIN")
<1>8. params = Own(g, "PARAMS") /\ stdin = Own(g, "STDIN")
  BY <1>4, <1>5
<1>9. PutTogether(w, pc[w], params, stdin)
  BY <1>1, <1>6, <1>8, Zenon DEF OwnOk, PutTogether
<1> QED BY <1>1, <1>6, <1>7, <1>9, OwnGoesOn

LEMMA Joined ==
  ASSUME NEW X, NEW s \in Seq(X), NEW t \in Seq(X)
  PROVE  /\ s \o t \in Seq(X) /\ Len(s \o t) = Len(s) + Len(t)
         /\ Len(s) \in Nat /\ Len(t) \in Nat
         /\ \A i \in 1..Len(s) : (s \o t)[i] = s[i]
         /\ \A i \in 1..Len(t) : (s \o t)[Len(s) + i] = t[i]
OBVIOUS

\* new behind qs.
LEMMA Continued ==
  ASSUME NEW qs \in Seq(Param), NEW new \in Seq(Param), NEW front \in Seq(Param),
         NEW back \in Seq(Param), Begins(front, qs), Len(front) <= Len(qs)
  PROVE  front \o new \o back \in Seq(Param) /\ Begins(front \o new \o back, qs \o new)
<1>1. /\ front \o new \in Seq(Param) /\ Len(front \o new) = Len(qs) + Len(new)
      /\ Len(qs) \in Nat /\ Len(new) \in Nat
      /\ \A i \in 1..Len(qs) : (front \o new)[i] = front[i]
      /\ \A i \in 1..Len(new) : (front \o new)[Len(qs) + i] = new[i]
  <2>1. /\ front \o new \in Seq(Param) /\ Len(front \o new) = Len(front) + Len(new)
        /\ Len(front) \in Nat /\ Len(new) \in Nat
        /\ \A i \in 1..Len(front) : (front \o new)[i] = front[i]
        /\ \A i \in 1..Len(new) : (front \o new)[Len(front) + i] = new[i]
    BY Joined
  <2>2. Len(front) = Len(qs)
    BY <2>1 DEF Begins
  <2> QED BY <2>1, <2>2
<1>2. /\ qs \o new \in Seq(Param) /\ Len(qs \o new) = Len(qs) + Len(new)
      /\ \A i \in 1..Len(qs) : (qs \o new)[i] = qs[i]
      /\ \A i \in 1..Len(new) : (qs \o new)[Len(qs) + i] = new[i]
  BY Joined
<1> DEFINE f == front \o new
           j == qs \o new
<1> HIDE DEF f, j
<1>3. /\ f \o back \in Seq(Param) /\ Len(f \o back) = Len(f) + Len(back) /\ Len(back) \in Nat
      /\ \A i \in 1..Len(f) : (f \o back)[i] = f[i]
  <2>1. f \in Seq(Param)
    BY <1>1 DEF f
  <2> QED BY <2>1, Joined, Zenon
<1>4. \A i \in 1..(Len(qs) + Len(new)) :
        i \in 1..Len(qs) \/ (i - Len(qs) \in 1..Len(new) /\ Len(qs) + (i - Len(qs)) = i)
  BY <1>1
<1>5. \A i \in 1..Len(qs) : front[i] = qs[i]
  BY DEF Begins
<1>6. ASSUME NEW i \in 1..(Len(qs) + Len(new)) PROVE f[i] = j[i]
  <2>1. CASE i \in 1..Len(qs)
    BY <2>1, <1>1, <1>2, <1>5 DEF f, j
  <2>2. CASE i - Len(qs) \in 1..Len(new) /\ Len(qs) + (i - Len(qs)) = i
    BY <2>2, <1>1, <1>2 DEF f, j
  <2> QED BY <2>1, <2>2, <1>4
<1>7. Len(f) = Len(qs) + Len(new) /\ Len(j) = Len(qs) + Len(new)
  BY <1>1, <1>2 DEF f, j
<1>8. Begins(f \o back, j)
  BY <1>1, <1>3, <1>6, <1>7 DEF Begins
<1> QED BY <1>3, <1>8 DEF f, j

\* What Overwrite leaves in the array.
LEMMA Overwritten ==
  ASSUME NEW ps \in Seq(Param), NEW qs \in Seq(Param), NEW new \in Seq(Param),
         Begins(ps, qs)
  PROVE  /\ Overwrite(ps, Len(qs), new) \in Seq(Param)
         /\ Begins(Overwrite(ps, Len(qs), new), qs \o new)
<1>1. Len(qs) \in Nat /\ Len(new) \in Nat /\ Len(ps) \in Nat /\ Len(qs) <= Len(ps)
  BY DEF Begins
<1> DEFINE front == SubSeq(ps, 1, Len(qs))
           back  == SubSeq(ps, Len(qs) + Len(new) + 1, Len(ps))
<1>2. front \in Seq(Param) /\ Len(front) = Len(qs) /\ \A i \in 1..Len(qs) : front[i] = ps[i]
  BY <1>1
<1>3. back \in Seq(Param)
  BY <1>1
<1>4. Overwrite(ps, Len(qs), new) = front \o new \o back
  BY DEF Overwrite
<1> HIDE DEF front, back
<1>5. Begins(front, qs) /\ Len(front) <= Len(qs)
  BY <1>1, <1>2 DEF Begins
<1> QED BY <1>2, <1>3, <1>4, <1>5, Continued

\* What the records of worker w add to the request it puts together.
LEMMA OwnFirst ==
  ASSUME StreamInv, OwnInv, OwnTyped', NEW w \in Workers, BeginRequest(w)
  PROVE  OwnInv'
<1>1. HandedOver(w) /\ pc[w] = "begin" /\ UNCHANGED <<nvps, usedNvps, bodyLen, body>>
  BY RecordHanded DEF BeginRequest
<1> DEFINE r == Header(Pending(w))
<1>2. CASE Done(w, "First message is not BEGIN_REQUEST")
  BY <1>1, <1>2, OwnIdle DEF Done
<1>3. CASE Done(w, "a role besides RESPONDER")
  BY <1>1, <1>3, OwnIdle DEF Done
<1>4. CASE r.type = "BEGIN_REQUEST" /\ GoOn(w, "params", "")
  <2>1. PICK c \in Connections : c = sock[w]
    BY <1>1, Holds
  <2>2. got[c] = <<>> /\ usedNvps[w] = 0
    BY <1>1, <2>1, Holds DEF WorkerOk, OwnInv, OwnOk
  <2>3. pc' = [pc EXCEPT ![w] = "params"] /\ UNCHANGED sock
    BY <1>4 DEF GoOn
  <2> DEFINE h == Beginning(got[c], r)
             params == Own(got[c], "PARAMS") \o Adds(h, r, "PARAMS")
             stdin  == Own(got[c], "STDIN") \o Adds(h, r, "STDIN")
  <2>4. Adds(h, r, "PARAMS") = <<>> /\ Adds(h, r, "STDIN") = <<>>
    BY <1>4 DEF Adds
  <2>5. Own(got[c], "PARAMS") = <<>> /\ Own(got[c], "STDIN") = <<>>
    BY <2>2, OwnNone
  <2>6. <<>> \o <<>> = <<>> /\ Len(<<>>) = 0
    OBVIOUS
  <2>7. params = <<>> /\ stdin = <<>>
    BY <2>4, <2>5, <2>6
  <2>8. nvps[w] \in Seq(Param)
    BY DEF OwnInv, OwnTyped
  <2>9. Begins(nvps[w], <<>>)
    BY <2>6, <2>8 DEF Begins
  <2> HIDE DEF params, stdin
  <2>10. usedNvps'[w] = Len(params) /\ Begins(nvps'[w], params) /\ stdin = <<>>
    BY <1>1, <2>2, <2>6, <2>7, <2>9
  <2>11. PutTogether(w, "params", params, stdin)
    BY <2>10 DEF PutTogether
  <2>12. pc[w] \notin {"idle", "complain", "log"}
    BY <1>1
  <2>13. \A v \in Workers : v # w =>
           nvps'[v] = nvps[v] /\ usedNvps'[v] = usedNvps[v] /\ body'[v] = body[v]
    BY <1>1
  <2> QED BY <1>1, <2>1, <2>3, <2>11, <2>12, <2>13, OwnGoesOn DEF params, stdin
<1> QED BY <1>2, <1>3, <1>4 DEF BeginRequest

LEMMA OwnRecord ==
  ASSUME StreamInv, OwnInv, NEW w \in Workers, pc[w] \in {"params", "stdin"}, HandedOver(w),
         ~OtherRequest(w, Header(Pending(w))), NEW c \in Connections, c = sock[w]
  PROVE  LET r == Header(Pending(w)) IN
         /\ got[c] \in Seq(Records) /\ r \in Records /\ r.content \in Seq(Things)
         /\ \A type : Adds(Beginning(got[c], r), r, type) = IF r.type = type THEN r.content ELSE <<>>
<1> DEFINE r == Header(Pending(w))
           g == got[c]
<1>1. g # <<>> /\ id[w] = stream[c][1].id /\ g \in Seq(Records) /\ ConnectionOk(c)
  BY Holds DEF WorkerOk, StreamInv, StreamTyped
<1>2. 1 \in 1..Len(g)
  BY <1>1
<1>3. Beginning(g, r) = g[1] /\ g[1] = stream[c][1]
  BY <1>1, <1>2 DEF ConnectionOk, Beginning
<1>4. r.id = id[w]
  BY DEF OtherRequest, Number
<1>5. r \in Records
  BY NextRecord DEF HandedOver
<1>6. r.content \in Seq(Things)
  BY <1>5, ContentFacts
<1>7. r.id = Beginning(g, r).id
  BY <1>1, <1>3, <1>4
<1> HIDE DEF r, g
<1>8. \A type : Adds(Beginning(g, r), r, type) = IF r.type = type THEN r.content ELSE <<>>
  BY <1>7, Zenon DEF Adds
<1> QED BY <1>1, <1>5, <1>6, <1>8 DEF r, g

\* The first parameter of a name.
LEMMA NamedFacts ==
  ASSUME NEW X, NEW q \in Seq(X), NEW name
  PROVE  LET n == Named(q, name) IN
         /\ n \in 0..Len(q)
         /\ n = 0 => \A i \in 1..Len(q) : q[i].name # name
         /\ n # 0 => q[n].name = name /\ \A i \in 1..Len(q) : i < n => q[i].name # name
<1> DEFINE I == {i \in 1..Len(q) : q[i].name = name}
           n == Named(q, name)
<1>1. n = IF I # {} THEN Min(I) ELSE 0
  BY DEF Named, SelectInSeq
<1>2. Len(q) \in Nat
  OBVIOUS
<1>3. CASE I = {}
  BY <1>1, <1>2, <1>3
<1>4. CASE I # {}
  <2>1. I \in SUBSET Nat
    OBVIOUS
  <2>2. \E x \in I : \A y \in I : x <= y
    BY <1>4, <2>1, S!Least, Zenon
  <2>3. n \in I /\ \A y \in I : n <= y
    <3> HIDE DEF I
    <3> QED BY <1>1, <1>4, <2>2 DEF Min
  <2> HIDE DEF n
  <2>4. ASSUME NEW i \in 1..Len(q), i < n PROVE q[i].name # name
    <3>1. ~(n <= i)
      BY <2>3, <2>4
    <3> QED BY <2>3, <3>1
  <2> QED BY <2>3, <2>4 DEF n
<1> QED BY <1>3, <1>4

LEMMA ThingsAreParams == ASSUME NEW q \in Seq(Things) PROVE q \in Seq(Param)
<1>1. Things \subseteq Param
  BY Zenon DEF Param
<1> QED BY <1>1

LEMMA OwnParams ==
  ASSUME StreamInv, OwnInv, NEW w \in Workers, Params(w)
  PROVE  OwnInv'
<1> DEFINE r == Header(Pending(w))
<1>1. HandedOver(w) /\ pc[w] = "params"
  BY RecordHanded DEF Params
<1>2. PICK c \in Connections : c = sock[w]
  BY <1>1, Holds
<1>3. /\ usedNvps[w] = Len(Own(got[c], "PARAMS")) /\ Begins(nvps[w], Own(got[c], "PARAMS"))
      /\ Own(got[c], "STDIN") = <<>> /\ nvps[w] \in Seq(Param)
  BY <1>1, <1>2 DEF OwnInv, OwnOk, OwnTyped
<1>4. CASE OtherRequest(w, r)
  <2>1. UNCHANGED request /\ GoOn(w, "params", "Ignoring environment variables")
    BY <1>4 DEF Params
  <2>2. UNCHANGED <<nvps, usedNvps, body, sock>> /\ pc' = [pc EXCEPT ![w] = "params"]
    BY <2>1 DEF GoOn, request
  <2>3. pc' = pc
    BY <1>1, <2>2 DEF StreamInv, Inv, Typed
  <2>4. r.id # id[w]
    BY <1>4 DEF OtherRequest, Number
  <2> QED BY <1>1, <2>2, <2>3, <2>4, OwnOther
<1>5. CASE ~OtherRequest(w, r) /\ r.type # "PARAMS"
  <2>1. UNCHANGED request /\ Done(w, "Expected FCGI_PARAMS")
    BY <1>5 DEF Params
  <2>2. OwnTyped' /\ UNCHANGED <<nvps, usedNvps, body>>
    BY <2>1 DEF request, OwnInv, OwnTyped
  <2> QED BY <1>1, <2>1, <2>2, OwnIdle DEF Done
<1>6. ASSUME ~OtherRequest(w, r)
      PROVE  /\ got[c] \in Seq(Records) /\ r \in Records /\ r.content \in Seq(Things)
             /\ \A type : Adds(Beginning(got[c], r), r, type) = IF r.type = type THEN r.content ELSE <<>>
  BY <1>1, <1>2, <1>6, OwnRecord
<1> DEFINE ps == Own(got[c], "PARAMS")
           h  == Beginning(got[c], r)
<1>7. ASSUME got[c] \in Seq(Records) PROVE ps \in Seq(Param)
  BY <1>7, OwnType, ThingsAreParams
<1>8. CASE ~OtherRequest(w, r) /\ r.type = "PARAMS" /\ r.content # <<>>
  <2>1. PICK bad :
          LET new == IF bad = 0 THEN r.content ELSE SubSeq(r.content, 1, bad - 1)
          IN /\ bad \in 0..Len(r.content)
             /\ nvps' = [nvps EXCEPT ![w] = Overwrite(@, usedNvps[w], new)]
             /\ usedNvps' = [usedNvps EXCEPT ![w] = @ + Len(new)]
             /\ UNCHANGED <<id, bodyLen, body>>
             /\ IF bad = 0 THEN GoOn(w, "params", "") ELSE Done(w, "Error reading FCGI_PARAMS")
    <3>1. r.content \in Seq(Things)
      BY <1>6, <1>8
    <3>2. Named(r.content, "malformed") \in 0..Len(r.content)
      BY <3>1, NamedFacts
    <3> QED BY <1>8, <3>2 DEF Params
  <2> DEFINE new == IF bad = 0 THEN r.content ELSE SubSeq(r.content, 1, bad - 1)
  <2>2. new \in Seq(Param)
    <3> DEFINE t == r.content
    <3>1. t \in Seq(Things)
      BY <1>6, <1>8
    <3> HIDE DEF t
    <3>2. t \in Seq(Param)
      BY <3>1, ThingsAreParams
    <3>3. bad # 0 => SubSeq(t, 1, bad - 1) \in Seq(Param)
      <4> SUFFICES ASSUME bad # 0 PROVE SubSeq(t, 1, bad - 1) \in Seq(Param)
        OBVIOUS
      <4>1. bad - 1 \in 0..Len(t)
        <5>1. bad \in 0..Len(t)
          BY <2>1 DEF t
        <5>2. Len(t) \in Nat
          BY <3>1
        <5> QED BY <5>1, <5>2
      <4> QED BY <3>2, <4>1
    <3> QED BY <3>2, <3>3 DEF t
  <2>3. /\ nvps' = [nvps EXCEPT ![w] = Overwrite(nvps[w], Len(ps), new)]
        /\ usedNvps' = [usedNvps EXCEPT ![w] = Len(ps) + Len(new)]
        /\ UNCHANGED body
    BY <1>3, <2>1
  <2> HIDE DEF new
  <2>4. ps \in Seq(Param)
    BY <1>6, <1>7, <1>8
  <2>5. /\ Overwrite(nvps[w], Len(ps), new) \in Seq(Param)
        /\ Begins(Overwrite(nvps[w], Len(ps), new), ps \o new)
    BY <1>3, <2>2, <2>4, Overwritten
  <2>6. Len(ps) + Len(new) \in Nat /\ Len(ps \o new) = Len(ps) + Len(new)
    <3> HIDE DEF ps
    <3> QED BY <2>2, <2>4
  <2> HIDE DEF ps
  <2>7. OwnTyped'
    BY <2>3, <2>5, <2>6 DEF OwnInv, OwnTyped
  <2>8. \A v \in Workers : v # w =>
          nvps'[v] = nvps[v] /\ usedNvps'[v] = usedNvps[v] /\ body'[v] = body[v]
    BY <2>3 DEF OwnInv, OwnTyped
  <2>9. CASE bad = 0
    <3>1. new = r.content /\ GoOn(w, "params", "")
      BY <2>1, <2>9 DEF new
    <3>2. pc' = [pc EXCEPT ![w] = "params"] /\ UNCHANGED sock
      BY <3>1 DEF GoOn
    <3>3. Adds(h, r, "PARAMS") = new /\ Adds(h, r, "STDIN") = <<>>
      BY <1>6, <1>8, <3>1
    <3>4. Own(got[c], "STDIN") \o <<>> = <<>>
      BY <1>3
    <3>5. nvps'[w] = Overwrite(nvps[w], Len(ps), new) /\ usedNvps'[w] = Len(ps) + Len(new)
      BY <2>3 DEF OwnInv, OwnTyped
    <3>6. PutTogether(w, "params", ps \o new, Own(got[c], "STDIN") \o <<>>)
      BY <2>5, <2>6, <3>4, <3>5 DEF PutTogether
    <3>7. PutTogether(w, "params", Own(got[c], "PARAMS") \o Adds(h, r, "PARAMS"),
                                   Own(got[c], "STDIN") \o Adds(h, r, "STDIN"))
      BY <3>3, <3>6, Zenon DEF ps
    <3> QED BY <1>1, <1>2, <2>7, <2>8, <3>2, <3>7, OwnGoesOn
  <2>10. CASE bad # 0
    <3>1. Done(w, "Error reading FCGI_PARAMS")
      BY <2>1, <2>10
    <3> QED BY <1>1, <2>7, <2>8, <3>1, OwnIdle DEF Done
  <2> QED BY <2>9, <2>10
<1>9. CASE ~OtherRequest(w, r) /\ r.type = "PARAMS" /\ r.content = <<>>
  <2> DEFINE label == IF bodyLen'[w] = 0 THEN "ready" ELSE "stdin"
  <2>1. /\ nvps' = [nvps EXCEPT ![w] = Overwrite(nvps[w], Len(ps), Closing)]
        /\ body' = [body EXCEPT ![w] = <<>>] /\ UNCHANGED usedNvps
        /\ Done(w, "Invalid Content-Length") \/ GoOn(w, label, "")
    BY <1>3, <1>9 DEF Params
  <2>2. label = "ready" \/ label = "stdin"
    OBVIOUS
  <2> HIDE DEF label
  <2>3. Closing \in Seq(Param)
    BY DEF Closing, Param
  <2>4. ps \in Seq(Param)
    BY <1>6, <1>7, <1>9
  <2>5. /\ Overwrite(nvps[w], Len(ps), Closing) \in Seq(Param)
        /\ Begins(Overwrite(nvps[w], Len(ps), Closing), ps \o Closing)
    BY <1>3, <2>3, <2>4, Overwritten
  <2>6. ps \o <<>> = ps /\ <<>> \in Seq(Things)
    <3> HIDE DEF ps
    <3> QED BY <2>4
  <2> HIDE DEF ps
  <2>7. OwnTyped'
    BY <2>1, <2>5, <2>6 DEF OwnInv, OwnTyped
  <2>8. \A v \in Workers : v # w =>
          nvps'[v] = nvps[v] /\ usedNvps'[v] = usedNvps[v] /\ body'[v] = body[v]
    BY <2>1 DEF OwnInv, OwnTyped
  <2>9. CASE Done(w, "Invalid Content-Length")
    BY <1>1, <2>7, <2>8, <2>9, OwnIdle DEF Done
  <2>10. CASE GoOn(w, label, "")
    <3>1. pc' = [pc EXCEPT ![w] = label] /\ UNCHANGED sock
      BY <2>10 DEF GoOn
    <3>2. Adds(h, r, "PARAMS") = <<>> /\ Adds(h, r, "STDIN") = <<>>
      BY <1>6, <1>9
    <3>3. Own(got[c], "STDIN") \o <<>> = <<>>
      BY <1>3
    <3>4. nvps'[w] = Overwrite(nvps[w], Len(ps), Closing) /\ body'[w] = <<>>
      BY <2>1 DEF OwnInv, OwnTyped
    <3>5. PutTogether(w, label, ps \o <<>>, Own(got[c], "STDIN") \o <<>>)
      BY <2>2, <2>5, <2>6, <3>3, <3>4 DEF PutTogether
    <3>6. PutTogether(w, label, Own(got[c], "PARAMS") \o Adds(h, r, "PARAMS"),
                                Own(got[c], "STDIN") \o Adds(h, r, "STDIN"))
      BY <3>2, <3>5, Zenon DEF ps
    <3> QED BY <1>1, <1>2, <2>7, <2>8, <3>1, <3>6, OwnGoesOn
  <2> QED BY <2>1, <2>9, <2>10
<1> QED BY <1>4, <1>5, <1>8, <1>9

LEMMA OwnStdin ==
  ASSUME StreamInv, OwnInv, NEW w \in Workers, Stdin(w)
  PROVE  OwnInv'
<1> DEFINE r == Header(Pending(w))
           ends == Len(body[w]) + Len(r.content) = bodyLen[w]
           label == IF ends THEN "ready" ELSE "stdin"
<1>1. HandedOver(w) /\ pc[w] = "stdin" /\ UNCHANGED <<nvps, usedNvps>>
  BY RecordHanded DEF Stdin
<1>2. PICK c \in Connections : c = sock[w]
  BY <1>1, Holds
<1> DEFINE ps == Own(got[c], "PARAMS")
           b  == Own(got[c], "STDIN")
           h  == Beginning(got[c], r)
<1>3. Begins(nvps[w], ps \o Closing) /\ body[w] = b
  BY <1>1, <1>2 DEF OwnInv, OwnOk
<1>4. ASSUME UNCHANGED body
      PROVE  OwnTyped' /\ \A v \in Workers : v # w =>
               nvps'[v] = nvps[v] /\ usedNvps'[v] = usedNvps[v] /\ body'[v] = body[v]
  BY <1>1, <1>4 DEF OwnInv, OwnTyped
<1>5. ASSUME NEW text, Done(w, text), UNCHANGED body PROVE OwnInv'
  BY <1>1, <1>4, <1>5, OwnIdle DEF Done
<1>6. CASE OtherRequest(w, r) /\ UNCHANGED body /\ GoOn(w, "stdin", "Ignoring STDIN")
  <2>1. sock' = sock /\ pc' = [pc EXCEPT ![w] = "stdin"]
    BY <1>6 DEF GoOn
  <2>2. pc' = pc
    BY <1>1, <2>1 DEF StreamInv, Inv, Typed
  <2>3. r.id # id[w]
    BY <1>6 DEF OtherRequest, Number
  <2> QED BY <1>1, <1>6, <2>1, <2>2, <2>3, OwnOther
<1>7. ASSUME ~OtherRequest(w, r), r.type = "STDIN"
      PROVE  /\ Adds(h, r, "STDIN") = r.content /\ Adds(h, r, "PARAMS") = <<>>
             /\ r.content \in Seq(Things) /\ b \in Seq(Things)
             /\ ps \o <<>> = ps /\ b \o <<>> = b
  <2>1. /\ got[c] \in Seq(Records) /\ r.content \in Seq(Things)
        /\ \A type : Adds(h, r, type) = IF r.type = type THEN r.content ELSE <<>>
    BY <1>1, <1>2, <1>7, OwnRecord
  <2>2. ps \in Seq(Things) /\ b \in Seq(Things)
    BY <2>1, OwnType
  <2> HIDE DEF ps, b, h
  <2>3. ps \o <<>> = ps /\ b \o <<>> = b
    BY <2>2
  <2>4. Adds(h, r, "STDIN") = r.content /\ Adds(h, r, "PARAMS") = <<>>
    BY <1>7, <2>1
  <2> QED BY <2>1, <2>2, <2>3, <2>4
<1>8. ASSUME ~OtherRequest(w, r), r.type = "STDIN", NEW l \in {"stdin", "ready"}, NEW text,
             GoOn(w, l, text), body' = [body EXCEPT ![w] = b \o r.content]
      PROVE  OwnInv'
  <2>1. pc' = [pc EXCEPT ![w] = l] /\ UNCHANGED sock
    BY <1>8 DEF GoOn
  <2>2. b \o r.content \in Seq(Things)
    <3> HIDE DEF b
    <3> QED BY <1>7, <1>8
  <2> HIDE DEF ps, b
  <2>3. OwnTyped' /\ body'[w] = b \o r.content
    BY <1>1, <1>8, <2>2 DEF OwnInv, OwnTyped
  <2>4. \A v \in Workers : v # w =>
          nvps'[v] = nvps[v] /\ usedNvps'[v] = usedNvps[v] /\ body'[v] = body[v]
    BY <1>1, <1>8 DEF OwnInv, OwnTyped
  <2>5. PutTogether(w, l, ps \o <<>>, b \o r.content)
    BY <1>1, <1>3, <1>7, <1>8, <2>3 DEF PutTogether
  <2>6. PutTogether(w, l, Own(got[c], "PARAMS") \o Adds(h, r, "PARAMS"),
                          Own(got[c], "STDIN") \o Adds(h, r, "STDIN"))
    BY <1>7, <1>8, <2>5, Zenon DEF ps, b
  <2>7. pc[w] \notin {"idle", "complain", "log"}
    BY <1>1
  <2> QED BY <1>1, <1>2, <2>1, <2>3, <2>4, <2>6, <2>7, OwnGoesOn
<1>9. CASE ~OtherRequest(w, r) /\ r.type = "STDIN" /\ r.content = <<>> /\ UNCHANGED body
           /\ GoOn(w, "ready", "End of STDIN")
  <2>1. b \o r.content = b
    BY <1>7, <1>9
  <2>2. body' = [body EXCEPT ![w] = b \o r.content]
    <3> HIDE DEF b
    <3> QED BY <1>3, <1>9, <2>1 DEF OwnInv, OwnTyped
  <2> HIDE DEF b
  <2> QED BY <1>8, <1>9, <2>2
<1>10. CASE ~OtherRequest(w, r) /\ r.type = "STDIN"
            /\ body' = [body EXCEPT ![w] = @ \o r.content] /\ GoOn(w, label, "")
  <2>1. body' = [body EXCEPT ![w] = b \o r.content]
    BY <1>3, <1>10
  <2>2. label = "ready" \/ label = "stdin"
    OBVIOUS
  <2> HIDE DEF b, label
  <2> QED BY <1>8, <1>10, <2>1, <2>2
<1>11. \/ OtherRequest(w, r) /\ UNCHANGED body /\ GoOn(w, "stdin", "Ignoring STDIN")
       \/ UNCHANGED body /\ Done(w, "Expected FCGI_STDIN")
       \/ UNCHANGED body /\ Done(w, "Too much STDIN")
       \/ ~OtherRequest(w, r) /\ r.type = "STDIN" /\ r.content = <<>> /\ UNCHANGED body
            /\ GoOn(w, "ready", "End of STDIN")
       \/ ~OtherRequest(w, r) /\ r.type = "STDIN"
            /\ body' = [body EXCEPT ![w] = @ \o r.content] /\ GoOn(w, label, "")
  BY Zenon DEF Stdin
<1> QED BY <1>5, <1>6, <1>9, <1>10, <1>11

LEMMA OwnNext == ASSUME StreamInv, StreamInv', OwnInv, [Next]_vars PROVE OwnInv'
<1>1. ASSUME NEW w \in Workers, Work(w) PROVE OwnInv'
  <2>1. CASE Dequeue(w)
    <3>1. /\ sock' = [sock EXCEPT ![w] = Head(queue)] /\ pc' = [pc EXCEPT ![w] = "begin"]
          /\ usedNvps' = [usedNvps EXCEPT ![w] = 0] /\ UNCHANGED <<nvps, body, got>>
      BY <2>1 DEF Dequeue
    <3>2. \A v \in Workers :
            \/ pc'[v] = "begin" /\ usedNvps'[v] = 0
            \/ pc'[v] = pc[v] /\ sock'[v] = sock[v] /\ usedNvps'[v] = usedNvps[v]
      BY <3>1 DEF StreamInv, Inv, Typed, OwnInv, OwnTyped
    <3>3. usedNvps' \in [Workers -> Nat]
      BY <3>1 DEF OwnInv, OwnTyped
    <3> QED BY <3>1, <3>2, <3>3, OwnStays
  <2>2. CASE Recv(w)
    BY <2>2, OwnStays DEF Recv, request, OwnInv, OwnTyped
  <2>3. CASE RecvFails(w)
    <3>1. pc[w] \notin {"idle", "complain", "log"} /\ UNCHANGED <<nvps, usedNvps, body, got>> /\ Idle(w)
      BY <2>3 DEF RecvFails, Reading, request, Done
    <3>2. OwnTyped'
      BY <3>1 DEF OwnInv, OwnTyped
    <3> QED BY <3>1, <3>2, OwnIdle
  <2>4. CASE BeginRequest(w)
    <3>1. OwnTyped'
      BY <2>4 DEF BeginRequest, OwnInv, OwnTyped
    <3> QED BY <2>4, <3>1, OwnFirst
  <2>5. CASE Call(w)
    <3>1. pc[w] = "ready" /\ UNCHANGED <<nvps, usedNvps, body, got>>
      BY <2>5 DEF Call, request
    <3>2. OwnTyped'
      BY <3>1 DEF OwnInv, OwnTyped
    <3>3. CASE Done(w, "REQUEST_METHOD or SCRIPT_NAME not set")
      BY <3>1, <3>2, <3>3, OwnIdle DEF Done
    <3>4. CASE pc' = [pc EXCEPT ![w] = "handling"] /\ UNCHANGED sock
      <4>1. \A v \in Workers :
              /\ pc'[v] = pc[v] \/ (pc[v] = "ready" /\ pc'[v] = "handling")
              /\ sock'[v] = sock[v] /\ usedNvps'[v] = usedNvps[v]
        BY <3>1, <3>4 DEF StreamInv, Inv, Typed
      <4>2. usedNvps' \in [Workers -> Nat]
        BY <3>2 DEF OwnTyped
      <4> QED BY <3>1, <4>1, <4>2, OwnStays
    <3> QED BY <2>5, <3>3, <3>4 DEF Call
  <2>6. CASE Answer(w) \/ KeepOpen(w) \/ Log(w)
    <3>1. /\ UNCHANGED <<nvps, usedNvps, body, got>> /\ \E label \in {"idle", "complain", "log"} :
               pc' = [pc EXCEPT ![w] = label]
          /\ sock' = [sock EXCEPT ![w] = "none"] \/ UNCHANGED sock
      BY <2>6 DEF Answer, KeepOpen, Park, AnswerPoll, Log, Idle, request
    <3>2. \A v \in Workers :
            \/ pc'[v] \in {"idle", "complain", "log"}
            \/ pc'[v] = pc[v] /\ sock'[v] = sock[v] /\ usedNvps'[v] = usedNvps[v]
      BY <3>1 DEF StreamInv, Inv, Typed
    <3>3. usedNvps' \in [Workers -> Nat]
      BY <3>1 DEF OwnInv, OwnTyped
    <3> QED BY <3>1, <3>2, <3>3, OwnStays
  <2> QED BY <1>1, <2>1, <2>2, <2>3, <2>4, <2>5, <2>6, OwnParams, OwnStdin DEF Work
<1>2. ASSUME NEW c \in Connections, Accept(c) \/ Delivery(c) \/ ClosePoll(c) PROVE OwnInv'
  <2>1. UNCHANGED <<nvps, usedNvps, body, got, pc, sock>>
    BY <1>2 DEF Accept, Delivery, Deliver, ClosePoll, request
  <2> QED BY <2>1, OwnStays DEF OwnInv, OwnTyped
<1>3. CASE UNCHANGED vars
  BY <1>3, OwnStays DEF vars, conns, request, OwnInv, OwnTyped
<1> QED BY <1>1, <1>2, <1>3 DEF Next

-----------------------------------------------------------------------------
(* The theorems.                                                            *)

(* The front end does with its sockets what Sockets says.                   *)
THEOREM SocketsArePassedOn == Spec => S!Spec
<1>1. Inv /\ [Next]_vars => Inv' /\ [S!Next]_(S!vars)
  BY NextStep
<1> QED BY <1>1, InitInv, PTL DEF Spec, S!Spec

FilesTyped == /\ fd \in [Connections -> Descriptors \cup {0}]
              /\ outSock \in [Workers -> Descriptors \cup {0}]

\* Nothing is opened, and whoever has a socket had it before.
LEMMA FilesStay ==
  ASSUME OwnDescriptor, S!Inv', UNCHANGED files, NEW w \in Workers, Inv, S!Inv,
         S!Part(w) \/ UNCHANGED S!vars
  PROVE  OwnDescriptor'
<1>1. place \in [Connections -> {"new", "queued", "worker", "parked", "closed"}]
  BY DEF S!Inv, S!Typed
<1>2. \A c \in Connections : place'[c] \notin {"new", "closed"} => place[c] \notin {"new", "closed"}
  <2>1. CASE S!Part(w)
    <3>1. PICK p \in {"parked", "closed"} :
            sock[w] # "none" /\ place' = [place EXCEPT ![sock[w]] = p]
      BY <2>1 DEF S!Part, S!GiveUp
    <3>2. sock[w] \in Connections /\ place[sock[w]] = "worker"
      BY <3>1 DEF Inv, Typed, S!Inv, S!WorkerHolds
    <3> QED BY <1>1, <3>1, <3>2
  <2>2. CASE UNCHANGED S!vars
    BY <2>2 DEF S!vars
  <2> QED BY <2>1, <2>2
<1>3. \A v \in Workers : sock'[v] # "none" => sock'[v] = sock[v]
  BY DEF S!Part, S!GiveUp, S!vars, Inv, Typed
<1>4. \A v \in Workers : sock'[v] # "none" => sock'[v] \in Connections /\ place'[sock'[v]] = "worker"
  <2>1. \A v \in Workers : sock'[v] # "none" => sock'[v] \in Connections
    BY <1>3 DEF Inv, Typed
  <2> QED BY <2>1 DEF S!Inv, S!WorkerHolds
<1>5. UNCHANGED <<fd, outSock>>
  BY DEF files
<1> QED BY <1>2, <1>3, <1>4, <1>5 DEF OwnDescriptor, Has

LEMMA DescriptorsStep ==
  ASSUME Inv, S!Inv, OwnDescriptor, FilesTyped, [Next]_vars PROVE OwnDescriptor' /\ FilesTyped'
<1>1. Inv' /\ S!Inv'
  BY NextStep, S!NextInv, FastCgiAssumption
<1>2. place \in [Connections -> {"new", "queued", "worker", "parked", "closed"}]
  BY DEF S!Inv, S!Typed
<1>3. ASSUME NEW c \in Connections, Accept(c) PROVE OwnDescriptor' /\ FilesTyped'
  <2>1. PICK d \in Descriptors : (\A e \in Connections : ~Has(e, d)) /\ fd' = [fd EXCEPT ![c] = d]
    BY <1>3 DEF Accept
  <2>2. /\ place[c] = "new" /\ place' = [place EXCEPT ![c] = "queued"]
        /\ UNCHANGED <<sock, outSock>>
    BY <1>3 DEF Accept
  <2>3. \A e \in Connections \ {c} : fd'[e] = fd[e] /\ place'[e] = place[e]
    BY <1>2, <2>1, <2>2 DEF FilesTyped
  <2>4. fd'[c] = d
    BY <2>1 DEF FilesTyped
  <2>5. \A v \in Workers : sock[v] # c
    BY <2>2 DEF S!Inv, S!WorkerHolds
  <2>6. \A v \in Workers : sock[v] # "none" => sock[v] \in Connections
    BY DEF Inv, Typed
  <2>7. FilesTyped'
    BY <2>1, <2>2 DEF FilesTyped
  <2>8. ASSUME NEW v \in Workers, sock'[v] # "none" PROVE Has(sock[v], outSock[v])'
    <3>1. sock[v] \in Connections \ {c} /\ Has(sock[v], outSock[v])
      BY <2>2, <2>5, <2>6, <2>8 DEF OwnDescriptor
    <3> QED BY <2>2, <2>3, <3>1 DEF Has
  <2>9. ASSUME NEW e \in Connections, NEW f \in Connections, Has(e, fd[f])', Has(f, fd[f])'
        PROVE  e = f
    <3>1. CASE e # c /\ f # c
      BY <2>3, <2>9, <3>1 DEF Has, OwnDescriptor
    <3>2. CASE e = c /\ f # c
      BY <2>1, <2>3, <2>4, <2>9, <3>2 DEF Has
    <3>3. CASE e # c /\ f = c
      BY <2>1, <2>3, <2>4, <2>9, <3>3 DEF Has
    <3> QED BY <3>1, <3>2, <3>3
  <2> QED BY <2>7, <2>8, <2>9 DEF OwnDescriptor
<1>4. ASSUME NEW w \in Workers, Work(w) PROVE OwnDescriptor' /\ FilesTyped'
  <2>1. CASE Dequeue(w)
    <3>1. PICK c \in Connections : c = Head(queue) /\ place[c] = "queued"
      BY <2>1 DEF Dequeue, S!Inv, S!Typed, S!QueueHolds
    <3>2. /\ sock' = [sock EXCEPT ![w] = c] /\ place' = [place EXCEPT ![c] = "worker"]
          /\ outSock' = [outSock EXCEPT ![w] = fd[c]] /\ UNCHANGED fd
      BY <2>1, <3>1 DEF Dequeue
    <3>3. \A e \in Connections :
            place'[e] \notin {"new", "closed"} <=> place[e] \notin {"new", "closed"}
      BY <1>2, <3>1, <3>2
    <3>4. sock'[w] = c /\ outSock'[w] = fd[c] /\ place'[c] = "worker"
      BY <1>2, <3>1, <3>2 DEF Inv, Typed, FilesTyped
    <3>5. \A v \in Workers \ {w} : sock'[v] = sock[v] /\ outSock'[v] = outSock[v]
      BY <3>2 DEF Inv, Typed, FilesTyped
    <3>6. \A v \in Workers : sock'[v] # "none" => Has(sock[v], outSock[v])'
      <4> SUFFICES ASSUME NEW v \in Workers, sock'[v] # "none" PROVE Has(sock[v], outSock[v])'
        OBVIOUS
      <4>1. CASE v = w
        BY <3>2, <3>4, <4>1 DEF Has
      <4>2. CASE v # w
        <5>1. Has(sock[v], outSock[v]) /\ sock[v] \in Connections
          BY <3>5, <4>2 DEF OwnDescriptor, Inv, Typed
        <5> QED BY <3>2, <3>3, <3>5, <4>2, <5>1 DEF Has
      <4> QED BY <4>1, <4>2
    <3>7. FilesTyped'
      BY <3>1, <3>2 DEF FilesTyped
    <3>8. \A e, f \in Connections : (Has(e, fd[f]) /\ Has(f, fd[f]))' => e = f
      BY <3>2, <3>3 DEF Has, OwnDescriptor
    <3> QED BY <3>6, <3>7, <3>8 DEF OwnDescriptor
  <2>2. CASE ~Dequeue(w)
    <3>1. UNCHANGED files /\ (S!Part(w) \/ UNCHANGED S!vars)
      BY <1>4, <2>2, WorkStep
    <3> QED BY <1>1, <3>1, FilesStay DEF FilesTyped, files
  <2> QED BY <2>1, <2>2
<1>5. ASSUME UNCHANGED files, UNCHANGED sock,
             \/ UNCHANGED place
             \/ \E c \in Connections : place[c] = "parked" /\ place' = [place EXCEPT ![c] = "closed"]
      PROVE  OwnDescriptor' /\ FilesTyped'
  <2>1. \A e \in Connections :
          place'[e] \notin {"new", "closed"} => place[e] \notin {"new", "closed"}
    BY <1>2, <1>5
  <2>2. \A v \in Workers : sock[v] # "none" => sock[v] \in Connections /\ place'[sock[v]] = "worker"
    <3>1. \A v \in Workers : sock[v] # "none" => sock[v] \in Connections
      BY DEF Inv, Typed
    <3> QED BY <1>1, <1>5, <3>1 DEF S!Inv, S!WorkerHolds
  <2>3. UNCHANGED <<fd, outSock, sock>>
    BY <1>5 DEF files
  <2> QED BY <2>1, <2>2, <2>3 DEF OwnDescriptor, Has, FilesTyped
<1>6. ASSUME NEW c \in Connections, Delivery(c) \/ ClosePoll(c) PROVE OwnDescriptor' /\ FilesTyped'
  BY <1>5, <1>6 DEF Delivery, Deliver, ClosePoll
<1>7. CASE UNCHANGED vars
  BY <1>5, <1>7 DEF vars, conns
<1> QED BY <1>3, <1>4, <1>6, <1>7 DEF Next

LEMMA DescriptorsInvariant == Spec => []OwnDescriptor
<1> DEFINE I == Inv /\ S!Inv /\ OwnDescriptor /\ FilesTyped
<1>1. Init => I
  <2>1. Init => S!Inv
    BY InitInv, S!InitInv, FastCgiAssumption
  <2>2. Init => OwnDescriptor /\ FilesTyped
    BY DEF Init, OwnDescriptor, Has, FilesTyped
  <2> QED BY <2>1, <2>2, InitInv
<1>2. I /\ [Next]_vars => I'
  BY NextStep, S!NextInv, DescriptorsStep, FastCgiAssumption
<1> QED BY <1>1, <1>2, PTL DEF Spec

(* A socket is in the queue once, or in the hands of one worker, or with a client, or      *)
(* closed, through every goto done, answer and KEEP_OPEN of worker (fastcgi.c:347-552); and *)
(* until a worker gives its socket up, the descriptor it sends and logs to is that of its  *)
(* own socket and of no other open one.  What it logs later (request.c:338-340) is         *)
(* written to a descriptor it does not own any more, and is left to EndedOnce.             *)
THEOREM SocketHasOneOwner == Spec => []OneOwner
<1>1. S!Spec => []S!OneOwner
  BY FastCgiAssumption, S!SocketHasOneOwner
<1>2. S!OneOwner /\ OwnDescriptor => OneOwner
  BY DEF S!OneOwner, OneOwner, Owners!OneOwner
<1> QED BY <1>1, <1>2, SocketsArePassedOn, DescriptorsInvariant, PTL

LEMMA StreamsInvariant == Spec => []StreamInv
<1>1. StreamInv /\ [Next]_vars => StreamInv'
  BY NextStream
<1> QED BY <1>1, InitStream, PTL DEF Spec

(* fastcgi_recv hands over the records that were sent on the connection, one by one and    *)
(* whole, however their bytes arrive and whoever receives them: the record handed over     *)
(* last is moved out of the buffer with its padding before the next is looked at           *)
(* (fastcgi.c:100-128).                                                                    *)
THEOREM RecordsInOrder == Spec => StreamIntact
<1>1. Init => Stream!Init
  BY DEF Init, Stream!Init
<1>2. StreamInv /\ [Next]_vars => [Stream!Next]_(Stream!vars)
  BY NextStream
<1> QED BY <1>1, <1>2, StreamsInvariant, PTL DEF Spec, StreamIntact, Stream!Spec

LEMMA OkEnds == ASSUME StreamInv PROVE EndedOnce
<1> SUFFICES ASSUME NEW c \in Connections
    PROVE  LET o == out[c]
               ends == {i \in 1..Len(o) : o[i].type = "END_REQUEST"}
               late == {i \in 1..Len(o) : o[i].type = "late STDERR"}
           IN /\ place[c] = "closed" => (ends = {} <=> asked[c] = "no")
              /\ place[c] \notin {"parked", "closed"} => ends = {}
              /\ \A i \in ends : \A j \in 1..Len(o) : j <= i \/ j \in late
              /\ asked[c] # "parked" =>
                   \A i \in 1..Len(o) : i \in late \/ o[i].id = stream[c][1].id
  BY Zenon DEF EndedOnce
<1> DEFINE o == out[c]
           ends == {i \in 1..Len(o) : o[i].type = "END_REQUEST"}
           late == {i \in 1..Len(o) : o[i].type = "late STDERR"}
<1>1. ConnectionOk(c) /\ o \in Seq(Message) /\ place[c] \in {"new", "queued", "worker", "parked", "closed"}
  BY DEF StreamInv, StreamTyped, S!Inv, S!Typed
<1>2. asked[c] # "parked" => \A i \in 1..Len(o) : i \in late \/ o[i].id = stream[c][1].id
  BY <1>1 DEF ConnectionOk, Bears
<1> HIDE DEF o
<1>3. ASSUME Open(o) PROVE ends = {}
  BY <1>3 DEF Open
<1>4. ASSUME Ended(o)
      PROVE  ends # {} /\ \A i \in ends : \A j \in 1..Len(o) : j <= i \/ j \in late
  <2>1. PICK k \in 1..Len(o) : EndsAt(o, k)
    BY <1>4 DEF Ended
  <2>2. k \in ends /\ \A i \in ends : i = k
    BY <2>1 DEF EndsAt
  <2>3. \A j \in 1..Len(o) : j <= k \/ j \in late
    <3>1. Len(o) \in Nat
      BY <1>1
    <3>2. \A j \in 1..Len(o) : j <= k \/ j > k
      BY <3>1
    <3> QED BY <2>1, <3>2 DEF EndsAt
  <2> QED BY <2>2, <2>3
<1>5. /\ place[c] = "closed" => IF asked[c] = "no" THEN Open(o) ELSE Ended(o)
      /\ place[c] = "parked" => Open(o) \/ Ended(o)
      /\ place[c] \notin {"parked", "closed"} => Open(o)
  BY <1>1 DEF ConnectionOk, o
<1>6. \A i \in ends : \A j \in 1..Len(o) : j <= i \/ j \in late
  BY <1>3, <1>4, <1>5
<1>7. place[c] = "closed" => (ends = {} <=> asked[c] = "no")
  BY <1>3, <1>4, <1>5
<1>8. place[c] \notin {"parked", "closed"} => ends = {}
  BY <1>3, <1>5
<1> HIDE DEF ends, late
<1> QED BY <1>2, <1>6, <1>7, <1>8 DEF o, ends, late

(* A request that was handled is ended once, by its worker or by whoever has a message for *)
(* it, before its socket is closed, and nothing follows its end but the lines that a       *)
(* worker logs of a poll whose socket it has given up (request.c:338-340), which go to     *)
(* whichever connection has the descriptor by then; all else that is sent of a request     *)
(* that no client holds bears the number of its BEGIN_REQUEST, whatever request the worker *)
(* had before (fastcgi_close_with, write_stderr and worker, fastcgi.c:158-168, 311-325,    *)
(* 347-552).                                                                               *)
THEOREM RequestsEndOnce == Spec => []EndedOnce
BY StreamsInvariant, OkEnds, PTL

-----------------------------------------------------------------------------
(* The request a worker hands to the program.                               *)

LEMMA InitOwn == Init => OwnInv
<1> SUFFICES ASSUME Init PROVE OwnInv
  OBVIOUS
<1>1. OwnTyped
  BY DEF Init, OwnTyped
<1>2. \A w \in Workers : pc[w] = "idle"
  BY DEF Init
<1>3. \A w \in Workers : OwnOk(w)
  BY <1>2 DEF OwnOk
<1> QED BY <1>1, <1>3 DEF OwnInv

LEMMA OwnInvariant == Spec => [](StreamInv /\ OwnInv)
<1>1. StreamInv /\ StreamInv' /\ OwnInv /\ [Next]_vars => OwnInv'
  BY OwnNext
<1> QED BY <1>1, InitOwn, StreamsInvariant, PTL DEF Spec

\* A name that ends the array.
Nameless(p) == p.name = ""

\* Every parameter that is sent has a name.
NamedParams == \A s \in AllStreams : \A r \in Range(s) :
  r.type = "PARAMS" => \A p \in Range(r.content) : ~Nameless(p)

NamedThings == {p \in Things : ~Nameless(p)}

LEMMA AddsNamed ==
  ASSUME NamedParams, NEW h, NEW r \in Records
  PROVE  Adds(h, r, "PARAMS") \in Seq(NamedThings)
<1>1. CASE r.type = "PARAMS"
  <2> DEFINE q == r.content
  <2>1. q \in Seq(Things) /\ \A p \in Range(q) : ~Nameless(p)
    BY <1>1, ContentFacts DEF NamedParams, Records
  <2>2. Adds(h, r, "PARAMS") \in {q, <<>>}
    BY Zenon DEF Adds
  <2> HIDE DEF q
  <2>3. \A i \in 1..Len(q) : q[i] \in NamedThings
    BY <2>1 DEF NamedThings, Range
  <2>4. q \in Seq(NamedThings) /\ <<>> \in Seq(NamedThings)
    BY <2>1, <2>3
  <2> QED BY <2>2, <2>4
<1>2. CASE r.type # "PARAMS"
  <2>1. Adds(h, r, "PARAMS") = <<>> /\ <<>> \in Seq(NamedThings)
    BY <1>2 DEF Adds
  <2> QED BY <2>1
<1> QED BY <1>1, <1>2

LEMMA OwnNamed ==
  ASSUME NamedParams, NEW g \in Seq(Records)
  PROVE  Own(g, "PARAMS") \in Seq(NamedThings)
<1> DEFINE cs == Contents(g, "PARAMS")
<1>1. /\ cs \in Seq(Seq(Things)) /\ Len(cs) = Len(g) /\ Len(g) \in Nat
      /\ \A i \in 1..Len(g) : cs[i] = Adds(g[1], g[i], "PARAMS") /\ g[i] \in Records
  BY ContentsType
<1>2. \A i \in 1..Len(g) : cs[i] \in Seq(NamedThings)
  BY <1>1, AddsNamed
<1>3. cs \in Seq(Seq(NamedThings))
  <2>1. Len(cs) \in Nat /\ \A i \in 1..Len(cs) : cs[i] \in Seq(NamedThings)
    BY <1>1, <1>2
  <2>2. cs \in Seq(Seq(Things))
    BY <1>1
  <2> DEFINE Lists == Seq(NamedThings)
             All == Seq(Things)
  <2>3. cs \in Seq(All) /\ Len(cs) \in Nat /\ \A i \in 1..Len(cs) : cs[i] \in Lists
    BY <2>1, <2>2
  <2> HIDE DEF cs, Lists, All
  <2>4. cs \in Seq(Lists)
    BY <2>3
  <2> QED BY <2>4 DEF Lists
<1> HIDE DEF cs
<1>4. FlattenSeq(cs) \in Seq(NamedThings)
  BY <1>3, SameFlatten, S!FlattenType
<1> QED BY <1>4, OwnContents DEF cs

\* An array that begins with qs and a name that ends it: whoever looks for a name finds what
\* he would find in qs.
LEMMA FoundFirst ==
  ASSUME NEW X, NEW ps \in Seq(X), NEW qs \in Seq(X), NEW none, NEW name,
         Len(qs) < Len(ps), ps[Len(qs) + 1].name = none,
         \A i \in 1..Len(qs) : ps[i] = qs[i] /\ qs[i].name # none
  PROVE  LET e == Named(ps, none)
             i == Named(ps, name)
             j == Named(qs, name)
         IN IF i # 0 /\ i < e THEN j # 0 /\ ps[i] = qs[j] ELSE j = 0
<1> DEFINE e == Named(ps, none)
           i == Named(ps, name)
           j == Named(qs, name)
           m == Len(qs)
<1>1. /\ e \in 0..Len(ps)
      /\ e = 0 => \A k \in 1..Len(ps) : ps[k].name # none
      /\ e # 0 => ps[e].name = none /\ \A k \in 1..Len(ps) : k < e => ps[k].name # none
  BY NamedFacts
<1>2. /\ i \in 0..Len(ps)
      /\ i = 0 => \A k \in 1..Len(ps) : ps[k].name # name
      /\ i # 0 => ps[i].name = name /\ \A k \in 1..Len(ps) : k < i => ps[k].name # name
  BY NamedFacts
<1>3. /\ j \in 0..m
      /\ j = 0 => \A k \in 1..m : qs[k].name # name
      /\ j # 0 => qs[j].name = name /\ \A k \in 1..m : k < j => qs[k].name # name
  BY NamedFacts
<1>4. m \in Nat /\ Len(ps) \in Nat
  OBVIOUS
<1> HIDE DEF e, i, j
<1>5. e = m + 1
  <2>1. m + 1 \in 1..Len(ps)
    BY <1>4
  <2>2. e # 0 /\ e <= m + 1
    BY <1>1, <2>1
  <2>3. e \notin 1..m
    BY <1>1, <2>2
  <2> QED BY <1>1, <1>4, <2>2, <2>3
<1>6. ASSUME j # 0 PROVE i = j
  <2>1. j \in 1..m /\ j \in 1..Len(ps) /\ ps[j].name = name
    BY <1>3, <1>4, <1>6
  <2>2. i # 0 /\ i <= j
    BY <1>2, <2>1
  <2>3. i \in 1..m /\ qs[i].name = name
    BY <1>2, <1>4, <2>1, <2>2
  <2>4. ~(i < j)
    BY <1>3, <1>6, <2>3
  <2> QED BY <1>2, <2>1, <2>2, <2>4
<1>7. ASSUME j = 0, i # 0, i < e PROVE FALSE
  <2>1. i \in 1..m
    BY <1>2, <1>4, <1>5, <1>7
  <2>2. qs[i].name = name
    BY <2>1, <1>2, <1>7
  <2> QED BY <2>1, <2>2, <1>3, <1>7
<1>8. ASSUME j # 0 PROVE i # 0 /\ i < e /\ ps[i] = qs[j]
  BY <1>3, <1>4, <1>5, <1>6, <1>8
<1> QED BY <1>7, <1>8 DEF e, i, j

LEMMA SearchFinds ==
  ASSUME NEW ps \in Seq(Param), NEW qs \in Seq(NamedThings), NEW name,
         Begins(ps, qs \o Closing)
  PROVE  LET j == Named(qs, name)
         IN Search(ps, name) = IF j = 0 THEN <<>> ELSE <<qs[j].value>>
<1> DEFINE n == Len(qs)
<1>1. PICK none : none = ""
  OBVIOUS
<1>2. PICK last : last = [name |-> none, value |-> none]
  OBVIOUS
<1>3. Closing = <<last>>
  BY <1>1, <1>2, Zenon DEF Closing
<1>4. \A p : Nameless(p) <=> p.name = none
  BY <1>1, Zenon DEF Nameless
<1>5. qs \in Seq(Param) /\ \A i \in 1..n : qs[i].name # none
  <2>1. \A i \in 1..n : qs[i] \in Things /\ qs[i].name # none
    BY <1>4 DEF NamedThings
  <2>2. Things \subseteq Param
    BY Zenon DEF Param
  <2> QED BY <2>1, <2>2
<1>6. /\ Len(qs \o Closing) = n + 1 /\ n \in Nat /\ (qs \o Closing)[n + 1] = last
      /\ \A i \in 1..n : (qs \o Closing)[i] = qs[i]
  BY <1>3
<1> DEFINE all == qs \o Closing
<1> HIDE DEF all
<1>7. Len(all) <= Len(ps) /\ \A i \in 1..Len(all) : ps[i] = all[i]
  BY DEF Begins, all
<1>8. /\ n < Len(ps) /\ ps[n + 1] = last
      /\ \A i \in 1..n : ps[i] = qs[i]
  BY <1>6, <1>7 DEF all
<1>9. ps[n + 1].name = none
  BY <1>2, <1>8
<1>10. LET e == Named(ps, none)
           i == Named(ps, name)
           j == Named(qs, name)
       IN IF i # 0 /\ i < e THEN j # 0 /\ ps[i] = qs[j] ELSE j = 0
  BY <1>5, <1>8, <1>9, FoundFirst
<1>11. LET e == Named(ps, none)
           i == Named(ps, name)
       IN Search(ps, name) = IF i # 0 /\ i < e THEN <<ps[i].value>> ELSE <<>>
  BY <1>1, Zenon DEF Search
<1> QED BY <1>10, <1>11, Zenon

LEMMA OkIsOwn ==
  ASSUME NamedParams, StreamInv, OwnInv
  PROVE  OwnRequest
<1> SUFFICES ASSUME NEW w \in Workers, pc[w] = "handling"
    PROVE  /\ body[w] = Mine(w, "STDIN")
           /\ \A n \in {"REQUEST_METHOD", "SCRIPT_NAME", "CONTENT_LENGTH", "HTTP_CONTENT_LENGTH"} :
                LET ps == Mine(w, "PARAMS")
                    i == Named(ps, n)
                IN Search(nvps[w], n) = IF i = 0 THEN <<>> ELSE <<ps[i].value>>
  BY Zenon DEF OwnRequest
<1>1. sock[w] \in Connections
  BY Holds
<1>2. got[sock[w]] \in Seq(Records) /\ nvps[w] \in Seq(Param)
  BY <1>1 DEF StreamInv, StreamTyped, OwnInv, OwnTyped
<1>3. Begins(nvps[w], Mine(w, "PARAMS") \o Closing) /\ body[w] = Mine(w, "STDIN")
  BY DEF OwnInv, OwnOk, Mine
<1>4. Mine(w, "PARAMS") \in Seq(NamedThings)
  BY <1>2, OwnNamed DEF Mine
<1>5. ASSUME NEW n
      PROVE  LET j == Named(Mine(w, "PARAMS"), n)
             IN Search(nvps[w], n) = IF j = 0 THEN <<>> ELSE <<Mine(w, "PARAMS")[j].value>>
  BY <1>2, <1>3, <1>4, SearchFinds
<1> QED BY <1>3, <1>5

(* When every parameter has a name, uw_request is called with the parameters and the body   *)
(* that the records of the worker's own request bear, and finds in the array what was sent: *)
(* records of other requests of the connection are skipped, and the empty name written     *)
(* behind the last parameter hides those of the request the worker had before              *)
(* (worker and search_nvps, fastcgi.c:216-222, 394-531).                                    *)
THEOREM RequestIsItsOwn == ASSUME NamedParams PROVE Spec => []OwnRequest
<1>1. StreamInv /\ OwnInv => OwnRequest
  BY OkIsOwn
<1> QED BY <1>1, OwnInvariant, PTL
=============================================================================
