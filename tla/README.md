# A TLA+ model of the Ur/Web runtime

Ur/Web compiles a functional language to a C program that serves web requests as
transactions on an SQL database and pushes messages to browsers. The compiler
(`src/urweb/src/*.sml`) is a pipeline of pure functions on syntax trees; state,
threads and failures are in the C runtime (`src/urweb/src/c`), in the code the
compiler generates for it (`cjr_print.sml`, `postgres.sml`, `sqlite.sml`, ...) and in
the browser runtime (`src/urweb/lib/js/urweb.js`). This project models that part.

## 1. Inventory

| component | state | operations | interacts with | hard because | module |
|---|---|---|---|---|---|
| Server push (`urweb.c` 100-400, 815-870, 3600-3650, 3706-3804, 3925-3995) | table of clients with free and used lists; per client: mode, password, parked socket, message buffer, last contact, reference count, channel counter, two locks; `expunge_lock`, `message_send_mutex`, `clients_mutex` | `uw_login`, `new_channel`, `send`, delivery in `uw_commit`, `uw_client_connect`, `uw_prune_clients`, `uw_initialize` | request threads, pruner thread, browsers' long polls, rows that hold channels | ids are reused; six kinds of lock; delivery races with polls; the database survives a restart, the table does not | `Messaging` |
| Request processing (`request.c` 249-622, `urweb.c` 692-907, 3651-3904) | locals of `uw_request`, `struct uw_context` (error message, `transaction_started`, client, transactionals), the connection | `uw_begin`, `uw_begin_onError`, `uw_ensure_transaction`, `uw_commit`, `uw_rollback`, resets | handler code, database, foreign code through transactionals | three kinds of failure, an onError handler, a two-phase commit with nine exits | `Request`, `Transaction` |
| SQL query cache (`urweb.c` 5027-5334, `sqlcache.sml`, `lru_cache.sml`) | entries, time stamps, two locks per cache, pending updates per context | check, store, flush, and their commit | database, transactionals | a cache must agree with committed data under concurrent writers | `Sqlcache`, `Queries` |
| HTTP server (`http.c`, `queue.c`) | queue of accepted sockets, a buffer per worker | accept, dequeue, read, keep-alive | request processing; hands the socket of a poll to a client | ownership of sockets, requests in pieces | `Http`, `RecordStream`, `Sockets` |
| FastCGI (`fastcgi.c`) | record stream of a connection, parameters and body of a request | read and write records | request processing | records in pieces and of other requests; arrays that are used again | `FastCgi`, `RecordStream`, `Sockets` |
| Form inputs (`urweb.c` 908-1347) | tree of inputs with a cursor | enter, leave, next | parser of requests, handler | reallocation moves the tree | `Inputs`, `Forms` |
| File cache (`urweb.c` 5343-5455, `filecache.sml`) | files named by hash | write through a temporary file, look up, retry on a miss | other processes, `uw_request`'s unlimited retries | failing writes, crashes, a retry that counts on a flag | `FileCache` |
| Cookies and signatures (`urweb.c` 3510-3600, 3683-3702, 4196-4404) | headers, page and script of a context | get, set, clear, sign, sign again, redirect | browser with several tabs | a signature is written before the cookies it signs are final | `Cookies` |
| Conversions (`urweb.c` 1620-3130) | the buffer written to | one function for each type and context | URLs, markup, scripts, SQL | each context has its escapes, each reader undoes them | `Text`, `Values` |
| Periodic tasks and start (`request.c` 34-200) | a context per task | the loop of a task; initialisers | database, expunge lock | retries again, in another loop | - |
| CGI, static (`cgi.c`, `static.c`) | one request | read, call, write | request processing | - | - |
| Buffers, regions, recording (`urweb.c` 60-100, 1300-1600) | output buffers, heap | append, begin and end region | handler code | limits | - |
| Browser runtime (`urweb.js`) | channels with queues, listener, sources and signals, remote calls | listen, receive, set a source, call | server push, requests | callbacks in any order | parts in `Messaging`, `Cookies`, `Text` |
| Compiler passes, standard library, editor mode, Coq semantics | syntax trees | pure functions | - | size, not state | - |

What makes each one correct:

* Server push: a channel's messages reach the page view that owns it and nobody else;
  messages arrive in the order of the commits, one transaction's as a unit; the
  pruner never runs next to a transaction; dead page views are collected and live ones
  are not; nothing waits for a lock for ever.
* Request processing: work takes effect at most once and a request is served only if
  it did; what an attempt takes it gives back exactly once; transactionals are
  committed or undone together with the database; retries end.
* HTTP server and FastCGI: every accepted socket has one owner, and is closed or parked;
  a request is handled with its own header, parameters and body, however its bytes arrive.
* Query cache: nobody notices it; its locks never make transactions wait for each other.
* Form inputs: the handler finds the form the browser sent, whatever moved meanwhile.
* File cache: a file with the name of a hash is whole; a retried miss ends.
* Cookies: a signature is of the cookies the browser has; an answer sets those cookies
  that the attempt it answers has set.
* Conversions: a value arrives as it was sent, in the room reserved for it.

## 2. Plan

| module | depends on | state |
|---|---|---|
| `Messaging` (`MCMessaging`, `MessagingProofs`) | - | modelled, checked, nine theorems |
| `Request` (`RequestProofs`), refines `Transaction` | - | modelled, checked, seven theorems |
| `Sqlcache` (`MCSqlcache`, `SqlcacheProofs`), refines `Queries` | - | modelled, checked, three theorems |
| `Http` (`MCHttp`, `HttpProofs`), refines `RecordStream` and `Sockets` (`SocketsProofs`) | - | modelled, checked, two theorems |
| `FastCgi` (`MCFastCgi`, `FastCgiProofs`), refines the same two | - | modelled, checked, four theorems |
| `Inputs` (`MCInputs`, `PageProofs`), refines `Forms` | - | modelled, checked, two theorems |
| `FileCache` (`MCFileCache`, `FileCacheProofs`) | - | modelled, checked, two theorems |
| `Cookies` (`MCCookies`, `PageProofs`) | - | modelled, checked, two theorems |
| `Values` (`MCValues`, `RequestProofs`) | `Text` | modelled, checked, one theorem |

Next would be the queues of channels in the browser.

The modules meet at narrow places, and each abstracts the others to what they do there.
`Messaging` abstracts `uw_request` to what it does to clients and locks; `Request` abstracts
other threads to nothing, because a context belongs to one thread. They meet in the client's
reference count and in the expunge lock: `ClientBalanced` of `Request` is what `Messaging` assumes of
one worker, and the exits of `uw_request` that depart twice (`TurnToOnError`, then `NextRound`) are
`commitError` and `DepartAgain` there. `Http` and `FastCgi` call `uw_request` as one step that
ends in one of its three answers; KEEP_OPEN parks the socket, which is the `Connect` of `Messaging`.
`Sqlcache` takes from `Request` that a transactional is committed after COMMIT or freed. `Inputs`,
`Cookies` and `FileCache` take from it that an attempt may be repeated at any point (`Retry`,
`Miss`), with `uw_reset_keep_request` in between.

## 3. Server push: `Messaging`

A page view gets a fresh password from `new_client`, so `Pages` stands for views and
for passwords; a slot of the table is a client id. The variables are the fields of
`struct client` (one function each), the lists of the table, the three locks that
matter, a program counter and the relevant part of the context for each thread, the
rows of the database that hold channels, and the browsers. `stale` stands for
`last_contact` being older than the timeout. A worker goes through

    idle -> login -> pull -> handler -> commit -> deliver -> release -> depart

one step for each lock it takes or gives back, so that threads interleave wherever the
code lets them: `Request`/`ArriveAgain` is `uw_transaction_arrives`; `NewClient`,
`FindClient`, `Pull`, `RefuseLogin` and `SkipLogin` are `uw_login` with both halves of
`use_client` (the reference count is raised before `pull_lock` is waited for);
`NewChannel` and `Send` the handler's calls; `StartCommit`, `Commit`, `CommitFails`,
`Deliver`, `FinishDelivery` and `Release` are `uw_commit`; `Depart` and `DepartAgain`
the two departures in `uw_request`. The pruner's steps (`ExpungerArrives`, `Skip`,
`Unlink`, `LeaveSend`, `Expunge...`, `FreeClient`, `ExpungerDeparts`) are
`uw_prune_clients` with the generated expunger; `Connect` is `uw_client_connect`;
`Crash` and `Initialize` a restart. The count of readers of the rwlock and the
reference count wrap around as their C types do, at the constants `ReaderWrap` and
`RefWrap`.

Switches name the failures that the environment may show: `OnError` (the application
has a handler), `CommitErrors` (`uw_commit` may set an error: COMMIT fails for good, or
a transactional does), `CleanupErrors` (the same for expunger and initializer),
`ExpungeFails` (the expunger raises an error), `LeaveTask` (what clientLeaves tasks send
on).

| run | instance | properties |
|---|---|---|
| `messaging_reuse` | 1 worker, pruner, 2 slots, 2 page views, 1 send, 1 restart; COMMIT may fail for good, the expunger may raise errors, clientLeaves tasks send to the other client | `ExpungerAlone`, `KnownClient`, `ChannelsOwned`, `NoForeignDelivery`, `CollectedOnlyIfStale` |
| `messaging_failures` | 2 workers, pruner, 1 slot, 1 view, 2 sends; an onError handler and COMMITs of requests and expunger that fail | `CommitOrder`, `AtomicUnits`, `NoSleepingMail`, `TypeOK` |
| `messaging_live` | 1 worker, 1 slot, 2 views, fairness | `CollectedEventually`, `MailIsTaken` |

`CommitOrder` and `AtomicUnits` are about messages of several transactions, `NoSleepingMail` about
a delivery that races a poll, `ChannelsOwned` and `NoForeignDelivery` about a slot that changes its
owner, `KnownClient` about what a restart leaves in the database, `CollectedOnlyIfStale` about a
request that comes between the pruner's test and `free_client`.

Why the bounds are enough: two views are enough for an id to be reused while something still
names it, one send for a message to reach the wrong view, and the second slot for the pruner to
go through a list and for the leaving of one client to send to another. Two workers with two sends
is the smallest instance in which the order of commits and deliveries can differ, and a message
buffer of two can hold messages of both. `RefWrap` and `ReaderWrap` of three leave room for
every legal count of two workers. A restart between any two steps leaves rows in the
database that name ids of the former process.

Fairness (`Fairness`): threads are scheduled (weak); a lock that is free again and again is
granted (strong, on `ArriveAgain`, `Pull`, `StartCommit`, `ExpungerArrives`); serialization
failures of the expunger do not go on for ever (strong, on `ExpungeCommit`); the timeout
passes (weak, on `Expire`), and an open page polls again, as `listener()` does. Users and
networks owe nothing: requests, hang-ups, leaving and crashes have no fairness. Strong
fairness of `ExpungerArrives` is more than a reader-preferring rwlock grants under
constant load (`readers` might never be zero); it does not matter where `readers` is zero
infinitely often.

## 4. One request: `Request` and `Transaction`

`Request` is one thread that calls `uw_request` on its context, one request after another.
Its variables are the locals `retries_left`, `had_error`, `fk`; of the context, whether
`error_message` is set, `transaction_started`, `client`, and the list of transactionals
(`effects`, of which those after `base` are registered: the list keeps the earlier ones of
the request as a history); the connection and whether the transaction open on it was begun by
this attempt or an earlier one; and what the thread holds of the expunge lock and of the client's reference count.
The steps are: `ReadInputs` (headers and form, before the loop, with its refusals), `Arrive`, `Login`, `EnsureTransaction`, `Register`, `SoftError` (foreign
code sets the error message without raising), `HandlerFails`, `ConnectionLost`,
`HandlerReturns`; then `uw_commit` (`PrepareFails`, `Prepare`, `Prepared`, `Commit`,
`CommitConflict`, `CommitFails`, `Finalize`, `FinalizeFails`, `Finalized`); then the branches
of the loop after it (`Answer`, `TurnToOnError`, `CommitIsFatal`, `Retry`, `FailToOnError`,
`FailIsFatal`, `NextRound`, `RollbackFails`). The database's answers are those the generated
`db_begin`, `db_commit` and `db_rollback` can give; a COMMIT on a lost connection may have
been carried out.

`Transaction` is the promise to the browser: the page function's work is committed at most
once, and the answer is SERVED only if it was. `PromiseKept` says that `Request` implements
it (the variables `stored` and `answer` are the mapping).

| run | instance | properties |
|---|---|---|
| `request_errors` | onError handler, COMMIT may fail for good | `FreedOnce`, `ClientBalanced`, `FinalsAfterCommit`, `OwnTransaction`, `PromiseKept`, `TypeOK` |
| `request_conflicts` | no handler, serialization failures at COMMIT, fairness | `UndoneUnlessCommitted`, `Answered` |

`ClientBalanced` covers what is given back twice or never on the exits of the loop, `OwnTransaction` an
attempt that works in the transaction of another, `FinalsAfterCommit` and `FreedOnce` the order of the
phases with errors between any two steps.

Bounds: two requests (the second meets what the first left in context and connection), one
bounded retry and one unlimited one (each kind is taken and the budget runs out), two
transactionals (one of each phase, or two of one). The thread stops after `MaxRequests`
requests, so deadlock is not checked. Fairness: the thread runs and a handler returns or
fails in the end (`WF_vars(Work)`); the number of unlimited retries is bounded by
`MaxUnlimited`, which stands for serialization failures that come to an end.

## 5. The query cache: `Sqlcache` and `Queries`

With the flag -sqlcache each query whose parameters are known looks into a cache of its own
(`uw_Sqlcache_check`, `Check`), and after a miss hands its result to `uw_Sqlcache_store`
(`Store`), which keeps it in the context until the transaction's COMMIT (`StoreCommit`). A
statement that changes rows first flushes what it may change (`Dml`, `Flush`). A cache is a
tree by parameters; an entry is valid if its value is younger than every invalidation
on the way to it (`Lookup`). The handler takes the outer lock of each cache it may
touch at its start (`Begin`, `Lock`), in the order `sqlcache.sml` sorts them, and gives them
back at its end (`FreeUpdates`, by `Finish` or `Abort`). The inner lock makes an operation on one
cache one step. That the string of a hit is used after the inner lock is given back is `CopyHit`.

`Queries` says what a program without a cache sees: a query returns the committed value, or
the transaction's own. `Invisible` is the refinement; the variables `db`, `own` and `page` are
the mapping. `Coherent` is the invariant behind it, and `NoLockCycle` says that sorted locks
held to the end never wait for each other in a circle.

| run | instance | properties |
|---|---|---|
| `sqlcache` | 2 threads, a cache without and one with two parameters, 2 contents | `Coherent`, `NoLockCycle`, `Invisible` |

Bounds: time 3 and one result per transaction let a store that waits meet a flush, an
abort and a second store, on either side. A cache with two parameters has flushes of all, of a
prefix and of one entry; two caches are the smallest instance with an order of locks.
`ReadThenWrite` is FALSE: see section 12. Safety only: nothing in the cache retries or waits but for the locks.

## 6. Sockets and requests: `Http` and `FastCgi`

Both front ends accept connections into the queue of `queue.c` (`Accept`), from which
workers take them (`Dequeue`). A byte of a model stands for some bytes of the wire and
knows its request or record and its place there; `Recv` delivers any number of them. A worker is
in one of a few labels (`pc`), which are the loops of the C functions.

`Http`: `Grow` doubles the buffer or refuses; `Parse` acts on the header, `Call` on the whole
request; `Answer` closes, requeues or goes on with what is in the buffer already (pipelining);
`KeepOpen` leaves the socket to a client, and `Deliver` is that client's end of it. A Content-Length
below zero is a number like any other: `After` then lies in the header, whose end is what `Kept`
finds there and reads as the next request (`HeaderTails`: full of the zeros that the parser has
written, or a single character of the empty line).

`FastCgi`: `BeginRequest`, `Params` and `Stdin` are the three loops of `worker`, with the record
that was handed over last still in the buffer (`used`), the array `nvps` that is overwritten
from request to request, and every `goto done`; `Call`, `Answer` and `KeepOpen` are the call of
`uw_request` and its three answers. KEEP_OPEN is what `uw_client_connect` makes of the socket: it
leaves it to the client (`Park`), or sends what there is, or a refusal, and closes it (`AnswerPoll`). In
either case the worker then logs the poll (`Log`), and before that a refusal, to the descriptor it had
(`outSock`): while others send there, after they have ended the request, or when the number has become
another connection's. Descriptors are given out by `accept` and used again (`fd`, `Has`). `Delivery` and
`ClosePoll` are a thread that sends to a parked socket and closes it.

`RecordStream` is the promise to both: workers are handed what was sent, in order and whole.
`RequestsInOrder` and `StreamIntact` are the refinements (`stream` and `got` are the mapping).
`OwnRequest` says that `uw_request` sees parameters and body of one request, though records of
others are on the connection and parameters of the one before in the array. `EndedOnce` says that
a request is ended once and that nothing follows but a late line of `Log`. With FastCGI, `OneOwner` adds
that a worker which has a socket writes to that socket and no other (`OwnDescriptor`).

`Sockets` is what the two have in common, from `accept` to `close` or to a client. `OneOwner` of
either is its invariant on the front end's own variables; that the front end's steps are its steps is
proved (section 11).

| run | instance | properties |
|---|---|---|
| `http` | 2 workers, 2 connections, buffers of 4 to 8 | `OneOwner`, `RequestsInOrder`, `ClosedInTheEnd` |
| `fastcgi` | 2 workers, 2 connections, headers of 2, contents up to 3 | `OneOwner`, `OwnRequest`, `EndedOnce`, `StreamIntact`, `AnsweredOrParked` |

Bounds: two workers and two connections are enough for a socket to have two owners or none and
for a worker to carry something from one connection to the next. The streams
(`MCHttp`, `MCFastCgi`) have one member for each branch of the code: pipelined requests, bodies,
a buffer that grows and one that may not, and each malformed request; with FastCGI the second web server is
well-behaved. A header of two bytes may arrive in two pieces. Two descriptors for two connections are
enough for one to be used again.
Fairness: a worker's step is weakly fair. `recv` ends by SO_RCVTIMEO in `http.c`; in `fastcgi.c` it
has no time-out, and the assumption is that the web server sends its records or closes. Handlers end.
Browsers and the senders of messages owe nothing, so a parked socket may stay parked.

## 7. Form inputs: `Inputs` and `Forms`

`uw_set_input` stores fields in `ctx->inputs`, and those of subforms and entries of lists in
`ctx->subinputs`, a block whose cells point at each other and which `check_input_space` may
move; a move then adjusts all pointers (`AdjustPointer`, `AdjustInput`). A pointer is a
block and an index, and one that points into a block that was freed finds `Wild`.

The code checks little of what a browser sends: a field may come again, as something else than it is,
over a container, and a form may be submitted with a subform open, so that the first attempt starts
inside it. Two constants say what is assumed of a browser: `Fitting`, it sends the fields of the
application's own forms, each once, in the order of the page and as what they are; `Closed`, it closes
what it opens.

While the browser's fields come in (`SetInput`, `SetFileInput`, `BeginSubform`, `BeginSubforms`, `BeginEntry`,
`EndContainer`, `Refuse`), `cur_container` is where the next one goes; then the handler walks over
the cells (`GetInput` to `NextEntry`), and any attempt may be repeated (`Retry`,
`uw_reset_keep_request`). `EnterSubform` and `EnterSubforms` write the `parent` of a cell, so a
repeated attempt finds what the one before has left.

`Forms` is a tree the browser writes and each attempt of the handler reads from its root.
`SameForm` is the refinement. A cell of `Inputs` is known by a block and an index, a node of `Forms` by
the path that leads to it; the history variable `paths` gives each cell of `ctx->subinputs` the path
it had when it was handed out, and the cells of `ctx->inputs` are the fields of the form
itself. The mapping is then plain: the form is what the cells hold (`Form`), and the place is the path
of the current container (`PathOf`). The steps of `Inputs` know nothing of paths. They go
where the pointers lead, so one that is lost or wrong takes the handler to another place than `Forms`
has, or to another field's value.

| run | instance | properties |
|---|---|---|
| `inputs` | a value, a subform, a list and a file, 14 cells, 1 move; `Fitting` and `Closed` | `NoDangling`, `SameForm` |

Bounds: 14 cells hold two entries of a list, or a subform in an entry, or an entry in a subform, with
a move at any growth: every pointer that exists crosses one. `InputsAny.cfg` checks `NoDangling` where anything may
be sent, in a form of a subform and a list with 5 cells. Both properties are proved without these bounds (section 11). `SameForm`
needs both assumptions: without `Closed` it fails (section 12). Safety only: it is one thread.

## 8. File cache: `FileCache`

A query of blobs asks the database for hashes and takes the blobs from a directory (`Hit`); the
first that is not there makes `file_cache_missed` true and the request begins again
(`Miss`, `Query`), now with the blobs themselves, each of which `uw_Basis_cache_file` writes into a
temporary file (`MakeTemp`, `WriteSome`, in as many pieces as `write` takes) and renames
(`Rename`). A write may fail (`WriteFails`), a process may end anywhere (`Crash`) and leave its
temporary file, and somebody may remove files (`Cleanup`). The directory is a function from names to
contents; a hash is the blob it is of.

| run | instance | properties |
|---|---|---|
| `filecache` | 2 contexts, 2 blobs of 2 cells, 3 requests, 1 crash, 1 cleanup, 1 failing write | `NoTornFile`, `ServedAsStored`, `EndsInTheEnd` |

Bounds: two contexts can write the same blob at once, two cells make a write partial, three
requests let one follow a failure in the same context, and four names are enough for the temporary files they leave.
Fairness: each context's step is weakly fair (threads are scheduled). `EndsInTheEnd` needs no
bound on retries: the flag ends them, and TLC's mutant without it loops.

## 9. Cookies and signatures: `Cookies`

A signature is the cookies it is a keyed hash of. A handler writes Set-Cookie lines (`SetCookie`,
`ClearCookie`) and signatures into forms (`SigString`); a cookie that is set after a signature was
written makes `needs_resig` true, and `uw_commit` writes the signatures again (`Resigned`). Answers
are pages, values of remote calls, redirects, blobs (both throw the page away and keep
the cookies, `OldHeaders`) and errors; a retry drops everything (`Reset`). The tabs share the cookies of the browser
(`jar`), and `Checked` is the check of the signature in the generated code.

`uw_Basis_get_cookie` compares the name of a line with as many characters of the name it looks for,
and takes the first line that matches: it finds a cookie whose name is the beginning of the wanted one,
and the first of two lines of one cookie, where a browser obeys the last. `StartOf[n]` is the set of
names that `n` begins with; `NamesApart` says that there is only `n` itself, `SetsOnce` that a handler
sets a cookie once.

| run | instance | properties |
|---|---|---|
| `cookies` | 2 tabs, 1 cookie with 1 value, set once | `SignedForTheJar`, `CookiesOfTheAnswer` |

Bounds: a cookie that is set, cleared or left, in two tabs, in any order. Two further configurations have two
cookies in one tab: `CookiesNames.cfg` checks `SignedForTheJar` for names that are apart, and
`CookiesAny.cfg` checks `CookiesOfTheAnswer` where one name begins with the other and both are set again
and again. `SignedForTheJar` needs both assumptions (section 12), `CookiesOfTheAnswer` neither. Symmetry of tabs is sound: they are model values, and no temporal
property but an action property is checked. Safety only.

## 10. Conversions: `Text` and `Values`

`Text` has the conversions of `urweb.c` as functions from characters to bytes and back, and the
readers of the other end (HTML, JavaScript, SQL, forms), which are marked external. `Values` takes
a value out of the handler and back: a URL's arguments, perhaps through an attribute of a page
(`Link`, `Click`), text, script, a form, a reply, a literal, a blob's column. `Faithful` says that what
arrives is what was sent and that the reader stops where the writer did; `RoomEnough` that a conversion writes no
more than `uw_check` reserved, but for the cases it names (as `Faithful` does, see section 12); `Characters` that the string functions,
which walk over bytes, count characters.

| run | instance | properties |
|---|---|---|
| `values` | strings up to 2 (3 of characters of several bytes) over 19 characters, 2 arguments | `Faithful`, `RoomEnough`, `Characters` |

Bounds: the alphabet has a member of each class any conversion tells apart, and each width of
UTF-8; conversions act character by character. A second has 10 microseconds,
and an unsigned number wraps around at 64 (`Micros`, `Wrap`), so that remainders and signs of times are
few: there are times before and after 1970, with and without a fraction of a second. `ValuesAssumption` says what the values are: strings are
sequences of Unicode characters without a zero, integers and times have 64 bits, blobs are
bytes. Where the conversions of C test one condition after another, `Text` uses IF and not CASE,
whose arms have no order where two conditions hold.

## 11. Proofs

Checked by TLAPS for every value of the constants that satisfies the named assumptions.

* `MessagingProofs`: `TypeCorrect` (`TypeOK`) and `ExpungerIsAlone` (`ExpungerAlone` unless
  there is an onError handler and COMMIT may fail for good: exactly the case that
  `MessagingDepartTwice.cfg` refutes). `TypeOK` is not inductive by types alone: indexing by
  `slot[w]`, `view[w]` or `victim` needs to know where they are set, which is `ControlOK`. For
  the lock, `LockInv` says that `readers` is the cardinality of the set of workers inside
  a transaction; each arrival and departure is then an element added or removed, and
  `Cardinality(Workers) < ReaderWrap` keeps the count from wrapping.
* `RequestProofs`: `RequestTypes` (`TypeOK`), `ClientIsBalanced` (`ClientBalanced`) and
  `PromiseIsKept` (`PromiseKept`, without serialization failures at COMMIT: the case
  that `RequestLostConflict.cfg` refutes). `ClientInv` relates `uses` to `client` at each label:
  before the release it is one exactly if a client is set, after it is zero. `PromiseInv` says
  where `stored` may be one: after `Commit`, or when an error sends the request to the onError
  handler, so `had_error` or a set error guards every later step.
* `FileCacheProofs`: `NoFileIsTorn` (`NoTornFile`) and `PagesAreServed` (`ServedAsStored`). A file
  with the name of a hash was renamed to it, so the invariant is about temporary files: each holds
  what its context has written of the blob of its row (`Owned`), nobody else has it (`Alone`), and
  its name is no hash. `Pages` says that a page has the blobs of the first rows. The only
  assumption is that temporary names are no hashes.
* `RequestProofs`, transactionals: `EffectsAreFreedOnce` (`FreedOnce`), `FinalsFollowCommit` (`FinalsAfterCommit`),
  `EffectsAreUndone` (`UndoneUnlessCommitted`, unless COMMIT may fail for good: the case that
  `RequestNotUndone.cfg` refutes) and `TransactionIsOwn` (`OwnTransaction`). The first three are parts of
  one invariant, `EffectsInv`: a registered transactional is open (not freed yet) until
  `uw_commit` or `uw_rollback` is through with the list, and over ever after; in the second phase
  its data are durable. `TransactionInv` adds to `OwnTransaction` where
  `transaction_started` is false.
* `MessagingProofs`, channels: `ChannelsAreOwned`, `NoneIsForeign`, `ClientIsKnown` and `CollectsTheStale`, unless
  there is an onError handler and COMMIT may fail for good, or a COMMIT of the expunger may be
  lost (`MessagingDepartTwice.cfg` and `MessagingLostCleanup.cfg` refute them there); and
  `MailIsAwake`, which needs neither. A channel is owned if its client is used by the view that
  created it, and `OwnInv` says that of every channel in rows, transactions and queues. The step
  that could break it is `FreeClient`: the pruner is then the writer, so by `ExpungerIsAlone` no worker is
  inside a transaction, their queues are empty (`Emptied`), and the expunger's COMMIT has taken the
  victim's rows (`Pruning`). `NewClient` takes a slot that is not used (`FreeSlots`). For
  `CollectedOnlyIfStale` the victim's staleness lasts from the pruner's test to the end (`Silent`).
* `MessagingProofs`, order: `MailInOrder` (`CommitOrder`) and `UnitsAreAtomic` (`AtomicUnits`), with no
  assumption on what may fail. What a page has got and what waits for it at its client are one
  sequence, `Mail`, and the invariant says that it is in order (`Ordered`). Only the holder of
  `message_send_mutex` may have a place among the COMMITs and still send, and its place is the last one
  (`SoleSender`); every message anywhere is of a transaction that has its place (`Past`); and a client
  the sender has still to reach, of which there is one entry per client (`Apart`), has
  nothing of it yet (`Unsent`). So what `Deliver` appends is later than what it is appended to. `Views`
  says that a client and its page know each other, so that no two clients feed one page;
  `NoSleepingMail` that a message which goes straight to a parked poll overtakes none in the buffer.
* `SqlcacheProofs`: `LocksInOrder` (`NoLockCycle`), with no assumption; `CoherentCache` (`Coherent`) and
  `Refinement` (`Invisible`), if no handler writes what it has missed (`ReadThenWrite`: the case that
  `SqlcacheStale.cfg` refutes). For the locks, `LockOK` says that a thread waits for caches after all
  those it holds; in a circle of waiting threads, the one that waits for the greatest cache waits for a
  thread that waits for a greater one. For the cache, `FreshInv` says that an entry which a lookup would
  find is committed and that nobody is writing it. A store is younger than the flushes of transactions that
  have ended and older than those to come (`TimeInv`, `ContextInv`), because both hold the outer lock
  to their end (`LockInv`); `TreeInv` says that the way to an entry is in the tree.
  The refinement then maps a hit to a query of `Queries` and all else but the writes to a stutter. That
  a finite set of numbers can be sorted, and that one has a least element, is proved from
  the well-foundedness of the natural numbers.
* `SocketsProofs`: `SocketHasOneOwner` (`OneOwner`) of `Sockets`. The queue holds the queued
  connections once each (`QueueHolds`), a worker one that no other holds (`WorkerHolds`). Its second
  part is about `FlattenSeq`, which makes one stream of the pieces that arrive: what it does to a
  joined or an appended sequence, and where the elements go. The community modules define it by
  recursion; the facts are proved by least counterexample, from the well-foundedness of the natural
  numbers.
* `HttpProofs` and `FastCgiProofs`, sockets: `SocketHasOneOwner` (`OneOwner`) of each front end.
  Each of its steps is one of `Sockets` or leaves queue and sockets alone (`SocketsArePassedOn`),
  provided that a worker which waits for work has no socket any more (`IdleHoldsNone`): every exit
  of the loops has to see to that, or `Dequeue` loses a socket. They assume that no connection is
  called "none". For FastCGI, `OwnDescriptor` adds that open connections have descriptors apart and that
  a worker with a socket writes to its own: `accept` gives out no number that is in use, and a worker
  that has given up its socket (`Log`) has none until it dequeues another.
* `HttpProofs`, requests: `RequestsComeInOrder` (`RequestsInOrder`). Each byte of a stream has its
  place, and `StreamInv` says that what was handed over is a prefix of the stream, while the buffer
  holds what has been received behind it (`Holding`); so the first empty line in the buffer is the
  end of the next header. A socket goes back into the queue only between two requests. The theorem
  has three hypotheses. `BodiesFit`: doubling the first size of a buffer reaches, before `MaxSize`,
  room for each body that is sent (`SizeOk`; a longer one is refused). `FormsAreLast`: a browser
  sends nothing behind a form before it is answered; without it the property fails, as
  `HttpPipelined.cfg` shows. `LengthsAreNatural`: no Content-Length is below zero; without it the property
  fails, as `HttpNegative.cfg` shows. All hold in the instance of `http`.
* `FastCgiProofs`, records: `RecordsInOrder` (`StreamIntact`), `RequestsEndOnce` (`EndedOnce`) and
  `RequestIsItsOwn` (`OwnRequest`, under the hypothesis `NamedParams`: no parameter that is sent has
  the empty name, which is how the array of parameters ends). `StreamInv` is the one of `HttpProofs`
  for records instead of requests; it adds that the id in use is the one the server began the
  request with, and which answers are open. `OwnInv` says that the array begins with the parameters
  of the request in hand, followed by the empty name that closes it: what earlier requests of the
  connection have left lies behind that, and nobody reads on. The assumptions of `Http` and
  `FastCgi` say that streams and contents are sequences and that a header is not empty.
* `RequestProofs`, conversions: `RoomIsEnough` (`RoomEnough`), for strings and blobs of any length, under
  `ValuesAssumption`. Each conversion puts pieces together, one for each character or byte.
  `Longer` and `Long` bound the whole by what bounds each piece, from what `SocketsProofs` proves
  about `FlattenSeq`; a piece is bounded by the width of its character (`Utf8Room`,
  `UrlCharRoom`, `JsifyCharRoom`, ...). An integer has at most 19 digits: `Numeral` is recursive,
  and the lemmas on `Counts` unfold it as often as a word of 64 bits has digits. For an attribute six
  bytes for each byte, the zero byte included, are enough only because some byte needs fewer: the
  invariant `RoomInv` says that a URL begins with its first argument, and no argument is empty
  or begins with a quote (`Starts`).
* `PageProofs`, cookies: `PagesAreSigned` (`SignedForTheJar`) and `AnswersSetTheirCookies`
  (`CookiesOfTheAnswer`). The first has two hypotheses, `SetsOnce` and `NamesApart`, without which it
  fails (section 12): the only line of a cookie (`Once`) is both the first that
  `uw_Basis_get_cookie` finds and the last, which the browser obeys, so the application's signature
  is of the cookies to come (`Later`). The second has none: the lines are those of the present attempt
  (`OwnLinesAlways`). A signature in a form that is of others will be renewed
  (`HandlerInv`), what changes the cookies behind a request's back is noticed (`HeaderInv`), and the
  headers are those of the present attempt (`OutInv`).
* `PageProofs`, forms: `NoPointerDangles` (`NoDangling`), under the assumption of `Inputs`, whatever is
  sent. A
  pointer alone says too little: `Field` adds to it, and `NextEntry` follows two in a row. So the
  invariant `Ok` says of each cell what its pointers lead to (`CellOk`): a subform or an entry to a
  whole record of fields, a list to entries or nowhere, and a cell without pointers has no parent. A
  step writes one cell and never makes an entry something else (`SetOk`); growing adds blank cells
  (`GrowOk`), moving keeps all of this because no pointer is forgotten (`MovedOk`), and both leave
  the field that is being set where it was (`Same`).
* `PageProofs`, the form: `FormIsRefined` (`SameForm`), for browsers that are `Fitting` and `Closed`: each step of the
  request, from `uw_set_input` to `uw_reset`, is a step of `Forms`. The proof forgets the block.
  Read by paths, the cells are a `Tree`, in which a pointer is the path of the cell it leads to
  (`View`); no two cells have the same path (`Named`), so a write to a cell is a write to one
  node (`TreeSet`), growing adds blank nodes at new paths (`TreeGrow`), and a move changes nothing at
  all (`TreeMoved`). The invariant `FormInv` says what the nodes know of each other (`TreeOk`): the
  fields of a record and the head of a list are the nodes that their paths say (`RecordOk`, `ListOk`),
  the node above is a container of the right kind (`SonOk`), and an entry knows its list and the
  entry sent before it (`EntryOk`). Of `parent`, which is written anew whenever a container is entered and
  which a failed attempt leaves as it is, it says only that it is right on the way from the root to
  the present place (`OnWay`): that is why a repeated attempt may start at the root, and why leaving,
  `NextEntry` and ".e" find their way back. `WhatIs` and `CountIs` then say that `Forms` reads the node
  at a path and counts the entries of a list.

`PageProofs` extends both `Cookies` and `Inputs`; the names that `Cookies` would share with `Inputs` are
longer there (`CookieNames`, `CookiesSpec`, `RetryHandler`, ...). `RequestProofs` likewise extends
`Request` and `Values` (`ValuesInit`, `ValuesNext`, `ValuesSpec`).

Out of the prover's reach and left to TLC: liveness and everything under fairness
(`CollectedEventually`, `MailIsTaken`, `Answered`, `ClosedInTheEnd`, `AnsweredOrParked`, `EndsInTheEnd`), and
what recursive definitions compute for every input: `Faithful` and `Characters` of
`Values`, whose readers are defined by recursion over the bytes of a text. These two are the
only safety properties that are model-checked and not proved.

## 12. Where the code and its documents disagree

What follows was met while modelling. The `.cfg` file after each has TLC show it; it expects the
property named there to be violated.

* The expunge lock is unlocked twice when a failed COMMIT meets an onError handler (`request.c`
  531), so the expunger may run next to a transaction, against the comment on `expunge_lock`:
  `MessagingDepartTwice.cfg`, `ExpungerAlone`. With two clients and tasks that send, the pruner and a worker
  can then wait for each other: one has the client's lock, the other `message_send_mutex`.
* A COMMIT of the expunger that fails for good passes for success, and the id is reused with its
  old rows: `MessagingLostCleanup.cfg`, `NoForeignDelivery`.
* `new_client` resets a reference count that another request has raised: `MessagingRefcount.cfg`,
  `CollectedWhenQuiet`.
* A clientLeaves task that sends to the leaving client stops the pruner on its own lock:
  `MessagingFarewell.cfg`, `CollectedEventually`.
* A client whose expunger raises an error is on no list any more: `CollectedEventually` fails with
  `ExpungeFails = TRUE` in `MessagingLive.cfg`.
* A serialization failure at COMMIT is answered as served: `RequestLostConflict.cfg`,
  `ServedIsCommitted`.
* A COMMIT that fails for good does not undo the first phase of transactionals:
  `RequestNotUndone.cfg`, `UndoneUnlessCommitted`.
* `uw_Sqlcache_check` returns a value outside of the inner lock. The comment there (`urweb.c` 5148-5150)
  calls it safe because values are freed only when a transaction commits; but that may be
  another transaction which only stores in the cache, so both have its lock for reading, and
  which replaces the value before it is copied: `SqlcacheFreed.cfg`, `ValueNotFreed`.
* A transaction that misses, writes what it has missed and commits, stores its old result with a
  time that is not older than its own flush: `SqlcacheStale.cfg`, `Coherent`.
* The body of a POST reaches to the end of what has been read (`http.c` 276), so it swallows a
  request that is pipelined behind it: `HttpPipelined.cfg`, `RequestsInOrder`.
* A Content-Length below zero passes for a number (`http.c` 164), and "unprocessed part of buffer", which the
  comment at `http.c` 303-304 has shifted to the front, then begins in the header of the request that was
  just served: `HttpNegative.cfg`, `RequestsInOrder`.
* A worker of FastCGI logs a poll (`request.c` 339) to a descriptor it has left to a client: the line may follow the
  end of the request, `FastCgiLateLine.cfg`, `NothingAfterTheEnd`; or come to another connection that
  has got the number by now, `LinesAreOwn` as the invariant of the same file.
* A message for a parked poll of FastCGI bears the number of the request whose thread sends it, 0
  for the pruner's, which is the poll's own only where every connection numbers its request
  1: `OwnNumber` as the invariant of `FastCgiLateLine.cfg`. `EndedOnce` asks for the right number of everything else.
* `uw_set_file_input` stores into the form itself, `uw_get_file_input` reads from the current container
  (`urweb.c` 1172, 1186): a file input in a subform is not found. With `Fitting`, file inputs are in the
  form itself only; without it they may come anywhere, and overwrite a container that is open.
* A form that leaves a subform open is read from inside it by the first attempt, and from the root by
  the others: `SameForm` fails with `Closed = FALSE` in `Inputs.cfg`.
* A cookie that was set is read in place of one whose name begins with its name (`urweb.c` 3522), and the
  signature on the page is not of the browser's cookies: `CookiesPrefix.cfg`, `SignedForTheJar`.
* So it is when a handler sets one cookie twice, since the first line is read and the last one counts:
  `SignedForTheJar` fails with `SetsOnce = FALSE` in `CookiesNames.cfg`.
* A time before 1970 with a fraction of a second is read back with the remainder stored in an unsigned
  field (`urweb.c` 2213-2217, `types_cpp.h` 15), and `uw_Basis_eq_time` tells it from the one that was sent: `Faithful`
  lists it (`Early`).
* Reserved room is one byte short for an empty string, a zero character and a character of four bytes in
  a URL, and for octal escapes in a literal; `RoomEnough` lists them.

## 13. What is not modelled

The contents of messages, scripts and pages, and `client_data`. The argument `will_retry` of
free functions. `uw_check` after COMMIT. Queries outside a transaction (`at_most_one_query`) beyond the
fact that no transaction is begun. Periodic tasks (`periodic_loop` keeps nothing between
two transactions), command lines and start; `cgi.c` and `static.c` (one request and the end of the
process); output buffers, regions and recording (blocks that grow or are refused, by one
thread); eviction, its order and the limit of recursion in the query cache, and the analysis that finds
what a statement invalidates (the model flushes exactly what it writes). Multipart forms.
In forms, a field where no record is open: `INP` calls `uw_error` before `uw_begin`, which jumps into the frame of an
earlier request; and more sub-inputs than their limit. In `http.c`, a Content-Length so far below zero that
`after` lies before the buffer, one that overflows an `int`, and what comes to the worker that goes on with descriptor 0
after a body over the limit (the socket is closed there, and the model gives it up). In `fastcgi.c`, records
reach the wire whole, and their order in one action of a worker or a client is kept but for `Log`; a descriptor that is used
again by anything but a connection counts as nobody's. Cookies with an empty value. References to
&#128; to &#159; in markup, which browsers read as windows-1252, and code points that are not
assigned yet. The error branches of `Substring` and `Strsuffix`, whose arguments in the run are in range;
`uw_Basis_jsifyChar` and `uw_Basis_sqlifyChar`, which reserve room for themselves and may write more. In the file cache
a crash is the end of a process, not of the system: nothing there calls fsync.
Floats, channels and formatted times in conversions. Encryption (a library). In the browser,
queues of channels, sources and signals. The compiler's passes, whose correctness is that of large
pure functions, and the vendored `uthash.h`. The reasons are with the parts in `PROJECT.json`.

## 14. Running

    tlc -workers 2 -config MessagingReuse.cfg MCMessaging       (also ...Failures, ...Live)
    tlc -workers 2 -config RequestErrors.cfg Request            (also ...Conflicts)
    tlc -workers 2 -config Sqlcache.cfg MCSqlcache
    tlc -workers 2 -config Http.cfg MCHttp
    tlc -workers 2 -config FastCgi.cfg MCFastCgi
    tlc -workers 2 -config Inputs.cfg MCInputs
    tlc -workers 2 -config FileCache.cfg MCFileCache
    tlc -workers 2 -config Cookies.cfg MCCookies
    tlc -workers 2 -config Values.cfg MCValues
    tlapm MessagingProofs.tla      (also RequestProofs, SqlcacheProofs)
    tlapm FileCacheProofs.tla
    tlapm SocketsProofs.tla        (also HttpProofs, FastCgiProofs)
    tlapm PageProofs.tla

`InputsAny.cfg`, `CookiesNames.cfg`, `CookiesAny.cfg` and the configurations of section 12 run with the same
modules. Faulty variants of definitions stand
next to the one they vary (their comments begin with "Mutant:", "mutant:" or "Fault:"): each
property of a run has one that violates it when it replaces the definition.
