------------------------------- MODULE FileCache -------------------------------
(***************************************************************************)
(* The file cache: uw_Basis_cache_file and uw_Basis_check_filecache of     *)
(* src/urweb/src/c/urweb.c, under the queries filecache.sml compiles to.   *)
(* A query of blobs asks the database for their hashes and takes them from *)
(* the directory; when one is not there the request begins again, with a   *)
(* query of the blobs themselves, which it puts into the directory.        *)
(* Several processes share a directory.  A hash is the blob it is of.      *)
(***************************************************************************)
EXTENDS Integers, Sequences, FiniteSets

CONSTANTS
  Contexts,    \* the contexts of all threads of all processes
  Blobs,
  Tables,      \* what a query may return: sequences of blobs
  BlobSize,    \* cells of a blob
  TempFiles,   \* the names mkstemp may make
  MaxRequests, MaxCrashes, MaxCleanups, MaxWriteErrors   \* bounds

ASSUME FileCacheAssumption ==
  /\ BlobSize \in Nat
  /\ Tables \subseteq Seq(Blobs)
  /\ TempFiles \cap Blobs = {} /\ "none" \notin TempFiles

VARIABLES
  db,                     \* the rows of the table
  files,                  \* the directory: what is in the file of each name there is
  missed,                 \* per context: file_cache_missed
  pc, rows, page,         \* per context: the state of its request, its query, the blobs it has
  temp, written,          \* per context: tempfile, written_so_far
  requests, crashes, cleanups, errors

locals == <<pc, rows, page, temp, written>>
bounds == <<requests, crashes, cleanups, errors>>
vars   == <<db, files, missed, locals, bounds>>

-----------------------------------------------------------------------------
Cells(b)   == [k \in 1..BlobSize |-> <<b, k>>]
Names      == DOMAIN files
With(n, cells) == [m \in Names \cup {n} |-> IF m = n THEN cells ELSE files[m]]
Set(fun, c, v) == [fun EXCEPT ![c] = v]

\* The blob of the next row.
Next1(c) == rows[c][Len(page[c]) + 1]
More(c)  == pc[c] = "rows" /\ Len(page[c]) < Len(rows[c])

Init ==
  /\ db \in Tables /\ files = [n \in {} |-> <<>>] /\ missed = [c \in Contexts |-> FALSE]
  /\ pc = [c \in Contexts |-> "idle"] /\ rows = [c \in Contexts |-> <<>>]
  /\ page = [c \in Contexts |-> <<>>]
  /\ temp = [c \in Contexts |-> "none"] /\ written = [c \in Contexts |-> 0]
  /\ requests = 0 /\ crashes = 0 /\ cleanups = 0 /\ errors = 0

\* Mutant: the blobs of the attempt before stay.
RestartKeeps(c) == page' = page

\* uw_reset_keep_request
Restart(c) == page' = Set(page, c, <<>>)

\* The query of an attempt, in a transaction of its own.
Query(c) ==
  /\ \/ pc[c] = "idle" /\ requests < MaxRequests /\ requests' = requests + 1
     \/ pc[c] = "again" /\ UNCHANGED requests
  /\ pc' = Set(pc, c, "rows") /\ rows' = Set(rows, c, db) /\ Restart(c)
  /\ UNCHANGED <<db, files, missed, temp, written, crashes, cleanups, errors>>

\* uw_Basis_check_filecache: the file is there.  It is open, so it stays what it is.
Hit(c) ==
  /\ More(c) /\ ~missed[c] /\ Next1(c) \in Names
  /\ page' = Set(page, c, Append(page[c], files[Next1(c)]))
  /\ UNCHANGED <<db, files, missed, pc, rows, temp, written, bounds>>

\* Mutant: the next attempt looks into the directory too.
NoteMissNot(c) == UNCHANGED missed

\* It is not: UNLIMITED_RETRY.
NoteMiss(c) == missed' = Set(missed, c, TRUE)
Miss(c) ==
  /\ More(c) /\ ~missed[c] /\ Next1(c) \notin Names
  /\ NoteMiss(c)
  /\ pc' = Set(pc, c, "again")
  /\ UNCHANGED <<db, files, rows, page, temp, written, bounds>>

\* uw_Basis_cache_file: mkstemp creates a file of a name no other has.
TempNames == {CHOOSE n \in TempFiles \ Names : TRUE}
MakeTemp(c) ==
  /\ More(c) /\ missed[c] /\ temp[c] = "none" /\ TempFiles \ Names # {}
  /\ \E n \in TempNames :
       /\ temp' = Set(temp, c, n)
       /\ files' = With(n, <<>>)
  /\ written' = Set(written, c, 0)
  /\ UNCHANGED <<db, missed, pc, rows, page, bounds>>

\* write: as many bytes as it takes now, at the place this descriptor has got to.
Put(cells, at, new) ==
  [k \in 1..(IF Len(cells) > at + Len(new) THEN Len(cells) ELSE at + Len(new)) |->
     IF k \in (at + 1)..(at + Len(new)) THEN new[k - at] ELSE cells[k]]

\* Mutant: one write is enough.
WholeOnce(c) == written[c] > 0

Whole(c) == written[c] = BlobSize
Writing(c) == temp[c] # "none" /\ ~Whole(c)
WriteSome(c) ==
  /\ Writing(c)
  /\ \E n \in 1..(BlobSize - written[c]) :
       /\ files' = With(temp[c], Put(files[temp[c]], written[c],
                                     SubSeq(Cells(Next1(c)), written[c] + 1, written[c] + n)))
       /\ written' = Set(written, c, written[c] + n)
  /\ UNCHANGED <<db, missed, pc, rows, page, temp, bounds>>

\* A write that fails: FATAL.  The temporary file stays.
WriteFails(c) ==
  /\ Writing(c) /\ errors < MaxWriteErrors
  /\ errors' = errors + 1
  /\ temp' = Set(temp, c, "none") /\ pc' = Set(pc, c, "failed")
  /\ UNCHANGED <<db, files, missed, rows, page, written, requests, crashes, cleanups>>

\* rename; the row's blob came from the database.
Rename(c) ==
  /\ temp[c] # "none" /\ Whole(c)
  /\ files' = [n \in (Names \ {temp[c]}) \cup {Next1(c)} |->
                 IF n = Next1(c) THEN files[temp[c]] ELSE files[n]]
  /\ temp' = Set(temp, c, "none")
  /\ page' = Set(page, c, Append(page[c], Cells(Next1(c))))
  /\ UNCHANGED <<db, missed, pc, rows, written, bounds>>

\* uw_commit forgets the miss at its end; an error does not.
Commit(c) ==
  /\ pc[c] = "rows" /\ Len(page[c]) = Len(rows[c])
  /\ pc' = Set(pc, c, "served") /\ missed' = Set(missed, c, FALSE)
  /\ UNCHANGED <<db, files, rows, page, temp, written, bounds>>

Finish(c) ==
  /\ pc[c] \in {"served", "failed"}
  /\ pc' = Set(pc, c, "idle") /\ Restart(c) /\ rows' = Set(rows, c, <<>>)
  /\ UNCHANGED <<db, files, missed, temp, written, bounds>>

-----------------------------------------------------------------------------
\* Another transaction changes the table.
Change == \E t \in Tables : t # db /\ db' = t /\ UNCHANGED <<files, missed, locals, bounds>>

\* A process of one context ends, and starts again: uw_init.
Crash(c) ==
  /\ crashes < MaxCrashes /\ crashes' = crashes + 1
  /\ missed' = Set(missed, c, FALSE) /\ pc' = Set(pc, c, "idle") /\ rows' = Set(rows, c, <<>>)
  /\ page' = Set(page, c, <<>>) /\ temp' = Set(temp, c, "none") /\ written' = Set(written, c, 0)
  /\ UNCHANGED <<db, files, requests, cleanups, errors>>

\* Somebody empties a cache of what it can do without.
Cleanup ==
  /\ cleanups < MaxCleanups /\ cleanups' = cleanups + 1
  /\ \E b \in Names \cap Blobs : files' = [n \in Names \ {b} |-> files[n]]
  /\ UNCHANGED <<db, missed, locals, requests, crashes, errors>>

Step(c) ==
  \/ Query(c) \/ Hit(c) \/ Miss(c) \/ MakeTemp(c) \/ WriteSome(c) \/ WriteFails(c)
  \/ Rename(c) \/ Commit(c) \/ Finish(c)

Next == Change \/ Cleanup \/ \E c \in Contexts : Step(c) \/ Crash(c)

Spec == Init /\ [][Next]_vars

\* The threads are scheduled; the processes need not crash, nor tables change.
FairSpec == Spec /\ \A c \in Contexts : WF_vars(Step(c))

-----------------------------------------------------------------------------
(* Whatever two writers of the same blob, a failing write or a crash do: a file that has   *)
(* the name of a hash is the whole file of that hash.                                      *)
NoTornFile == \A n \in Names \cap Blobs : files[n] = Cells(n)

(* A request is served the blobs of its own query, in order, wherever they came from.      *)
ServedAsStored == \A c \in Contexts : pc[c] = "served" => page[c] = [k \in DOMAIN rows[c] |-> Cells(rows[c][k])]

(* A request ends, though its query may miss at any row and the directory is emptied under *)
(* it: after one miss it looks there no more.                                              *)
EndsInTheEnd == \A c \in Contexts : (pc[c] = "rows") ~> (pc[c] # "rows" /\ pc[c] # "again")

=============================================================================
