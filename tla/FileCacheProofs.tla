---------------------------- MODULE FileCacheProofs ----------------------------
(***************************************************************************)
(* Theorems about FileCache, for every number of contexts, every size of a *)
(* blob and any number of crashes, failing writes and cleanups.            *)
(***************************************************************************)
EXTENDS FileCache, TLAPS

-----------------------------------------------------------------------------
(* The invariant.                                                           *)

Image == {Cells(b) : b \in Blobs}

Typed ==
  /\ db \in Tables
  /\ missed \in [Contexts -> BOOLEAN]
  /\ pc \in [Contexts -> {"idle", "rows", "again", "served", "failed"}]
  /\ rows \in [Contexts -> Seq(Blobs)]
  /\ page \in [Contexts -> Seq(Image)]
  /\ temp \in [Contexts -> TempFiles \cup {"none"}]
  /\ written \in [Contexts -> Nat]

\* A context with a temporary file is at a row it does not look for in the directory,
\* and the file holds what was written of the blob of that row.
Owner(c) ==
  /\ pc[c] = "rows" /\ missed[c]
  /\ Len(page[c]) < Len(rows[c])
  /\ temp[c] \in Names
  /\ written[c] <= BlobSize
  /\ files[temp[c]] = [k \in 1..written[c] |-> <<Next1(c), k>>]
Owned == \A c \in Contexts : temp[c] # "none" => Owner(c)

\* Nobody else has it.
Alone == \A c, d \in Contexts : temp[c] # "none" /\ temp[c] = temp[d] => c = d

\* The page has the blobs of the first rows; all of them when it is served.
Pages == \A c \in Contexts : pc[c] \in {"rows", "served"} =>
  /\ Len(page[c]) <= Len(rows[c])
  /\ pc[c] = "served" => Len(page[c]) = Len(rows[c])
  /\ \A k \in 1..Len(page[c]) : page[c][k] = Cells(rows[c][k])

Inv == Typed /\ Owned /\ Alone /\ NoTornFile /\ Pages

-----------------------------------------------------------------------------
(* Rows and temporary files.                                                *)

\* The next row has a blob.
LEMMA NextRow ==
  ASSUME Typed, NEW c \in Contexts, Len(page[c]) < Len(rows[c])
  PROVE  Next1(c) \in Blobs
<1>1. rows[c] \in Seq(Blobs) /\ page[c] \in Seq(Image)
  BY DEF Typed
<1>2. Len(page[c]) + 1 \in 1..Len(rows[c])
  BY <1>1
<1> QED BY <1>1, <1>2 DEF Next1

\* A temporary file has not the name of a hash.
LEMMA TempIsNoHash ==
  ASSUME Typed, NEW c \in Contexts, temp[c] # "none"
  PROVE  temp[c] \in TempFiles /\ temp[c] \notin Blobs
BY FileCacheAssumption DEF Typed

\* A page with the blob of the next row is a page again.
LEMMA NextPage ==
  ASSUME Typed, Pages, NEW c \in Contexts, pc[c] = "rows", Len(page[c]) < Len(rows[c]),
         page' = [page EXCEPT ![c] = Append(page[c], Cells(Next1(c)))]
  PROVE  /\ page' \in [Contexts -> Seq(Image)]
         /\ Len(page'[c]) <= Len(rows[c])
         /\ \A k \in 1..Len(page'[c]) : page'[c][k] = Cells(rows[c][k])
<1> DEFINE b == Next1(c)
<1>1. rows[c] \in Seq(Blobs) /\ page[c] \in Seq(Image) /\ page \in [Contexts -> Seq(Image)]
  BY DEF Typed
<1>2. Cells(b) \in Image
  BY NextRow DEF Image
<1>3. page'[c] = Append(page[c], Cells(b))
  BY <1>1
<1>4. page'[c] \in Seq(Image) /\ Len(page'[c]) = Len(page[c]) + 1
  BY <1>1, <1>2, <1>3
<1>5. ASSUME NEW k \in 1..Len(page'[c])
      PROVE  page'[c][k] = Cells(rows[c][k])
  <2>1. CASE k = Len(page[c]) + 1
    <3>1. page'[c][k] = Cells(b)
      BY <2>1, <1>1, <1>2, <1>3
    <3> QED BY <3>1, <2>1 DEF Next1
  <2>2. CASE k # Len(page[c]) + 1
    <3>1. k \in 1..Len(page[c])
      BY <2>2, <1>1, <1>4
    <3>2. page'[c][k] = page[c][k]
      BY <3>1, <1>1, <1>2, <1>3
    <3>3. page[c][k] = Cells(rows[c][k])
      BY <3>1 DEF Pages
    <3> QED BY <3>2, <3>3
  <2> QED BY <2>1, <2>2
<1>6. page' \in [Contexts -> Seq(Image)]
  BY <1>1, <1>3, <1>4
<1>7. Len(page'[c]) <= Len(rows[c])
  BY <1>1, <1>4
<1> QED BY <1>5, <1>6, <1>7

\* The next piece of a blob behind what was written of it.
LEMMA NextPiece ==
  ASSUME NEW b, NEW at \in Nat, NEW n \in 1..(BlobSize - at)
  PROVE  Put([k \in 1..at |-> <<b, k>>], at, SubSeq(Cells(b), at + 1, at + n))
           = [k \in 1..(at + n) |-> <<b, k>>]
<1> DEFINE old == [k \in 1..at |-> <<b, k>>]
           new == SubSeq(Cells(b), at + 1, at + n)
<1>1. BlobSize \in Nat /\ n \in Nat /\ at + n <= BlobSize
  BY FileCacheAssumption
<1>2. Len(old) = at
  OBVIOUS
<1>3. new = [k \in 1..n |-> <<b, at + k>>]
  BY <1>1 DEF Cells
<1>4. Len(new) = n
  BY <1>1, <1>3
<1>5. Put(old, at, new)
        = [k \in 1..(at + n) |-> IF k \in (at + 1)..(at + n) THEN new[k - at] ELSE old[k]]
  BY <1>1, <1>2, <1>4 DEF Put
<1>6. ASSUME NEW k \in 1..(at + n)
      PROVE  (IF k \in (at + 1)..(at + n) THEN new[k - at] ELSE old[k]) = <<b, k>>
  <2>1. CASE k \in (at + 1)..(at + n)
    <3>1. k - at \in 1..n /\ at + (k - at) = k
      BY <2>1, <1>1
    <3> QED BY <2>1, <3>1, <1>3
  <2>2. CASE k \notin (at + 1)..(at + n)
    BY <2>2, <1>1
  <2> QED BY <2>1, <2>2
<1> QED BY <1>5, <1>6

-----------------------------------------------------------------------------
(* Steps.                                                                   *)

LEMMA InitInv == Init => Inv
<1> SUFFICES ASSUME Init PROVE Inv
  OBVIOUS
<1>1. Typed
  BY DEF Init, Typed
<1>2. NoTornFile
  BY DEF Init, NoTornFile, Names
<1> QED BY <1>1, <1>2 DEF Init, Inv, Owned, Alone, Pages

\* What the owners of the other temporary files have stays as it is.
LEMMA OthersOwn ==
  ASSUME Owned, NEW c \in Contexts,
         \A d \in Contexts \ {c} :
           /\ pc'[d] = pc[d] /\ missed'[d] = missed[d] /\ page'[d] = page[d]
           /\ rows'[d] = rows[d] /\ temp'[d] = temp[d] /\ written'[d] = written[d]
           /\ temp[d] # "none" => temp[d] \in DOMAIN files' /\ files'[temp[d]] = files[temp[d]],
         temp'[c] # "none" => Owner(c)'
  PROVE  Owned'
<1> SUFFICES ASSUME NEW d \in Contexts, (temp[d] # "none")' PROVE Owner(d)'
  BY DEF Owned
<1>1. CASE d = c
  BY <1>1
<1>2. CASE d # c
  <2>1. /\ pc'[d] = pc[d] /\ missed'[d] = missed[d] /\ page'[d] = page[d]
        /\ rows'[d] = rows[d] /\ temp'[d] = temp[d] /\ written'[d] = written[d]
        /\ temp[d] # "none"
        /\ temp[d] \in DOMAIN files' /\ files'[temp[d]] = files[temp[d]]
    BY <1>2
  <2>2. Owner(d)
    BY <2>1 DEF Owned
  <2>3. files'[temp'[d]] = [k \in 1..written'[d] |-> <<Next1(d)', k>>]
    <3>1. Next1(d)' = Next1(d)
      BY <2>1 DEF Next1
    <3>2. files[temp[d]] = [k \in 1..written[d] |-> <<Next1(d), k>>]
      BY <2>2 DEF Owner
    <3> QED BY <2>1, <3>1, <3>2
  <2> QED BY <2>1, <2>2, <2>3 DEF Owner, Names
<1> QED BY <1>1, <1>2

LEMMA OthersPages ==
  ASSUME Pages, NEW c \in Contexts,
         \A d \in Contexts \ {c} : pc'[d] = pc[d] /\ page'[d] = page[d] /\ rows'[d] = rows[d],
         pc'[c] \in {"rows", "served"} =>
           /\ Len(page'[c]) <= Len(rows'[c])
           /\ pc'[c] = "served" => Len(page'[c]) = Len(rows'[c])
           /\ \A k \in 1..Len(page'[c]) : page'[c][k] = Cells(rows'[c][k])
  PROVE  Pages'
BY DEF Pages, Cells

LEMMA QueryInv == ASSUME Inv, NEW c \in Contexts, Query(c) PROVE Inv'
<1> USE DEF Inv
<1>1. /\ pc' = [pc EXCEPT ![c] = "rows"] /\ rows' = [rows EXCEPT ![c] = db]
      /\ page' = [page EXCEPT ![c] = <<>>]
      /\ UNCHANGED <<db, files, missed, temp, written>>
      /\ pc[c] # "rows"
  BY DEF Query, Restart, Set
<1>2. db \in Seq(Blobs)
  BY FileCacheAssumption DEF Typed
<1>3. Typed'
  BY <1>1, <1>2 DEF Typed
<1>4. temp[c] = "none"
  BY <1>1 DEF Owned, Owner
<1>5. page'[c] = <<>> /\ rows'[c] = db /\ pc'[c] = "rows" /\ temp'[c] = "none"
  BY <1>1, <1>4 DEF Typed
<1>6. Owned'
  <2>1. \A d \in Contexts \ {c} :
           /\ pc'[d] = pc[d] /\ missed'[d] = missed[d] /\ page'[d] = page[d]
           /\ rows'[d] = rows[d] /\ temp'[d] = temp[d] /\ written'[d] = written[d]
           /\ temp[d] # "none" => temp[d] \in DOMAIN files' /\ files'[temp[d]] = files[temp[d]]
    BY <1>1 DEF Typed, Owned, Owner, Names
  <2> QED BY <2>1, <1>5, OthersOwn
<1>7. Pages'
  <2>1. \A d \in Contexts \ {c} : pc'[d] = pc[d] /\ page'[d] = page[d] /\ rows'[d] = rows[d]
    BY <1>1 DEF Typed
  <2>2. Len(page'[c]) = 0 /\ Len(rows'[c]) \in Nat
    BY <1>2, <1>5
  <2> QED BY <2>1, <2>2, <1>5, OthersPages
<1>8. Alone' /\ NoTornFile'
  BY <1>1 DEF Alone, NoTornFile, Names, Cells
<1> QED BY <1>3, <1>6, <1>7, <1>8

LEMMA HitInv == ASSUME Inv, NEW c \in Contexts, Hit(c) PROVE Inv'
<1> USE DEF Inv
<1>1. /\ UNCHANGED <<db, files, missed, pc, rows, temp, written>>
      /\ page' = [page EXCEPT ![c] = Append(page[c], files[Next1(c)])]
      /\ pc[c] = "rows" /\ Len(page[c]) < Len(rows[c]) /\ ~missed[c] /\ Next1(c) \in Names
  BY DEF Hit, Set, More
<1>2. Next1(c) \in Blobs
  BY <1>1, NextRow
<1>3. files[Next1(c)] = Cells(Next1(c))
  BY <1>1, <1>2 DEF NoTornFile
<1>4. page' = [page EXCEPT ![c] = Append(page[c], Cells(Next1(c)))]
  BY <1>1, <1>3
<1>5. /\ page' \in [Contexts -> Seq(Image)]
      /\ Len(page'[c]) <= Len(rows[c])
      /\ \A k \in 1..Len(page'[c]) : page'[c][k] = Cells(rows[c][k])
  BY <1>1, <1>4, NextPage
<1>6. Typed'
  BY <1>1, <1>5 DEF Typed, Image, Cells
<1>7. temp[c] = "none"
  BY <1>1 DEF Owned, Owner
<1>8. Owned'
  <2>1. \A d \in Contexts \ {c} :
           /\ pc'[d] = pc[d] /\ missed'[d] = missed[d] /\ page'[d] = page[d]
           /\ rows'[d] = rows[d] /\ temp'[d] = temp[d] /\ written'[d] = written[d]
           /\ temp[d] # "none" => temp[d] \in DOMAIN files' /\ files'[temp[d]] = files[temp[d]]
    BY <1>1 DEF Typed, Owned, Owner, Names
  <2> QED BY <2>1, <1>1, <1>7, OthersOwn
<1>9. Pages'
  <2>1. \A d \in Contexts \ {c} : pc'[d] = pc[d] /\ page'[d] = page[d] /\ rows'[d] = rows[d]
    BY <1>1 DEF Typed
  <2> QED BY <2>1, <1>1, <1>5, OthersPages
<1>10. Alone' /\ NoTornFile'
  BY <1>1 DEF Alone, NoTornFile, Names, Cells
<1> QED BY <1>6, <1>8, <1>9, <1>10

\* The steps that leave files and pages alone, and take no temporary file.
LEMMA LightInv ==
  ASSUME Inv, NEW c \in Contexts, Miss(c) \/ WriteFails(c) \/ Commit(c) \/ Finish(c) \/ Crash(c)
  PROVE  Inv'
<1> USE DEF Inv
<1>1. /\ UNCHANGED <<db, files>>
      /\ pc' \in [Contexts -> {"idle", "rows", "again", "served", "failed"}]
      /\ pc'[c] # "rows" /\ temp'[c] = "none"
      /\ \A d \in Contexts \ {c} :
           /\ pc'[d] = pc[d] /\ missed'[d] = missed[d] /\ page'[d] = page[d]
           /\ rows'[d] = rows[d] /\ temp'[d] = temp[d] /\ written'[d] = written[d]
  <2>1. ASSUME Miss(c) \/ Commit(c) \/ Finish(c) PROVE temp[c] = "none"
    <3>1. CASE Miss(c)
      BY <3>1 DEF Miss, Owned, Owner
    <3>2. CASE Commit(c)
      <4>1. Len(page[c]) \in Nat /\ Len(page[c]) = Len(rows[c])
        BY <3>2 DEF Commit, Typed
      <4>2. ~ (Len(page[c]) < Len(rows[c]))
        BY <4>1
      <4> QED BY <4>2 DEF Owned, Owner
    <3>3. CASE Finish(c)
      BY <3>3 DEF Finish, Owned, Owner
    <3> QED BY <2>1, <3>1, <3>2, <3>3
  <2> QED BY <2>1 DEF Miss, NoteMiss, WriteFails, Commit, Finish, Restart, Crash, Set, Typed
<1>2. Typed'
  <2>1. /\ missed' \in [Contexts -> BOOLEAN] /\ rows' \in [Contexts -> Seq(Blobs)]
        /\ page' \in [Contexts -> Seq(Image)] /\ written' \in [Contexts -> Nat]
        /\ temp' \in [Contexts -> TempFiles \cup {"none"}]
    <3>1. CASE Miss(c)
      BY <3>1 DEF Miss, NoteMiss, Set, Typed
    <3>2. CASE WriteFails(c)
      BY <3>2 DEF WriteFails, Set, Typed
    <3>3. CASE Commit(c)
      BY <3>3 DEF Commit, Set, Typed
    <3>4. CASE Finish(c)
      BY <3>4 DEF Finish, Restart, Set, Typed
    <3>5. CASE Crash(c)
      BY <3>5 DEF Crash, Set, Typed
    <3>6. Image' = Image
      BY DEF Image, Cells
    <3> QED BY <3>1, <3>2, <3>3, <3>4, <3>5, <3>6
  <2> QED BY <1>1, <2>1 DEF Typed
<1>3. Owned'
  <2>1. \A d \in Contexts \ {c} :
           temp[d] # "none" => temp[d] \in DOMAIN files' /\ files'[temp[d]] = files[temp[d]]
    BY <1>1 DEF Owned, Owner, Names
  <2> QED BY <2>1, <1>1, OthersOwn
<1>4. Pages'
  <2>1. ASSUME pc'[c] \in {"rows", "served"}
        PROVE  /\ Len(page'[c]) = Len(rows'[c])
               /\ \A k \in 1..Len(page'[c]) : page'[c][k] = Cells(rows'[c][k])
    BY <2>1 DEF Miss, WriteFails, Commit, Finish, Crash, Set, Typed, Pages
  <2>2. Len(page'[c]) \in Nat
    BY <1>2 DEF Typed
  <2> QED BY <2>1, <2>2, <1>1, OthersPages
<1>5. Alone' /\ NoTornFile'
  BY <1>1 DEF Alone, NoTornFile, Names, Cells
<1> QED BY <1>2, <1>3, <1>4, <1>5

LEMMA MakeTempInv == ASSUME Inv, NEW c \in Contexts, MakeTemp(c) PROVE Inv'
<1> USE DEF Inv
<1>1. PICK n \in TempFiles \ Names :
        /\ temp' = [temp EXCEPT ![c] = n]
        /\ files' = With(n, <<>>)
        /\ written' = [written EXCEPT ![c] = 0]
        /\ UNCHANGED <<db, missed, pc, rows, page>>
        /\ pc[c] = "rows" /\ Len(page[c]) < Len(rows[c]) /\ missed[c]
  BY DEF MakeTemp, TempNames, Set, More
<1>2. Names' = Names \cup {n} /\ files'[n] = <<>> /\ \A m \in Names : files'[m] = files[m]
  BY <1>1 DEF With, Names
<1>3. n # "none" /\ n \notin Blobs
  BY FileCacheAssumption
<1>4. Typed'
  BY <1>1 DEF Typed, Image, Cells
<1>5. Owned'
  <2>1. Owner(c)'
    <3>1. temp'[c] = n /\ written'[c] = 0
      BY <1>1 DEF Typed
    <3>2. files'[temp'[c]] = [k \in 1..written'[c] |-> <<Next1(c)', k>>]
      BY <1>2, <3>1
    <3> QED BY <1>1, <1>2, <3>1, <3>2, FileCacheAssumption DEF Owner
  <2>2. \A d \in Contexts \ {c} :
           /\ pc'[d] = pc[d] /\ missed'[d] = missed[d] /\ page'[d] = page[d]
           /\ rows'[d] = rows[d] /\ temp'[d] = temp[d] /\ written'[d] = written[d]
           /\ temp[d] # "none" => temp[d] \in DOMAIN files' /\ files'[temp[d]] = files[temp[d]]
    BY <1>1, <1>2 DEF Typed, Owned, Owner, Names
  <2> QED BY <2>1, <2>2, OthersOwn
<1>6. Pages'
  BY <1>1 DEF Pages, Cells
<1>7. NoTornFile'
  BY <1>2, <1>3 DEF NoTornFile, Cells
<1>8. Alone'
  <2>1. \A d \in Contexts : temp[d] # n
    BY <1>3 DEF Owned, Owner
  <2> QED BY <1>1, <2>1 DEF Alone, Typed
<1> QED BY <1>4, <1>5, <1>6, <1>7, <1>8

LEMMA WriteInv == ASSUME Inv, NEW c \in Contexts, WriteSome(c) PROVE Inv'
<1> USE DEF Inv
<1> DEFINE t == temp[c]
           b == Next1(c)
<1>1. PICK n \in 1..(BlobSize - written[c]) :
        /\ files' = With(t, Put(files[t], written[c], SubSeq(Cells(b), written[c] + 1, written[c] + n)))
        /\ written' = [written EXCEPT ![c] = written[c] + n]
        /\ UNCHANGED <<db, missed, pc, rows, page, temp>>
        /\ t # "none"
  BY DEF WriteSome, Writing, Set
<1>2. Owner(c)
  BY <1>1 DEF Owned
<1>3. written[c] \in Nat /\ n \in Nat /\ written[c] + n <= BlobSize
  BY <1>1, FileCacheAssumption DEF Typed
<1>4. Names' = Names
  BY <1>1, <1>2 DEF With, Names, Owner
<1>5. files'[t] = [k \in 1..(written[c] + n) |-> <<b, k>>]
  <2>1. files'[t] = Put(files[t], written[c], SubSeq(Cells(b), written[c] + 1, written[c] + n))
    BY <1>1 DEF With, Names
  <2>2. files[t] = [k \in 1..written[c] |-> <<b, k>>]
    BY <1>2 DEF Owner
  <2> QED BY <2>1, <2>2, <1>3, NextPiece
<1>6. \A m \in Names : m # t => files'[m] = files[m]
  BY <1>1 DEF With
<1>7. Typed'
  <2>1. written' \in [Contexts -> Nat]
    BY <1>1, <1>3 DEF Typed
  <2>2. Image' = Image
    BY DEF Image, Cells
  <2> QED BY <1>1, <2>1, <2>2 DEF Typed
<1>8. Owned'
  <2>1. Owner(c)'
    <3>1. written'[c] = written[c] + n
      BY <1>1 DEF Typed
    <3>2. Next1(c)' = b
      BY <1>1 DEF Next1
    <3>3. files'[temp'[c]] = [k \in 1..written'[c] |-> <<Next1(c)', k>>]
      BY <1>1, <1>5, <3>1, <3>2
    <3> QED BY <1>1, <1>2, <1>3, <1>4, <3>1, <3>3 DEF Owner
  <2>2. \A d \in Contexts \ {c} : temp[d] # "none" => temp[d] # t /\ temp[d] \in Names
    BY <1>1 DEF Alone, Owned, Owner
  <2>3. \A d \in Contexts \ {c} :
           /\ pc'[d] = pc[d] /\ missed'[d] = missed[d] /\ page'[d] = page[d]
           /\ rows'[d] = rows[d] /\ temp'[d] = temp[d] /\ written'[d] = written[d]
           /\ temp[d] # "none" => temp[d] \in DOMAIN files' /\ files'[temp[d]] = files[temp[d]]
    BY <1>1, <1>4, <1>6, <2>2 DEF Typed, Names
  <2> QED BY <2>1, <2>3, OthersOwn
<1>9. Pages'
  BY <1>1 DEF Pages, Cells
<1>10. NoTornFile'
  <2>1. t \notin Blobs
    BY <1>1, TempIsNoHash
  <2> QED BY <1>4, <1>6, <2>1 DEF NoTornFile, Cells
<1>11. Alone'
  BY <1>1 DEF Alone
<1> QED BY <1>7, <1>8, <1>9, <1>10, <1>11

LEMMA RenameInv == ASSUME Inv, NEW c \in Contexts, Rename(c) PROVE Inv'
<1> USE DEF Inv
<1> DEFINE t == temp[c]
           b == Next1(c)
<1>1. /\ t # "none" /\ written[c] = BlobSize
      /\ files' = [n \in (Names \ {t}) \cup {b} |-> IF n = b THEN files[t] ELSE files[n]]
      /\ temp' = [temp EXCEPT ![c] = "none"]
      /\ page' = [page EXCEPT ![c] = Append(page[c], Cells(b))]
      /\ UNCHANGED <<db, missed, pc, rows, written>>
  BY DEF Rename, Whole, Set
<1>2. Owner(c)
  BY <1>1 DEF Owned
<1>3. /\ page' \in [Contexts -> Seq(Image)]
      /\ Len(page'[c]) <= Len(rows[c])
      /\ \A k \in 1..Len(page'[c]) : page'[c][k] = Cells(rows[c][k])
  BY <1>1, <1>2, NextPage DEF Owner
<1>4. b \in Blobs
  BY <1>2, NextRow DEF Owner
<1>5. files[t] = Cells(b)
  BY <1>1, <1>2 DEF Owner, Cells
<1>6. Typed'
  BY <1>1, <1>3 DEF Typed, Image, Cells
<1>7. Owned'
  <2>1. temp'[c] = "none"
    BY <1>1 DEF Typed
  <2>2. ASSUME NEW d \in Contexts \ {c}, temp[d] # "none"
        PROVE  temp[d] \in DOMAIN files' /\ files'[temp[d]] = files[temp[d]]
    <3>1. temp[d] # t /\ temp[d] # b /\ temp[d] \in Names
      BY <2>2, <1>1, <1>4, TempIsNoHash DEF Alone, Owned, Owner
    <3> QED BY <1>1, <3>1
  <2>3. \A d \in Contexts \ {c} :
           /\ pc'[d] = pc[d] /\ missed'[d] = missed[d] /\ page'[d] = page[d]
           /\ rows'[d] = rows[d] /\ temp'[d] = temp[d] /\ written'[d] = written[d]
           /\ temp[d] # "none" => temp[d] \in DOMAIN files' /\ files'[temp[d]] = files[temp[d]]
    BY <1>1, <2>2 DEF Typed
  <2> QED BY <2>1, <2>3, OthersOwn
<1>8. Pages'
  <2>1. \A d \in Contexts \ {c} : pc'[d] = pc[d] /\ page'[d] = page[d] /\ rows'[d] = rows[d]
    BY <1>1 DEF Typed
  <2>2. pc'[c] = "rows" /\ rows'[c] = rows[c]
    BY <1>1, <1>2 DEF Owner
  <2> QED BY <2>1, <2>2, <1>3, OthersPages
<1>9. NoTornFile'
  <2>1. Names' = (Names \ {t}) \cup {b}
    BY <1>1 DEF Names
  <2>2. \A n \in Names' : files'[n] = IF n = b THEN files[t] ELSE files[n]
    BY <1>1, <2>1
  <2> QED BY <1>5, <2>1, <2>2 DEF NoTornFile, Cells
<1>10. Alone'
  BY <1>1 DEF Alone, Typed
<1> QED BY <1>6, <1>7, <1>8, <1>9, <1>10

LEMMA CleanupInv == ASSUME Inv, Cleanup PROVE Inv'
<1> USE DEF Inv
<1>1. PICK b \in Names \cap Blobs : files' = [n \in Names \ {b} |-> files[n]]
  BY DEF Cleanup
<1>2. UNCHANGED <<db, missed, pc, rows, page, temp, written>>
  BY DEF Cleanup, locals
<1>3. Typed' /\ Pages' /\ Alone'
  <2>1. Image' = Image
    BY DEF Image, Cells
  <2>2. Typed'
    BY <1>2, <2>1 DEF Typed
  <2>3. Pages' /\ Alone'
    BY <1>2 DEF Pages, Alone, Cells
  <2> QED BY <2>2, <2>3
<1>4. NoTornFile'
  BY <1>1 DEF NoTornFile, Names, Cells
<1>5. ASSUME NEW c \in Contexts, temp[c] # "none" PROVE Owner(c)'
  <2>1. temp[c] # b /\ temp[c] \in Names
    BY <1>5, TempIsNoHash DEF Owned, Owner
  <2>2. Next1(c)' = Next1(c)
    BY <1>2 DEF Next1
  <2>3. files'[temp'[c]] = [k \in 1..written'[c] |-> <<Next1(c)', k>>]
    BY <1>1, <1>2, <1>5, <2>1, <2>2 DEF Owned, Owner
  <2>4. temp'[c] \in Names'
    BY <1>1, <1>2, <2>1 DEF Names
  <2> QED BY <1>2, <1>5, <2>3, <2>4 DEF Owned, Owner
<1>6. Owned'
  BY <1>2, <1>5 DEF Owned
<1> QED BY <1>3, <1>4, <1>6

\* The table changes, or nothing does.
LEMMA ChangeInv == ASSUME Inv, Change \/ UNCHANGED vars PROVE Inv'
<1> USE DEF Inv
<1>1. UNCHANGED <<files, missed, pc, rows, page, temp, written>> /\ db' \in Tables
  BY DEF Change, locals, vars, Typed
<1>2. Typed' /\ Pages' /\ Alone' /\ NoTornFile'
  <2>1. Image' = Image
    BY DEF Image, Cells
  <2>2. Typed'
    BY <1>1, <2>1 DEF Typed
  <2>3. Pages' /\ Alone' /\ NoTornFile'
    BY <1>1 DEF Pages, Alone, NoTornFile, Names, Cells
  <2> QED BY <2>2, <2>3
<1>3. Owned'
  BY <1>1 DEF Owned, Owner, Names, Next1
<1> QED BY <1>2, <1>3

LEMMA NextInv == ASSUME Inv, [Next]_vars PROVE Inv'
<1>1. ASSUME NEW c \in Contexts, Step(c) PROVE Inv'
  BY <1>1, QueryInv, HitInv, LightInv, MakeTempInv, WriteInv, RenameInv DEF Step
<1>2. ASSUME NEW c \in Contexts, Crash(c) PROVE Inv'
  BY <1>2, LightInv
<1> QED BY <1>1, <1>2, CleanupInv, ChangeInv DEF Next

LEMMA Invariant == Spec => []Inv
<1> QED BY InitInv, NextInv, PTL DEF Spec

-----------------------------------------------------------------------------
(* The theorems.                                                            *)

(* A file that has the name of a hash is the whole file of that hash: the temporary file   *)
(* of mkstemp has one writer, and gets that name when all was written (urweb.c:5374-5397). *)
THEOREM NoFileIsTorn == Spec => []NoTornFile
<1> QED BY Invariant, PTL DEF Inv

(* A request is served the blobs of its own query, in order, whether they came from the    *)
(* directory or from the database (urweb.c:5405-5451, filecache.sml:196-220).              *)
THEOREM PagesAreServed == Spec => []ServedAsStored
<1>1. ASSUME Inv PROVE ServedAsStored
  <2> SUFFICES ASSUME NEW c \in Contexts, pc[c] = "served"
               PROVE  page[c] = [k \in DOMAIN rows[c] |-> Cells(rows[c][k])]
    BY DEF ServedAsStored
  <2>1. rows[c] \in Seq(Blobs) /\ page[c] \in Seq(Image)
    BY <1>1 DEF Inv, Typed
  <2>2. Len(page[c]) = Len(rows[c]) /\ \A k \in 1..Len(page[c]) : page[c][k] = Cells(rows[c][k])
    BY <1>1 DEF Inv, Pages
  <2>3. page[c] = [k \in 1..Len(page[c]) |-> page[c][k]]
    BY <2>1
  <2>4. DOMAIN rows[c] = 1..Len(page[c])
    BY <2>1, <2>2
  <2> QED BY <2>2, <2>3, <2>4
<1> QED BY <1>1, Invariant, PTL
=============================================================================
