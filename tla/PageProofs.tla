------------------------------ MODULE PageProofs ------------------------------
(***************************************************************************)
(* What a page sends back: the cookies of the browser and the fields of a  *)
(* form.  The signatures of a page are those of the browser's cookies, and *)
(* an answer sets the cookies of its own attempt, for any number of tabs,  *)
(* cookies and values.  No pointer between the cells of a form dangles,    *)
(* whatever fields are sent, and the handler finds the very form that the  *)
(* browser has sent, for any shape of the form and however often the block *)
(* of its cells moves.                                                     *)
(***************************************************************************)
EXTENDS Cookies, Inputs, FiniteSetTheorems, TLAPS

-----------------------------------------------------------------------------
(* The invariant.                                                           *)

Jar  == [CookieNames -> CookieValues \cup {NoCookie}]
Line == [name : CookieNames, value : CookieValues \cup {NoCookie}]
Page == [forms : SUBSET Jar, script : SUBSET Jar]

TypeOK ==
  /\ jar \in Jar
  /\ pc \in [Tabs -> {"blank", "handler", "answer", "page"}]
  /\ kind \in [Tabs -> {"page", "rpc", "redirect", "blob", "error"}]
  /\ header \in [Tabs -> Jar] /\ out \in [Tabs -> Seq(Line)]
  /\ page \in [Tabs -> Page] /\ shown \in [Tabs -> Page]
  /\ usedSig \in [Tabs -> BOOLEAN] /\ needsResig \in [Tabs -> BOOLEAN]
  /\ meant \in [Tabs -> Seq(Line)]
  /\ changed \in [Tabs -> {"no", "rpc", "other"}] /\ meanwhile \in [Tabs -> {"no", "other"}]

\* A handler sets a cookie once, so its first line for it is its last one.
Once(lines) == \A i, j \in DOMAIN lines : lines[i].name = lines[j].name => i = j

\* The cookies the browser will have if nobody else changes them.
Later(t) == Apply(header[t], out[t])

\* The headers are those of the attempt.
OutInv == \A t \in Tabs : out[t] = meant[t] /\ Once(out[t])

\* A signature in a form that is not of the cookies to come will be renewed.
HandlerInv ==
  \A t \in Tabs : pc[t] = "handler" =>
    /\ kind[t] \in {"page", "rpc"} /\ page[t].script = {}
    /\ ~usedSig[t] => page[t].forms = {}
    /\ ~needsResig[t] => page[t].forms \subseteq {Later(t)}

\* An answer is signed for the cookies to come; if it brings new ones, so is a script.
AnswerInv ==
  \A t \in Tabs : pc[t] = "answer" =>
    /\ page[t].forms \subseteq {Later(t)} /\ page[t].script \subseteq {Later(t)}
    /\ kind[t] = "rpc" /\ page[t].script = {} => out[t] = <<>>

\* What changes the cookies behind a request's back is noticed.
HeaderInv ==
  \A t \in Tabs : pc[t] \in {"handler", "answer"} =>
    /\ meanwhile[t] = "no" => header[t] = jar
    /\ kind[t] = "rpc" /\ changed[t] # "other" => header[t] = jar

\* The page a tab shows, also while it waits for an answer.
ShownInv ==
  \A t \in Tabs :
    /\ pc[t] = "blank" => shown[t] = NoPage
    /\ changed[t] = "no" => shown[t].forms \subseteq {jar}
    /\ changed[t] # "other" => shown[t].script \subseteq {jar}

Inv == TypeOK /\ OutInv /\ HandlerInv /\ AnswerInv /\ HeaderInv /\ ShownInv

-----------------------------------------------------------------------------
(* Lines and cookies.                                                       *)

\* The place of the first and of the last line that sets a cookie.
FirstOf(lines, n) == SelectInSeq(lines, LAMBDA l : l.name = n)
LastOf(lines, n)  == SelectLastInSeq(lines, LAMBDA l : l.name = n)

LEMMA PlaceOf ==
  ASSUME NEW lines \in Seq(Line), Once(lines), NEW n \in CookieNames
  PROVE  /\ FirstOf(lines, n) = LastOf(lines, n) /\ FirstOf(lines, n) \in Nat
         /\ FirstOf(lines, n) > 0 => lines[FirstOf(lines, n)] \in Line
         /\ lines = <<>> => FirstOf(lines, n) = 0
<1> DEFINE hits == {i \in 1..Len(lines) : lines[i].name = n}
<1>1. FirstOf(lines, n) = (IF hits # {} THEN Min(hits) ELSE 0)
  BY DEF FirstOf, SelectInSeq
<1>2. LastOf(lines, n) = (IF hits # {} THEN Max(hits) ELSE 0)
  BY DEF LastOf, SelectLastInSeq
<1>3. CASE hits = {}
  BY <1>1, <1>2, <1>3
<1>4. CASE hits # {}
  <2>1. PICK k \in 1..Len(lines) : k \in hits
    BY <1>4
  <2>2. hits = {k}
    BY <2>1 DEF Once
  <2>3. Min({k}) = k /\ Max({k}) = k
    BY <2>1 DEF Min, Max
  <2>4. FirstOf(lines, n) = k /\ LastOf(lines, n) = k
    BY <1>1, <1>2, <1>4, <2>2, <2>3
  <2> HIDE DEF hits
  <2> QED BY <2>1, <2>4
<1> QED BY <1>3, <1>4

\* What the handler reads, and signs, is what the browser will have.
LEMMA SigIsLater ==
  ASSUME NamesApart, TypeOK, OutInv, NEW t \in Tabs
  PROVE  CookieSig(t) = Later(t) /\ Later(t) \in Jar
<1>1. PICK lines \in Seq(Line) : lines = out[t] /\ Once(lines)
  BY DEF TypeOK, OutInv
<1>2. PICK h \in Jar : h = header[t]
  BY DEF TypeOK
<1> DEFINE Read(k, n) == IF k > 0 THEN lines[k].value ELSE h[n]
<1>3. CookieSig(t) = [n \in CookieNames |-> Read(FirstOf(lines, n), n)]
  <2>1. ASSUME NEW n \in CookieNames
        PROVE  SelectInSeq(lines, LAMBDA l : l.name \in StartOf[n]) = FirstOf(lines, n)
    <3>1. StartOf[n] = {n}
      BY DEF NamesApart
    <3>2. {i \in 1..Len(lines) : lines[i].name \in StartOf[n]} = {i \in 1..Len(lines) : lines[i].name = n}
      BY <3>1
    <3> QED BY <3>2 DEF FirstOf, SelectInSeq
  <2>2. ASSUME NEW n \in CookieNames PROVE GetCookie(t, n) = Read(FirstOf(lines, n), n)
    BY <1>1, <1>2, <2>1 DEF GetCookie
  <2> HIDE DEF Read
  <2> QED BY <2>2, Zenon DEF CookieSig
<1>4. Later(t) = [n \in CookieNames |-> Read(LastOf(lines, n), n)]
  BY <1>1, <1>2 DEF Later, Apply, LastOf
<1>5. \A n \in CookieNames : /\ FirstOf(lines, n) = LastOf(lines, n) /\ FirstOf(lines, n) \in Nat
                             /\ FirstOf(lines, n) > 0 => lines[FirstOf(lines, n)] \in Line
  BY <1>1, PlaceOf
<1>6. CookieSig(t) = Later(t)
  <2> HIDE DEF Read
  <2>1. \A n \in CookieNames : Read(FirstOf(lines, n), n) = Read(LastOf(lines, n), n)
    BY <1>5, Zenon
  <2>2. [n \in CookieNames |-> Read(FirstOf(lines, n), n)] = [n \in CookieNames |-> Read(LastOf(lines, n), n)]
    BY <2>1, Zenon
  <2> QED BY <1>3, <1>4, <2>2
<1>7. CookieSig(t) \in Jar
  <2>1. \A n \in CookieNames : Read(FirstOf(lines, n), n) \in CookieValues \cup {NoCookie}
    <3> SUFFICES ASSUME NEW n \in CookieNames PROVE Read(FirstOf(lines, n), n) \in CookieValues \cup {NoCookie}
      OBVIOUS
    <3>1. CASE FirstOf(lines, n) > 0
      <4>1. lines[FirstOf(lines, n)] \in Line
        BY <1>5, <3>1, Zenon
      <4>2. PICK l \in Line : l = lines[FirstOf(lines, n)]
        BY <4>1, Zenon
      <4> QED BY <3>1, <4>2 DEF Line
    <3>2. CASE ~(FirstOf(lines, n) > 0)
      BY <3>2 DEF Jar
    <3> QED BY <3>1, <3>2
  <2> HIDE DEF Read
  <2> QED BY <1>3, <2>1 DEF Jar
<1> QED BY <1>6, <1>7

LEMMA ApplyIs ==
  ASSUME NEW c \in Jar, NEW lines \in Seq(Line), Once(lines) PROVE Apply(c, lines) \in Jar
<1> DEFINE Read(k, n) == IF k > 0 THEN lines[k].value ELSE c[n]
<1>1. Apply(c, lines) = [n \in CookieNames |-> Read(LastOf(lines, n), n)]
  BY DEF Apply, LastOf
<1>2. \A n \in CookieNames : Read(LastOf(lines, n), n) \in CookieValues \cup {NoCookie}
  <2> SUFFICES ASSUME NEW n \in CookieNames PROVE Read(LastOf(lines, n), n) \in CookieValues \cup {NoCookie}
    OBVIOUS
  <2>1. LastOf(lines, n) > 0 => lines[LastOf(lines, n)] \in Line
    BY PlaceOf
  <2>2. CASE LastOf(lines, n) > 0
    <3>1. PICK l \in Line : l = lines[LastOf(lines, n)]
      BY <2>1, <2>2
    <3> QED BY <2>2, <3>1 DEF Line
  <2>3. CASE ~(LastOf(lines, n) > 0)
    BY <2>3 DEF Jar
  <2> QED BY <2>2, <2>3
<1> HIDE DEF Read
<1> QED BY <1>1, <1>2 DEF Jar

LEMMA NoLines == ASSUME NEW c \in Jar PROVE Apply(c, <<>>) = c /\ Once(<<>>)
<1>1. Once(<<>>) /\ <<>> \in Seq(Line)
  BY DEF Once
<1>2. \A n \in CookieNames : LastOf(<<>>, n) = 0
  BY <1>1, PlaceOf
<1>3. Apply(c, <<>>) = [n \in CookieNames |-> LET k == LastOf(<<>>, n) IN IF k > 0 THEN <<>>[k].value ELSE c[n]]
  BY DEF Apply, LastOf
<1> QED BY <1>1, <1>2, <1>3 DEF Jar

-----------------------------------------------------------------------------
(* The steps of a tab but the last leave the cookies of the browser alone.  *)

LEMMA ResetIs ==
  ASSUME TypeOK, NEW t \in Tabs, ResetContext(t)
  PROVE  /\ out' = [out EXCEPT ![t] = <<>>] /\ page' = [page EXCEPT ![t] = NoPage]
         /\ usedSig' = [usedSig EXCEPT ![t] = FALSE] /\ needsResig' = [needsResig EXCEPT ![t] = FALSE]
         /\ meant' = [meant EXCEPT ![t] = <<>>]
         /\ NoPage \in Page /\ <<>> \in Seq(Line) /\ Once(<<>>)
BY DEF ResetContext, ResetHeaders, Put, NoPage, Page, Once

LEMMA BeginStep ==
  ASSUME Inv, NEW t \in Tabs, NEW what \in {"page", "rpc"}, Begin(t, what)
  PROVE  Inv'
<1>0. /\ out' = [out EXCEPT ![t] = <<>>] /\ page' = [page EXCEPT ![t] = NoPage]
      /\ usedSig' = [usedSig EXCEPT ![t] = FALSE] /\ needsResig' = [needsResig EXCEPT ![t] = FALSE]
      /\ meant' = [meant EXCEPT ![t] = <<>>]
      /\ NoPage \in Page /\ <<>> \in Seq(Line) /\ Once(<<>>)
  BY ResetIs DEF Begin, Inv
<1> USE DEF Inv, TypeOK, Put
<1>1. /\ pc' = [pc EXCEPT ![t] = "handler"] /\ kind' = [kind EXCEPT ![t] = what]
      /\ header' = [header EXCEPT ![t] = jar] /\ meanwhile' = [meanwhile EXCEPT ![t] = "no"]
      /\ UNCHANGED <<jar, shown, changed>> /\ ResetContext(t)
  BY DEF Begin
<1>2. TypeOK'
  BY <1>0, <1>1
<1>3. OutInv'
  BY <1>0, <1>1 DEF OutInv, Once
<1>4. HandlerInv' /\ AnswerInv'
  BY <1>0, <1>1 DEF HandlerInv, AnswerInv, Later, NoPage
<1>5. HeaderInv' /\ ShownInv'
  BY <1>1 DEF HeaderInv, ShownInv
<1> QED BY <1>2, <1>3, <1>4, <1>5

LEMMA RefuseStep == ASSUME Inv, NEW t \in Tabs, WrongSignature(t) PROVE Inv'
<1> USE DEF Inv, TypeOK, Put, context
<1>1. /\ pc' = [pc EXCEPT ![t] = "blank"] /\ shown' = [shown EXCEPT ![t] = NoPage]
      /\ changed' = [changed EXCEPT ![t] = "no"]
      /\ UNCHANGED <<jar, kind, header, out, page, usedSig, needsResig, meant, meanwhile>>
  BY DEF WrongSignature
<1>2. TypeOK' /\ OutInv'
  BY <1>1 DEF OutInv, Once, NoPage, Page
<1>3. HandlerInv' /\ AnswerInv' /\ HeaderInv' /\ ShownInv'
  BY <1>1 DEF HandlerInv, AnswerInv, HeaderInv, ShownInv, Later, NoPage
<1> QED BY <1>2, <1>3

LEMMA SetStep ==
  ASSUME SetsOnce, Inv, NEW t \in Tabs, NEW n \in CookieNames, NEW v \in CookieValues \cup {NoCookie}, SetCookie(t, n, v)
  PROVE  Inv'
<1> USE DEF Inv, TypeOK, Put
<1> DEFINE line == [name |-> n, value |-> v]
<1>1. /\ pc[t] = "handler" /\ \A l \in Range(out[t]) : l.name # n
      /\ out' = [out EXCEPT ![t] = Append(out[t], line)]
      /\ meant' = [meant EXCEPT ![t] = Append(meant[t], line)]
      /\ needsResig' = (IF usedSig[t] THEN [needsResig EXCEPT ![t] = TRUE] ELSE needsResig)
      /\ UNCHANGED <<jar, pc, kind, header, page, usedSig, shown, changed, meanwhile>>
  BY DEF SetCookie, NoteCookie
<1>2. PICK lines \in Seq(Line) : lines = out[t] /\ Once(lines)
  BY DEF OutInv
<1>3. line \in Line /\ Append(lines, line) \in Seq(Line) /\ Once(Append(lines, line))
  <2>1. line \in Line /\ Append(lines, line) \in Seq(Line) /\ line.name = n
    BY DEF Line
  <2>2. \A i \in DOMAIN lines : lines[i].name # n
    BY <1>1, <1>2 DEF Range
  <2> HIDE DEF line
  <2>3. /\ DOMAIN Append(lines, line) = DOMAIN lines \cup {Len(lines) + 1}
        /\ Append(lines, line)[Len(lines) + 1] = line
        /\ \A i \in DOMAIN lines : Append(lines, line)[i] = lines[i]
    BY <2>1
  <2> QED BY <1>2, <2>1, <2>2, <2>3 DEF Once
<1> HIDE DEF line
<1>4. TypeOK'
  BY <1>1, <1>2, <1>3 DEF OutInv
<1>5. OutInv'
  BY <1>1, <1>2, <1>3 DEF OutInv, Once
<1>6. HandlerInv'
  BY <1>1 DEF HandlerInv, Later
<1>7. AnswerInv' /\ HeaderInv' /\ ShownInv'
  BY <1>1 DEF AnswerInv, HeaderInv, ShownInv, Later
<1> QED BY <1>4, <1>5, <1>6, <1>7

LEMMA SigStep == ASSUME NamesApart, Inv, NEW t \in Tabs, SigString(t) PROVE Inv'
<1> USE DEF Inv, TypeOK, Put
<1>1. /\ pc[t] = "handler" /\ usedSig' = [usedSig EXCEPT ![t] = TRUE]
      /\ page' = [page EXCEPT ![t] = [page[t] EXCEPT !.forms = page[t].forms \cup {Later(t)}]]
      /\ UNCHANGED <<jar, pc, kind, header, out, needsResig, shown, meant, changed, meanwhile>>
  BY SigIsLater DEF SigString
<1>2. PICK p \in Page, sig \in Jar : p = page[t] /\ sig = Later(t)
  BY SigIsLater
<1>3. PICK q \in Page : /\ q = [p EXCEPT !.forms = p.forms \cup {sig}]
                         /\ q.forms = p.forms \cup {sig} /\ q.script = p.script
  <2> DEFINE r == [p EXCEPT !.forms = p.forms \cup {sig}]
  <2>1. r.forms = p.forms \cup {sig} /\ r.script = p.script
    BY DEF Page
  <2>2. r \in Page
    BY DEF Page
  <2> QED BY <2>1, <2>2
<1>4. page' = [page EXCEPT ![t] = q]
  BY <1>1, <1>2, <1>3
<1>5. TypeOK' /\ OutInv'
  <2>1. page' \in [Tabs -> Page] /\ usedSig' \in [Tabs -> BOOLEAN]
    <3>1. page' \in [Tabs -> Page]
      BY <1>4
    <3>2. usedSig' = [usedSig EXCEPT ![t] = TRUE] /\ usedSig \in [Tabs -> BOOLEAN]
      BY <1>1
    <3> QED BY <3>1, <3>2
  <2>2. OutInv'
    BY <1>1 DEF OutInv, Once
  <2> QED BY <1>1, <2>1, <2>2
<1>6. HandlerInv'
  BY <1>1, <1>2, <1>3, <1>4 DEF HandlerInv, Later
<1>7. AnswerInv' /\ HeaderInv' /\ ShownInv'
  BY <1>1, <1>4 DEF AnswerInv, HeaderInv, ShownInv, Later
<1> QED BY <1>5, <1>6, <1>7

LEMMA RetryStep == ASSUME Inv, NEW t \in Tabs, RetryHandler(t) PROVE Inv'
<1>0. /\ out' = [out EXCEPT ![t] = <<>>] /\ page' = [page EXCEPT ![t] = NoPage]
      /\ usedSig' = [usedSig EXCEPT ![t] = FALSE] /\ needsResig' = [needsResig EXCEPT ![t] = FALSE]
      /\ meant' = [meant EXCEPT ![t] = <<>>]
      /\ NoPage \in Page /\ <<>> \in Seq(Line) /\ Once(<<>>)
  BY ResetIs DEF RetryHandler, Inv
<1> USE DEF Inv, TypeOK, Put
<1>1. /\ pc[t] = "handler" /\ ResetContext(t)
      /\ UNCHANGED <<jar, pc, kind, header, shown, changed, meanwhile>>
  BY DEF RetryHandler
<1>2. TypeOK'
  BY <1>0, <1>1
<1>3. OutInv'
  BY <1>0, <1>1 DEF OutInv, Once
<1>4. HandlerInv' /\ AnswerInv'
  BY <1>0, <1>1 DEF HandlerInv, AnswerInv, Later, NoPage
<1>5. HeaderInv' /\ ShownInv'
  BY <1>1 DEF HeaderInv, ShownInv
<1> QED BY <1>2, <1>3, <1>4, <1>5

\* An answer that is signed for the cookies it sets.
LEMMA AnswerStep ==
  ASSUME Inv, NEW t \in Tabs, NEW what \in {"page", "rpc", "redirect", "blob", "error"},
         NEW lines \in Seq(Line), NEW p \in Page, Answer(t, what, lines, p),
         meant' = [meant EXCEPT ![t] = lines], Once(lines),
         \/ lines = out[t] /\ p.forms \subseteq {Later(t)} /\ p.script \subseteq {Later(t)}
         \/ p = NoPage,
         what = "rpc" => kind[t] = "rpc" /\ (p.script = {} => lines = <<>>)
  PROVE  Inv'
<1> USE DEF Inv, TypeOK, Put
<1>1. /\ pc' = [pc EXCEPT ![t] = "answer"] /\ kind' = [kind EXCEPT ![t] = what]
      /\ out' = [out EXCEPT ![t] = lines] /\ page' = [page EXCEPT ![t] = p]
      /\ pc[t] = "handler"
      /\ UNCHANGED <<jar, header, usedSig, needsResig, shown, changed, meanwhile>>
  BY DEF Answer
<1>2. TypeOK' /\ OutInv'
  BY <1>1 DEF OutInv, Once
<1>3. HandlerInv' /\ AnswerInv'
  BY <1>1 DEF HandlerInv, AnswerInv, Later, NoPage
<1>4. HeaderInv' /\ ShownInv'
  BY <1>1 DEF HeaderInv, ShownInv
<1> QED BY <1>2, <1>3, <1>4

LEMMA HandleStep == ASSUME SetsOnce, NamesApart, Inv, NEW t \in Tabs, Handle(t) PROVE Inv'
<1> DEFINE h == out[t]
<1>1. h \in Seq(Line) /\ Once(h) /\ meant[t] = h /\ NoPage \in Page
  BY DEF Inv, TypeOK, OutInv, NoPage, Page
<1>2. UNCHANGED meant => meant' = [meant EXCEPT ![t] = h]
  BY <1>1 DEF Inv, TypeOK
<1>3. Later(t) \in Jar /\ CookieSig(t) = Later(t)
  BY SigIsLater DEF Inv
<1>4. CASE \E n \in CookieNames : ClearCookie(t, n) \/ \E v \in CookieValues : SetCookie(t, n, v)
  BY <1>4, SetStep DEF ClearCookie
<1>5. CASE ReturnPage(t)
  <2> DEFINE p == [forms |-> Resigned(t), script |-> {CookieSig(t)}]
  <2>1. pc[t] = "handler" /\ Answer(t, "page", h, p) /\ UNCHANGED meant
    BY <1>5 DEF ReturnPage, Answer
  <2>2. Resigned(t) \subseteq {Later(t)}
    BY <1>3, <2>1 DEF Resigned, Inv, HandlerInv, TypeOK
  <2>3. p \in Page /\ p.forms \subseteq {Later(t)} /\ p.script \subseteq {Later(t)}
    BY <1>3, <2>2 DEF Page
  <2> HIDE DEF p, h
  <2> QED BY <1>1, <1>2, <2>1, <2>3, AnswerStep DEF h
<1>6. CASE ReturnValue(t)
  <2> DEFINE p == [forms |-> {}, script |-> IF h = <<>> THEN {} ELSE {CookieSig(t)}]
  <2>1. kind[t] = "rpc" /\ Answer(t, "rpc", h, p) /\ UNCHANGED meant
    BY <1>6 DEF ReturnValue, Answer
  <2>2. /\ p \in Page /\ p.forms \subseteq {Later(t)} /\ p.script \subseteq {Later(t)}
        /\ p.script = {} => h = <<>>
    BY <1>3 DEF Page
  <2> HIDE DEF p, h
  <2> QED BY <1>1, <1>2, <2>1, <2>2, AnswerStep DEF h
<1>7. CASE ReturnIndirectly(t)
  <2>1. PICK what \in {"redirect", "blob"} : Answer(t, what, h, NoPage)
    BY <1>7 DEF ReturnIndirectly, OldHeaders
  <2>2. UNCHANGED meant
    BY <1>7 DEF ReturnIndirectly
  <2> HIDE DEF h
  <2> QED BY <1>1, <1>2, <2>1, <2>2, AnswerStep
<1>8. CASE Fail(t)
  <2>1. Answer(t, "error", <<>>, NoPage) /\ meant' = [meant EXCEPT ![t] = <<>>]
    BY <1>8 DEF Fail, Put
  <2>2. <<>> \in Seq(Line) /\ Once(<<>>)
    BY DEF Once
  <2> QED BY <1>1, <2>1, <2>2, AnswerStep
<1> QED BY <1>4, <1>5, <1>6, <1>7, <1>8, SigStep, RetryStep DEF Handle

-----------------------------------------------------------------------------
(* The browser gets an answer.                                              *)

\* What it does to the cookies is noticed by every tab.
LEMMA ReceiveIs ==
  ASSUME Inv, NEW t \in Tabs, Receive(t)
  PROVE  /\ jar' = Apply(jar, out[t]) /\ jar' \in Jar
         /\ header[t] = jar => jar' = Later(t)
         /\ out[t] = <<>> => jar' = jar
<1> USE DEF Inv
<1>1. PICK lines \in Seq(Line) : lines = out[t] /\ Once(lines)
  BY DEF TypeOK, OutInv
<1>2. PICK j \in Jar : j = jar
  BY DEF TypeOK
<1>3. jar' = Apply(j, lines)
  BY <1>1, <1>2 DEF Receive
<1>4. Apply(j, lines) \in Jar
  BY <1>1, ApplyIs
<1>5. Apply(j, <<>>) = j
  BY NoLines
<1> QED BY <1>1, <1>2, <1>3, <1>4, <1>5 DEF Later

LEMMA ReceiveStep == ASSUME Inv, NEW t \in Tabs, Receive(t) PROVE Inv'
<1> USE DEF Inv
<1>1. /\ pc[t] = "answer" /\ kind' = [kind EXCEPT ![t] = "page"]
      /\ header' = [header EXCEPT ![t] = NoCookies]
      /\ pc' = [pc EXCEPT ![t] = IF kind[t] \in {"redirect", "error"} THEN "blank" ELSE "page"]
      /\ ResetContext(t)
  BY DEF Receive, Put
<1>2. /\ out' = [out EXCEPT ![t] = <<>>] /\ page' = [page EXCEPT ![t] = NoPage]
      /\ usedSig' = [usedSig EXCEPT ![t] = FALSE] /\ needsResig' = [needsResig EXCEPT ![t] = FALSE]
      /\ meant' = [meant EXCEPT ![t] = <<>>]
      /\ NoPage \in Page /\ <<>> \in Seq(Line) /\ Once(<<>>)
  BY <1>1, ResetIs
<1>3. /\ jar' \in Jar
      /\ header[t] = jar => jar' = Later(t)
      /\ out[t] = <<>> => jar' = jar
  BY ReceiveIs
<1>4. PICK new \in Page :
        /\ shown' = [shown EXCEPT ![t] = new]
        /\ kind[t] = "page" => new = page[t]
        /\ kind[t] = "rpc" => /\ new.forms = shown[t].forms
                              /\ new.script = IF page[t].script = {} THEN shown[t].script
                                             ELSE page[t].script
        /\ kind[t] = "blob" => new = shown[t]
        /\ kind[t] \in {"redirect", "error"} => new = NoPage
  <2> DEFINE new == CASE kind[t] = "page" -> page[t]
                      [] kind[t] = "rpc" -> [shown[t] EXCEPT !.script =
                           IF page[t].script = {} THEN shown[t].script ELSE page[t].script]
                      [] kind[t] = "blob" -> shown[t]
                      [] OTHER -> NoPage
  <2>1. shown' = [shown EXCEPT ![t] = new]
    BY Zenon DEF Receive, Put
  <2>2. kind[t] \in {"page", "rpc", "redirect", "blob", "error"}
    BY DEF TypeOK
  <2>3. PICK p \in Page, q \in Page : p = page[t] /\ q = shown[t]
    BY DEF TypeOK
  <2>4. CASE kind[t] = "rpc"
    <3> DEFINE r == [q EXCEPT !.script = IF p.script = {} THEN q.script ELSE p.script]
    <3>1. new = r
      BY <2>3, <2>4
    <3>2. /\ r.forms = q.forms /\ r \in Page
          /\ r.script = IF p.script = {} THEN q.script ELSE p.script
      BY DEF Page
    <3> HIDE DEF r, new
    <3> QED BY <2>1, <2>3, <2>4, <3>1, <3>2
  <2>5. CASE kind[t] = "page"
    BY <2>1, <2>3, <2>5
  <2>6. CASE kind[t] = "blob"
    BY <2>1, <2>3, <2>6
  <2>7. CASE kind[t] \in {"redirect", "error"}
    BY <1>2, <2>1, <2>7
  <2> QED BY <2>2, <2>4, <2>5, <2>6, <2>7
<1>5. /\ changed' \in [Tabs -> {"no", "rpc", "other"}] /\ meanwhile' \in [Tabs -> {"no", "other"}]
      /\ \A u \in Tabs : u # t =>
           /\ changed'[u] = IF pc[u] = "blank" THEN "no" ELSE IF jar' = jar THEN changed[u] ELSE "other"
           /\ meanwhile'[u] = IF pc[u] \in {"blank", "page"} THEN "no"
                              ELSE IF jar' = jar THEN meanwhile[u] ELSE "other"
      /\ kind[t] = "page" => changed'[t] = meanwhile[t]
      /\ kind[t] = "rpc" => changed'[t] = IF jar' = jar THEN changed[t] ELSE Worse(changed[t], "rpc")
      /\ kind[t] = "blob" => changed'[t] = IF jar' = jar THEN changed[t] ELSE "other"
  <2> DEFINE by(u, c) == IF jar' = jar THEN c
                         ELSE IF u = t /\ kind[t] = "rpc" THEN Worse(c, "rpc") ELSE "other"
             now(u) == IF pc'[u] = "blank" THEN "no"
                       ELSE IF u = t /\ kind[t] = "page" THEN meanwhile[t] ELSE by(u, changed[u])
             then(u) == IF pc'[u] \in {"blank", "page"} THEN "no" ELSE by(u, meanwhile[u])
  <2>1. changed' = [u \in Tabs |-> now(u)] /\ meanwhile' = [u \in Tabs |-> then(u)]
    BY DEF Receive
  <2>2. /\ \A u \in Tabs : u # t => pc'[u] = pc[u]
        /\ pc'[t] \in {"blank", "page"}
        /\ kind[t] \notin {"redirect", "error"} => pc'[t] = "page"
    BY <1>1 DEF TypeOK
  <2>3. \A u \in Tabs : /\ now(u) \in {"no", "rpc", "other"}
                        /\ then(u) \in {"no", "other"}
    BY <2>2 DEF Worse, TypeOK
  <2>4. \A u \in Tabs : u # t =>
          /\ now(u) = IF pc[u] = "blank" THEN "no" ELSE IF jar' = jar THEN changed[u] ELSE "other"
          /\ then(u) = IF pc[u] \in {"blank", "page"} THEN "no"
                       ELSE IF jar' = jar THEN meanwhile[u] ELSE "other"
    BY <2>2
  <2>5. /\ kind[t] = "page" => now(t) = meanwhile[t]
        /\ kind[t] = "rpc" => now(t) = IF jar' = jar THEN changed[t] ELSE Worse(changed[t], "rpc")
        /\ kind[t] = "blob" => now(t) = IF jar' = jar THEN changed[t] ELSE "other"
    BY <2>2
  <2> HIDE DEF now, then
  <2>6. \A u \in Tabs : changed'[u] = now(u) /\ meanwhile'[u] = then(u)
    BY <2>1
  <2>7. changed' \in [Tabs -> {"no", "rpc", "other"}] /\ meanwhile' \in [Tabs -> {"no", "other"}]
    BY <2>1, <2>3
  <2> QED BY <2>4, <2>5, <2>6, <2>7
<1>6. TypeOK'
  <2>1. NoCookies \in Jar
    BY DEF NoCookies, Jar
  <2>2. /\ pc' \in [Tabs -> {"blank", "handler", "answer", "page"}]
        /\ kind' \in [Tabs -> {"page", "rpc", "redirect", "blob", "error"}]
        /\ header' \in [Tabs -> Jar]
    BY <1>1, <2>1 DEF TypeOK
  <2>3. /\ out' \in [Tabs -> Seq(Line)] /\ page' \in [Tabs -> Page] /\ meant' \in [Tabs -> Seq(Line)]
        /\ shown' \in [Tabs -> Page]
    BY <1>2, <1>4 DEF TypeOK
  <2>4. usedSig' \in [Tabs -> BOOLEAN] /\ needsResig' \in [Tabs -> BOOLEAN]
    BY <1>2 DEF TypeOK
  <2>5. jar' \in Jar
    BY <1>3
  <2>6. changed' \in [Tabs -> {"no", "rpc", "other"}] /\ meanwhile' \in [Tabs -> {"no", "other"}]
    BY <1>5
  <2> QED BY <2>2, <2>3, <2>4, <2>5, <2>6 DEF TypeOK
<1>7. OutInv'
  BY <1>2 DEF OutInv, Once, TypeOK
<1>8. \A u \in Tabs : u # t => /\ pc'[u] = pc[u] /\ kind'[u] = kind[u] /\ page'[u] = page[u]
                               /\ header'[u] = header[u] /\ out'[u] = out[u] /\ shown'[u] = shown[u]
                               /\ usedSig'[u] = usedSig[u] /\ needsResig'[u] = needsResig[u]
  BY <1>1, <1>2, <1>4 DEF TypeOK
<1>9. pc'[t] \in {"blank", "page"} /\ shown'[t] = new
  BY <1>1, <1>4 DEF TypeOK
<1>10. HandlerInv' /\ AnswerInv'
  BY <1>8, <1>9 DEF HandlerInv, AnswerInv, Later
<1>11. HeaderInv'
  BY <1>5, <1>8, <1>9 DEF HeaderInv
<1>12. ShownInv'
  <2>1. ASSUME NEW u \in Tabs, u # t
        PROVE  /\ pc'[u] = "blank" => shown'[u] = NoPage
               /\ changed'[u] = "no" => shown'[u].forms \subseteq {jar'}
               /\ changed'[u] # "other" => shown'[u].script \subseteq {jar'}
    BY <1>5, <1>8, <2>1 DEF ShownInv, NoPage
  <2>2. /\ pc'[t] = "blank" => new = NoPage
        /\ changed'[t] = "no" => new.forms \subseteq {jar'}
        /\ changed'[t] # "other" => new.script \subseteq {jar'}
    <3>1. kind[t] \in {"page", "rpc", "redirect", "blob", "error"}
      BY DEF TypeOK
    <3>2. /\ header[t] = jar => page[t].forms \subseteq {jar'} /\ page[t].script \subseteq {jar'}
          /\ kind[t] = "rpc" /\ page[t].script = {} => jar' = jar
      <4>1. /\ page[t].forms \subseteq {Later(t)} /\ page[t].script \subseteq {Later(t)}
            /\ kind[t] = "rpc" /\ page[t].script = {} => out[t] = <<>>
        BY <1>1 DEF AnswerInv
      <4>2. header[t] = jar => jar' = Later(t)
        BY <1>3
      <4>3. kind[t] = "rpc" /\ page[t].script = {} => jar' = jar
        BY <1>3, <4>1
      <4> QED BY <4>1, <4>2, <4>3
    <3>3. /\ meanwhile[t] = "no" => header[t] = jar
          /\ kind[t] = "rpc" /\ changed[t] # "other" => header[t] = jar
      BY <1>1 DEF HeaderInv
    <3>4. /\ changed[t] = "no" => shown[t].forms \subseteq {jar}
          /\ changed[t] # "other" => shown[t].script \subseteq {jar}
      BY DEF ShownInv
    <3>5. changed[t] \in {"no", "rpc", "other"} /\ meanwhile[t] \in {"no", "other"}
      BY DEF TypeOK
    <3>6. pc'[t] = "blank" => kind[t] \in {"redirect", "error"}
      BY <1>1 DEF TypeOK
    <3>7. CASE kind[t] = "page"
      <4>1. new = page[t] /\ changed'[t] = meanwhile[t]
        BY <1>4, <1>5, <3>7
      <4> QED BY <3>2, <3>3, <3>5, <3>6, <3>7, <4>1
    <3>8. CASE kind[t] = "rpc"
      <4>1. /\ new.forms = shown[t].forms
            /\ new.script = IF page[t].script = {} THEN shown[t].script ELSE page[t].script
        BY <1>4, <3>8
      <4>3. changed'[t] # "other" => changed[t] # "other"
        BY <1>5, <3>5, <3>8 DEF Worse
      <4>4. changed'[t] = "no" => changed[t] = "no" /\ jar' = jar
        BY <1>5, <3>5, <3>8 DEF Worse
      <4>5. changed'[t] # "other" => new.script \subseteq {jar'}
        BY <3>2, <3>3, <3>4, <3>8, <4>1, <4>3
      <4>6. changed'[t] = "no" => new.forms \subseteq {jar'}
        BY <3>4, <4>1, <4>4
      <4> QED BY <3>6, <3>8, <4>5, <4>6
    <3>9. CASE kind[t] = "blob"
      BY <1>3, <1>4, <1>5, <3>4, <3>5, <3>6, <3>9
    <3>10. CASE kind[t] \in {"redirect", "error"}
      BY <1>4, <3>10 DEF NoPage
    <3> QED BY <3>1, <3>7, <3>8, <3>9, <3>10
  <2> QED BY <1>9, <2>1, <2>2 DEF ShownInv
<1> QED BY <1>6, <1>7, <1>10, <1>11, <1>12

-----------------------------------------------------------------------------
(* The theorems.                                                            *)

LEMMA InvAlways == ASSUME SetsOnce, NamesApart PROVE CookiesSpec => []Inv
<1>1. CookiesInit => Inv
  <2> SUFFICES ASSUME CookiesInit PROVE Inv
    OBVIOUS
  <2>1. NoCookies \in Jar /\ NoPage \in Page /\ <<>> \in Seq(Line) /\ Once(<<>>)
    BY DEF NoCookies, Jar, NoPage, Page, Once
  <2>2. TypeOK
    BY <2>1 DEF CookiesInit, TypeOK
  <2>3. OutInv /\ HandlerInv /\ AnswerInv /\ HeaderInv /\ ShownInv
    BY <2>1 DEF CookiesInit, OutInv, HandlerInv, AnswerInv, HeaderInv, ShownInv, NoPage
  <2> QED BY <2>2, <2>3 DEF Inv
<1>2. Inv /\ [CookiesNext]_cookieVars => Inv'
  <2> SUFFICES ASSUME Inv, [CookiesNext]_cookieVars PROVE Inv'
    OBVIOUS
  <2>1. ASSUME NEW t \in Tabs, Ask(t) \/ SubmitForm(t) \/ Rpc(t) PROVE Inv'
    BY <2>1, BeginStep, RefuseStep DEF Ask, SubmitForm, Rpc, Checked
  <2>2. CASE UNCHANGED cookieVars
    BY <2>2 DEF cookieVars, context, Inv, TypeOK, OutInv, HandlerInv, AnswerInv, HeaderInv, ShownInv, Later
  <2> QED BY <2>1, <2>2, HandleStep, ReceiveStep DEF CookiesNext
<1> QED BY <1>1, <1>2, PTL DEF CookiesSpec

(* A page carries signatures of the browser's cookies, whatever is set, cleared, retried,   *)
(* thrown away or answered on the way, unless cookies were changed behind its back: when no *)
(* name is the beginning of another, for which uw_Basis_get_cookie would take it, and a     *)
(* handler sets a cookie once.                                                              *)
THEOREM PagesAreSigned == ASSUME SetsOnce, NamesApart PROVE CookiesSpec => []SignedForTheJar
<1>1. Inv => SignedForTheJar
  BY DEF Inv, ShownInv, SignedForTheJar
<1> QED BY <1>1, InvAlways, PTL

\* The headers are those of the attempt, for all names and handlers.
OwnLines == meant \in [Tabs -> Seq(Line)] /\ out = meant

LEMMA OwnLinesAlways == CookiesSpec => []OwnLines
<1>1. CookiesInit => OwnLines
  <2> SUFFICES ASSUME CookiesInit PROVE OwnLines
    OBVIOUS
  <2>1. <<>> \in Seq(Line)
    OBVIOUS
  <2> QED BY <2>1 DEF CookiesInit, OwnLines
<1>2. OwnLines /\ [CookiesNext]_cookieVars => OwnLines'
  <2> SUFFICES ASSUME OwnLines, [CookiesNext]_cookieVars PROVE OwnLines'
    OBVIOUS
  <2>1. ASSUME NEW t \in Tabs, ResetContext(t) PROVE OwnLines'
    <3>1. <<>> \in Seq(Line)
      OBVIOUS
    <3> QED BY <2>1, <3>1 DEF ResetContext, ResetHeaders, Put, OwnLines
  <2>2. ASSUME UNCHANGED <<out, meant>> PROVE OwnLines'
    BY <2>2 DEF OwnLines
  <2>3. ASSUME NEW t \in Tabs, Ask(t) \/ SubmitForm(t) \/ Rpc(t) PROVE OwnLines'
    BY <2>1, <2>2, <2>3 DEF Ask, SubmitForm, Rpc, Checked, Begin, WrongSignature, context
  <2>4. ASSUME NEW t \in Tabs, NEW n \in CookieNames, NEW v \in CookieValues \cup {NoCookie}, SetCookie(t, n, v)
        PROVE  OwnLines'
    <3>1. [name |-> n, value |-> v] \in Line
      BY DEF Line
    <3>2. PICK lines \in Seq(Line) : lines = out[t] /\ lines = meant[t]
      BY DEF OwnLines
    <3>3. Append(lines, [name |-> n, value |-> v]) \in Seq(Line)
      BY <3>1
    <3> QED BY <2>4, <3>2, <3>3 DEF SetCookie, Put, OwnLines
  <2>5. ASSUME NEW t \in Tabs, NEW what, NEW p, Answer(t, what, out[t], p), UNCHANGED meant PROVE OwnLines'
    BY <2>5 DEF Answer, Put, OwnLines
  <2>6. ASSUME NEW t \in Tabs, Fail(t) PROVE OwnLines'
    <3>1. <<>> \in Seq(Line)
      OBVIOUS
    <3> QED BY <2>6, <3>1 DEF Fail, Answer, Put, OwnLines
  <2>7. ASSUME NEW t \in Tabs, Handle(t) PROVE OwnLines'
    <3>1. CASE \E n \in CookieNames : ClearCookie(t, n) \/ \E v \in CookieValues : SetCookie(t, n, v)
      BY <2>4, <3>1 DEF ClearCookie
    <3>2. CASE SigString(t)
      BY <2>2, <3>2 DEF SigString
    <3>3. CASE RetryHandler(t)
      BY <2>1, <3>3 DEF RetryHandler
    <3>4. CASE ReturnPage(t) \/ ReturnValue(t) \/ ReturnIndirectly(t)
      BY <2>5, <3>4 DEF ReturnPage, ReturnValue, ReturnIndirectly, OldHeaders
    <3> QED BY <2>6, <2>7, <3>1, <3>2, <3>3, <3>4 DEF Handle
  <2>8. ASSUME NEW t \in Tabs, Receive(t) PROVE OwnLines'
    BY <2>1, <2>8 DEF Receive
  <2>9. CASE UNCHANGED cookieVars
    BY <2>2, <2>9 DEF cookieVars, context
  <2> QED BY <2>3, <2>7, <2>8, <2>9 DEF CookiesNext
<1> QED BY <1>1, <1>2, PTL DEF CookiesSpec

(* The headers of an answer are those its own attempt has written: none is lost, also when  *)
(* the page is thrown away, and none is left of an attempt that was given up.  For all      *)
(* names, and however often a handler sets them.                                            *)
THEOREM AnswersSetTheirCookies == CookiesSpec => CookiesOfTheAnswer
<1> DEFINE A == \A t \in Tabs : Receive(t) => jar' = Apply(jar, meant[t])
<1>1. OwnLines /\ [CookiesNext]_cookieVars => [A]_cookieVars
  BY DEF OwnLines, Receive
<1>2. [][A]_cookieVars => CookiesOfTheAnswer
  BY DEF CookiesOfTheAnswer
<1> HIDE DEF A
<1> QED BY <1>1, <1>2, OwnLinesAlways, PTL DEF CookiesSpec

-----------------------------------------------------------------------------
(* The cells of a form: the invariant.                                      *)

\* Pointers, cells and the part of uw_context that holds them.
Ptr     == [block : Nat, i : Nat]
CellT   == [kind : {"UNSET", "NORMAL", "FIL", "SUBFORM", "SUBFORMS", "ENTRY"},
            val : Values \cup {None}, ptr : Ptr, next : Ptr, parent : Ptr]
Context == [inputs : [Names -> CellT], subinputs : Seq(CellT), block : Nat \ {0}, cur_container : Ptr]

\* A pointer leads to a cell; to a record of fields; to an entry of a list.
Leads(c, p) ==
  \/ p.block = 0 /\ p.i \in Names
  \/ p.block = c.block /\ p.i \in 1..Len(c.subinputs)
Somewhere(c, p)   == p = NULL \/ Leads(c, p)
HoldsRecord(c, p) == p.block = c.block /\ p.i >= 1 /\ p.i + Fields <= Len(c.subinputs) + 1
IsEntry(c, p)     == p = NULL \/ (/\ p.block = c.block /\ p.i \in 1..Len(c.subinputs)
                                  /\ Fitting => c.subinputs[p.i].kind = "ENTRY")

\* The pointers of a cell that its kind says may be followed; a cell without one is in no list
\* of containers that were entered.
CellOk(c, x) ==
  /\ x.kind \in {"SUBFORM", "ENTRY"} => HoldsRecord(c, x.ptr)
  /\ x.kind = "SUBFORMS" => IsEntry(c, x.ptr)
  /\ x.kind = "ENTRY" => IsEntry(c, x.next)
  /\ x.kind \in {"UNSET", "NORMAL", "FIL"} => x.parent = NULL
  /\ Somewhere(c, x.parent)

\* Every cell of a request is in order, and so is the place it is at.
Ok(c) ==
  /\ c \in Context /\ Somewhere(c, c.cur_container)
  /\ \A n \in Names : CellOk(c, c.inputs[n])
  /\ \A i \in 1..Len(c.subinputs) : CellOk(c, c.subinputs[i])

-----------------------------------------------------------------------------
(* Reading and writing cells.                                               *)

\* Where a pointer leads there is a cell.
LEMMA AtCell ==
  ASSUME NEW c, Ok(c), NEW p \in Ptr, Leads(c, p)
  PROVE  At(c, p) \in CellT /\ CellOk(c, At(c, p)) /\ At(c, p) # Wild
<1> DEFINE x == At(c, p)
<1>1. c.inputs \in [Names -> CellT] /\ c.subinputs \in Seq(CellT) /\ c.block \in Nat \ {0}
  BY DEF Ok, Context
<1>2. CASE p.block = 0 /\ p.i \in Names
  <2>1. x = c.inputs[p.i]
    BY <1>1, <1>2 DEF At
  <2>2. x \in CellT /\ CellOk(c, x)
    BY <1>1, <1>2, <2>1 DEF Ok
  <2> QED BY <2>2 DEF CellT, Wild, Cell
<1>3. CASE p.block = c.block /\ p.i \in 1..Len(c.subinputs)
  <2>1. p.i \in DOMAIN c.subinputs /\ p.block # 0
    BY <1>1, <1>3
  <2>2. x = c.subinputs[p.i]
    BY <1>3, <2>1 DEF At
  <2>3. x \in CellT /\ CellOk(c, x)
    BY <1>1, <1>3, <2>2 DEF Ok
  <2> QED BY <2>3 DEF CellT, Wild, Cell
<1> QED BY <1>2, <1>3 DEF Leads

LEMMA NullPtr == NULL \in Ptr
BY DEF NULL, Ptr

\* The field of a record.
LEMMA FieldLeads ==
  ASSUME NEW c, Ok(c), NEW p \in Ptr, HoldsRecord(c, p), NEW n \in Names
  PROVE  Field(p, n) \in Ptr /\ Leads(c, Field(p, n))
<1>1. c.subinputs \in Seq(CellT) /\ Len(c.subinputs) \in Nat /\ Fields \in Nat
  BY InputsAssumption DEF Ok, Context
<1>2. p.i \in Nat /\ n \in Nat /\ 1 <= n /\ n <= Fields
  BY <1>1 DEF Ptr, Names
<1>3. Field(p, n) = [block |-> p.block, i |-> p.i + n - 1]
  BY DEF Field, Ptr
<1> QED BY <1>1, <1>2, <1>3 DEF Ptr, Leads, HoldsRecord

LEMMA InpLeads ==
  ASSUME NEW c, Ok(c), IsRecord(c), NEW n \in Names
  PROVE  INP(c, n) \in Ptr /\ Leads(c, INP(c, n))
<1>1. n \in Nat /\ 1 <= n
  BY InputsAssumption DEF Names
<1>2. CASE c.cur_container = NULL
  <2>1. INP(c, n) = [block |-> 0, i |-> n]
    BY <1>1, <1>2 DEF INP, Field
  <2> QED BY <1>1, <2>1 DEF Ptr, Leads
<1>3. CASE c.cur_container # NULL
  <2>1. c.cur_container \in Ptr /\ Leads(c, c.cur_container)
    BY <1>3 DEF Ok, Context, Somewhere
  <2>2. Here(c) \in CellT /\ CellOk(c, Here(c))
    BY <2>1, AtCell DEF Here
  <2>3. Here(c).ptr \in Ptr /\ HoldsRecord(c, Here(c).ptr)
    BY <1>3, <2>2 DEF CellT, CellOk, IsRecord
  <2>4. INP(c, n) = Field(Here(c).ptr, n)
    BY <1>3 DEF INP
  <2> QED BY <2>3, <2>4, FieldLeads
<1> QED BY <1>2, <1>3

\* Writing a cell: in a form that fits an entry stays one.
LEMMA SetOk ==
  ASSUME NEW c, Ok(c), NEW p \in Ptr, Leads(c, p), NEW x \in CellT, CellOk(c, x),
         Fitting /\ At(c, p).kind = "ENTRY" => x.kind = "ENTRY"
  PROVE  LET d == Set(c, p, x)
         IN /\ Ok(d) /\ d.cur_container = c.cur_container /\ d.block = c.block
            /\ Len(d.subinputs) = Len(c.subinputs) /\ At(d, p) = x
            /\ \A q \in Ptr : Leads(c, q) => Leads(d, q)
            /\ \A q \in Ptr : Leads(c, q) /\ q # p => At(d, q) = At(c, q)
            /\ \A q \in Ptr : IsEntry(c, q) => IsEntry(d, q)
<1> DEFINE d == Set(c, p, x)
<1>1. c \in Context /\ c.inputs \in [Names -> CellT] /\ c.subinputs \in Seq(CellT) /\ c.block \in Nat \ {0}
  BY DEF Ok, Context
<1>2. p.block \in Nat /\ p.i \in Nat /\ p = [block |-> p.block, i |-> p.i]
  BY DEF Ptr
<1>3. /\ d \in Context /\ d.cur_container = c.cur_container /\ d.block = c.block
      /\ Len(d.subinputs) = Len(c.subinputs)
      /\ \A n \in Names : d.inputs[n] = IF p.block = 0 /\ n = p.i THEN x ELSE c.inputs[n]
      /\ \A i \in 1..Len(c.subinputs) :
           d.subinputs[i] = IF p.block # 0 /\ i = p.i THEN x ELSE c.subinputs[i]
  <2>1. CASE p.block = 0
    <3>1. d = [c EXCEPT !.inputs[p.i] = x]
      BY <2>1 DEF Set
    <3>2. p.i \in Names
      BY <1>1, <2>1 DEF Leads
    <3>3. [c.inputs EXCEPT ![p.i] = x] \in [Names -> CellT]
      BY <1>1
    <3>4. d \in Context /\ d.inputs = [c.inputs EXCEPT ![p.i] = x] /\ d.subinputs = c.subinputs
          /\ d.cur_container = c.cur_container /\ d.block = c.block
      BY <1>1, <3>1, <3>3 DEF Context
    <3> QED BY <1>1, <2>1, <3>2, <3>4
  <2>2. CASE p.block # 0
    <3>1. d = [c EXCEPT !.subinputs[p.i] = x]
      BY <2>2 DEF Set
    <3>2. p.i \in 1..Len(c.subinputs)
      BY <1>1, <2>2 DEF Leads
    <3>3. /\ [c.subinputs EXCEPT ![p.i] = x] \in Seq(CellT)
          /\ Len([c.subinputs EXCEPT ![p.i] = x]) = Len(c.subinputs)
      BY <1>1, <3>2
    <3>4. d \in Context /\ d.subinputs = [c.subinputs EXCEPT ![p.i] = x] /\ d.inputs = c.inputs
          /\ d.cur_container = c.cur_container /\ d.block = c.block
      BY <1>1, <3>1, <3>3 DEF Context
    <3> QED BY <1>1, <2>2, <3>2, <3>3, <3>4
  <2> QED BY <2>1, <2>2
<1>4. \A q : Leads(c, q) => Leads(d, q)
  BY <1>3 DEF Leads
<1>5. \A q : HoldsRecord(c, q) => HoldsRecord(d, q)
  BY <1>3 DEF HoldsRecord
<1>6. \A q \in Ptr : IsEntry(c, q) => IsEntry(d, q)
  <2> SUFFICES ASSUME NEW q \in Ptr, IsEntry(c, q), q # NULL PROVE IsEntry(d, q)
    BY DEF IsEntry
  <2>1. q.block = c.block /\ q.i \in 1..Len(c.subinputs) /\ (Fitting => c.subinputs[q.i].kind = "ENTRY")
    BY DEF IsEntry
  <2>2. CASE p.block # 0 /\ q.i = p.i
    <3>1. p.block = c.block /\ p.i \in DOMAIN c.subinputs
      BY <1>1, <2>1, <2>2 DEF Leads
    <3>2. At(c, p) = c.subinputs[p.i]
      BY <2>2, <3>1 DEF At
    <3> QED BY <1>3, <2>1, <2>2, <3>2 DEF IsEntry
  <2>3. CASE ~(p.block # 0 /\ q.i = p.i)
    BY <1>3, <2>1, <2>3 DEF IsEntry
  <2> QED BY <2>2, <2>3
<1>7. \A y \in CellT : CellOk(c, y) => CellOk(d, y)
  BY <1>4, <1>5, <1>6 DEF CellOk, CellT, Somewhere
<1>8. Ok(d)
  <2>1. Somewhere(d, d.cur_container)
    BY <1>3, <1>4 DEF Ok, Somewhere
  <2>2. \A n \in Names : CellOk(d, d.inputs[n])
    BY <1>1, <1>3, <1>7 DEF Ok
  <2>3. \A i \in 1..Len(d.subinputs) : CellOk(d, d.subinputs[i])
    BY <1>1, <1>3, <1>7 DEF Ok
  <2> QED BY <1>3, <2>1, <2>2, <2>3 DEF Ok
<1>9. /\ d.subinputs \in Seq(CellT) /\ DOMAIN d.subinputs = DOMAIN c.subinputs
      /\ DOMAIN c.subinputs = 1..Len(c.subinputs)
  BY <1>1, <1>3 DEF Context
<1>10. At(d, p) = x
  BY <1>1, <1>2, <1>3, <1>9 DEF At, Leads
<1>11. ASSUME NEW q \in Ptr, Leads(c, q), q # p PROVE At(d, q) = At(c, q)
  <2>1. q = [block |-> q.block, i |-> q.i] /\ q.block \in Nat /\ q.i \in Nat
    BY DEF Ptr
  <2>2. q.block # p.block \/ q.i # p.i
    BY <1>2, <1>11, <2>1
  <2> QED BY <1>1, <1>2, <1>3, <1>9, <1>11, <2>2 DEF At, Leads
<1> QED BY <1>3, <1>4, <1>6, <1>8, <1>10, <1>11

LEMMA PlaceOk ==
  ASSUME NEW c, Ok(c), NEW p \in Ptr, Somewhere(c, p)
  PROVE  LET d == [c EXCEPT !.cur_container = p] IN Ok(d) /\ d.cur_container = p
<1> DEFINE d == [c EXCEPT !.cur_container = p]
<1>1. d \in Context /\ d.inputs = c.inputs /\ d.subinputs = c.subinputs /\ d.block = c.block
      /\ d.cur_container = p
  BY DEF Ok, Context
<1>2. \A q : Somewhere(c, q) <=> Somewhere(d, q)
  BY <1>1 DEF Somewhere, Leads
<1>3. \A q : HoldsRecord(c, q) <=> HoldsRecord(d, q)
  BY <1>1 DEF HoldsRecord
<1>4. \A q : IsEntry(c, q) <=> IsEntry(d, q)
  BY <1>1 DEF IsEntry
<1>5. \A x : CellOk(c, x) <=> CellOk(d, x)
  BY <1>2, <1>3, <1>4 DEF CellOk
<1> QED BY <1>1, <1>2, <1>5 DEF Ok

-----------------------------------------------------------------------------
(* The block grows, and moves.                                              *)

LEMMA GrowOk ==
  ASSUME NEW c, Ok(c), NEW len \in Nat
  PROVE  LET d == Grow(c, len)
         IN /\ Ok(d) /\ d.cur_container = c.cur_container /\ d.block = c.block
            /\ Len(d.subinputs) = Len(c.subinputs) + len
            /\ \A q \in Ptr : Leads(c, q) => Leads(d, q) /\ At(d, q) = At(c, q)
            /\ \A i \in Len(c.subinputs) + 1 .. Len(c.subinputs) + len : d.subinputs[i] = Unset
<1> DEFINE d == Grow(c, len)  more == [i \in 1..len |-> Unset]
<1>1. c \in Context /\ c.inputs \in [Names -> CellT] /\ c.subinputs \in Seq(CellT) /\ c.block \in Nat \ {0}
  BY DEF Ok, Context
<1>2. Unset \in CellT
  BY NullPtr DEF Unset, Cell, CellT
<1>3. more \in Seq(CellT) /\ Len(more) = len
  BY <1>2
<1>4. /\ c.subinputs \o more \in Seq(CellT) /\ Len(c.subinputs \o more) = Len(c.subinputs) + len
      /\ \A i \in 1..Len(c.subinputs) : (c.subinputs \o more)[i] = c.subinputs[i]
      /\ \A i \in Len(c.subinputs) + 1 .. Len(c.subinputs) + len : (c.subinputs \o more)[i] = Unset
  <2>1. \A i \in 1..Len(c.subinputs) : (c.subinputs \o more)[i] = c.subinputs[i]
    BY <1>1, <1>3
  <2>2. \A i \in Len(c.subinputs) + 1 .. Len(c.subinputs) + len :
          (c.subinputs \o more)[i] = more[i - Len(c.subinputs)] /\ i - Len(c.subinputs) \in 1..len
    BY <1>1, <1>3
  <2> HIDE DEF more
  <2>3. \A s, t \in Seq(CellT) : s \o t \in Seq(CellT) /\ Len(s \o t) = Len(s) + Len(t)
    OBVIOUS
  <2>4. c.subinputs \o more \in Seq(CellT) /\ Len(c.subinputs \o more) = Len(c.subinputs) + len
    BY <1>1, <1>3, <2>3
  <2> QED BY <2>1, <2>2, <2>4 DEF more
<1> HIDE DEF more
<1>5. d = [c EXCEPT !.subinputs = c.subinputs \o more]
  BY DEF Grow, more
<1>6. /\ d \in Context /\ d.inputs = c.inputs /\ d.subinputs = c.subinputs \o more /\ d.block = c.block
      /\ d.cur_container = c.cur_container
  BY <1>1, <1>4, <1>5 DEF Context
<1> HIDE DEF d
<1>7. Len(c.subinputs) \in Nat /\ Len(d.subinputs) = Len(c.subinputs) + len
      /\ \A i \in 1..Len(c.subinputs) : i \in 1..Len(d.subinputs) /\ d.subinputs[i] = c.subinputs[i]
  BY <1>1, <1>4, <1>6
<1>8. \A q : Leads(c, q) => Leads(d, q)
  BY <1>6, <1>7 DEF Leads
<1>9. \A q \in Ptr : HoldsRecord(c, q) => HoldsRecord(d, q)
  BY <1>6, <1>7, InputsAssumption DEF HoldsRecord, Ptr
<1>10. \A q : IsEntry(c, q) => IsEntry(d, q)
  BY <1>6, <1>7 DEF IsEntry
<1>11. \A x \in CellT : CellOk(c, x) => CellOk(d, x)
  BY <1>8, <1>9, <1>10 DEF CellOk, CellT, Somewhere
<1>12. CellOk(d, Unset)
  BY DEF CellOk, Unset, Cell, Somewhere
<1>13. \A i \in 1..Len(d.subinputs) : CellOk(d, d.subinputs[i])
  <2> TAKE i \in 1..Len(d.subinputs)
  <2>1. CASE i \in 1..Len(c.subinputs)
    BY <1>1, <1>7, <1>11, <2>1 DEF Ok
  <2>2. CASE i \in Len(c.subinputs) + 1 .. Len(c.subinputs) + len
    BY <1>4, <1>6, <1>12, <2>2
  <2> QED BY <1>7, <2>1, <2>2
<1>14. Ok(d)
  BY <1>1, <1>6, <1>8, <1>11, <1>13 DEF Ok, Somewhere
<1>15. ASSUME NEW q \in Ptr, Leads(c, q) PROVE At(d, q) = At(c, q)
  <2>1. DOMAIN c.subinputs = 1..Len(c.subinputs) /\ DOMAIN d.subinputs = 1..Len(d.subinputs)
    BY <1>1, <1>4, <1>6
  <2> QED BY <1>1, <1>6, <1>7, <1>15, <2>1 DEF At, Leads
<1> QED BY <1>4, <1>6, <1>7, <1>8, <1>14, <1>15 DEF d

\* What realloc does to a pointer, and to the pointers of a cell.
LEMMA AdjustPointerIs ==
  ASSUME NEW b \in Nat \ {0}, NEW used \in Nat, NEW p \in Ptr
  PROVE  LET q == AdjustPointer(p, b, b + 1, used)
         IN /\ q \in Ptr /\ q.i = p.i
            /\ p.block = b /\ p.i \in 1..used => q.block = b + 1
            /\ ~(p.block = b /\ p.i \in 1..used) => q = p
BY DEF AdjustPointer, Ptr

LEMMA AdjustInputIs ==
  ASSUME NEW b \in Nat \ {0}, NEW used \in Nat, NEW x \in CellT
  PROVE  LET y == AdjustInput(x, b, b + 1, used)
             Ap(p) == AdjustPointer(p, b, b + 1, used)
         IN /\ y \in CellT /\ y.kind = x.kind /\ y.val = x.val
            /\ x.kind \in {"UNSET", "NORMAL", "FIL"} => y = x
            /\ x.kind \in {"SUBFORM", "SUBFORMS", "ENTRY"} => y.ptr = Ap(x.ptr) /\ y.parent = Ap(x.parent)
            /\ x.kind = "ENTRY" => y.next = Ap(x.next)
<1> DEFINE new == b + 1  Ap(p) == AdjustPointer(p, b, new, used)  Ai(z) == AdjustInput(z, b, new, used)
<1> SUFFICES /\ Ai(x) \in CellT /\ Ai(x).kind = x.kind /\ Ai(x).val = x.val
             /\ x.kind \in {"UNSET", "NORMAL", "FIL"} => Ai(x) = x
             /\ x.kind \in {"SUBFORM", "SUBFORMS", "ENTRY"} => Ai(x).ptr = Ap(x.ptr) /\ Ai(x).parent = Ap(x.parent)
             /\ x.kind = "ENTRY" => Ai(x).next = Ap(x.next)
  OBVIOUS
<1> HIDE DEF Ap
<1>1. Ap(x.ptr) \in Ptr /\ Ap(x.parent) \in Ptr /\ Ap(x.next) \in Ptr
  BY AdjustPointerIs DEF CellT, Ap
<1>2. CASE x.kind \in {"SUBFORM", "SUBFORMS"}
  <2>1. Ai(x) = [x EXCEPT !.ptr = Ap(x.ptr), !.parent = Ap(x.parent)]
    BY <1>2 DEF AdjustInput, Ap
  <2> HIDE DEF Ai
  <2> QED BY <1>1, <1>2, <2>1 DEF CellT
<1>3. CASE x.kind = "ENTRY"
  <2>1. Ai(x) = [x EXCEPT !.ptr = Ap(x.ptr), !.parent = Ap(x.parent), !.next = Ap(x.next)]
    BY <1>3 DEF AdjustInput, Ap
  <2> HIDE DEF Ai
  <2> QED BY <1>1, <1>3, <2>1 DEF CellT
<1>4. CASE x.kind \in {"UNSET", "NORMAL", "FIL"}
  <2>1. Ai(x) = x
    BY <1>4 DEF AdjustInput
  <2> HIDE DEF Ai
  <2> QED BY <1>4, <2>1
<1> QED BY <1>2, <1>3, <1>4 DEF CellT

\* A pointer into the old block follows it.
LEMMA MovedOk ==
  ASSUME NEW c, Ok(c)
  PROVE  LET d == Moved(c)
         IN /\ Ok(d) /\ Len(d.subinputs) = Len(c.subinputs) /\ d.block = c.block + 1
            /\ c.cur_container = NULL <=> d.cur_container = NULL
            /\ \A q \in Ptr : Leads(c, q) =>
                 \E r \in Ptr :
                   /\ r = AdjustPointer(q, c.block, c.block + 1, Len(c.subinputs)) /\ Leads(d, r)
                   /\ At(d, r) = AdjustInput(At(c, q), c.block, c.block + 1, Len(c.subinputs))
            /\ d.cur_container = AdjustPointer(c.cur_container, c.block, c.block + 1, Len(c.subinputs))
<1> DEFINE d == Moved(c)  used == Len(c.subinputs)  new == c.block + 1
           Ap(p) == AdjustPointer(p, c.block, new, used)
           Ai(x) == AdjustInput(x, c.block, new, used)
<1>1. c \in Context /\ c.inputs \in [Names -> CellT] /\ c.subinputs \in Seq(CellT) /\ c.block \in Nat \ {0}
      /\ c.cur_container \in Ptr /\ used \in Nat /\ new \in Nat \ {0} /\ new # c.block
  BY DEF Ok, Context
<1>2. \A p \in Ptr : /\ Ap(p) \in Ptr /\ Ap(p).i = p.i
                     /\ p.block = c.block /\ p.i \in 1..used => Ap(p).block = new
                     /\ ~(p.block = c.block /\ p.i \in 1..used) => Ap(p) = p
  BY <1>1, AdjustPointerIs
<1>3. \A x \in CellT : /\ Ai(x) \in CellT /\ Ai(x).kind = x.kind
                       /\ x.kind \in {"UNSET", "NORMAL", "FIL"} => Ai(x) = x
                       /\ x.kind \in {"SUBFORM", "SUBFORMS", "ENTRY"} =>
                            Ai(x).ptr = Ap(x.ptr) /\ Ai(x).parent = Ap(x.parent)
                       /\ x.kind = "ENTRY" => Ai(x).next = Ap(x.next)
  BY <1>1, AdjustInputIs
<1>4. /\ d.inputs = [n \in Names |-> Ai(c.inputs[n])]
      /\ d.subinputs = [i \in 1..used |-> Ai(c.subinputs[i])]
      /\ d.cur_container = Ap(c.cur_container) /\ d.block = new
      /\ d = [inputs |-> d.inputs, subinputs |-> d.subinputs, block |-> new,
              cur_container |-> Ap(c.cur_container)]
  <2>1. d = [c EXCEPT !.subinputs = [i \in 1..used |-> Ai(c.subinputs[i])],
                      !.inputs = [n \in Names |-> Ai(c.inputs[n])],
                      !.cur_container = Ap(c.cur_container), !.block = new]
    BY DEF Moved
  <2> HIDE DEF Ai, Ap, d
  <2> QED BY <1>1, <2>1 DEF Context
<1> HIDE DEF Ap, Ai, d
<1>5. /\ d \in Context /\ d.inputs \in [Names -> CellT] /\ d.subinputs \in Seq(CellT)
      /\ Len(d.subinputs) = used /\ DOMAIN d.subinputs = 1..used /\ DOMAIN c.subinputs = 1..used
      /\ \A i \in 1..used : c.subinputs[i] \in CellT /\ d.subinputs[i] = Ai(c.subinputs[i])
      /\ \A n \in Names : c.inputs[n] \in CellT /\ d.inputs[n] = Ai(c.inputs[n])
  <2>1. \A i \in 1..used : c.subinputs[i] \in CellT
    BY <1>1
  <2>2. \A i \in 1..used : Ai(c.subinputs[i]) \in CellT
    BY <1>3, <2>1
  <2>3. \A n \in Names : c.inputs[n] \in CellT /\ Ai(c.inputs[n]) \in CellT
    BY <1>1, <1>3
  <2>4. d.subinputs \in [1..used -> CellT]
    BY <1>4, <2>2
  <2>5. d.subinputs \in Seq(CellT) /\ Len(d.subinputs) = used
    <3>1. \A k \in Nat, f \in [1..used -> CellT] : k = used => f \in Seq(CellT) /\ Len(f) = k
      OBVIOUS
    <3> QED BY <1>1, <2>4, <3>1
  <2>6. d.inputs \in [Names -> CellT]
    BY <1>4, <2>3
  <2>7. Ap(c.cur_container) \in Ptr
    BY <1>1, <1>2
  <2>8. d \in Context
    BY <1>1, <1>4, <2>5, <2>6, <2>7 DEF Context
  <2> QED BY <1>1, <1>4, <2>1, <2>3, <2>4, <2>5, <2>6, <2>8
<1>6. \A q \in Ptr : Leads(c, q) => Leads(d, Ap(q))
  BY <1>1, <1>2, <1>4, <1>5 DEF Leads
<1>7. \A q \in Ptr : Ap(q) = NULL <=> q = NULL
  <2> TAKE q \in Ptr
  <2>1. NULL \in Ptr /\ NULL.block = 0
    BY NullPtr DEF NULL
  <2> QED BY <1>1, <1>2, <2>1
<1>8. \A q \in Ptr : Somewhere(c, q) => Somewhere(d, Ap(q))
  BY <1>6, <1>7 DEF Somewhere
<1>9. \A q \in Ptr : HoldsRecord(c, q) => HoldsRecord(d, Ap(q))
  <2> SUFFICES ASSUME NEW q \in Ptr, HoldsRecord(c, q) PROVE HoldsRecord(d, Ap(q))
    OBVIOUS
  <2>1. q.block = c.block /\ q.i \in 1..used /\ q.i + Fields <= used + 1
    BY <1>1, InputsAssumption DEF HoldsRecord, Ptr
  <2> QED BY <1>2, <1>4, <1>5, <2>1 DEF HoldsRecord
<1>10. \A q \in Ptr : IsEntry(c, q) => IsEntry(d, Ap(q))
  BY <1>1, <1>2, <1>3, <1>4, <1>5, <1>7 DEF IsEntry
<1>11. \A x \in CellT : CellOk(c, x) => CellOk(d, Ai(x))
  <2> TAKE x \in CellT
  <2> HAVE CellOk(c, x)
  <2>1. x.ptr \in Ptr /\ x.next \in Ptr /\ x.parent \in Ptr
    BY DEF CellT
  <2>2. CASE x.kind \in {"UNSET", "NORMAL", "FIL"}
    BY <1>3, <2>2 DEF CellOk, Somewhere
  <2>3. CASE x.kind \in {"SUBFORM", "SUBFORMS", "ENTRY"}
    BY <1>3, <1>8, <1>9, <1>10, <2>1, <2>3 DEF CellOk
  <2> QED BY <2>2, <2>3 DEF CellT
<1>12. Ok(d)
  BY <1>1, <1>4, <1>5, <1>8, <1>11 DEF Ok
<1>13. \A q \in Ptr : Leads(c, q) => At(d, Ap(q)) = Ai(At(c, q))
  <2> SUFFICES ASSUME NEW q \in Ptr, Leads(c, q) PROVE At(d, Ap(q)) = Ai(At(c, q))
    OBVIOUS
  <2>1. CASE q.block = 0 /\ q.i \in Names
    BY <1>1, <1>2, <1>4, <1>5, <2>1 DEF At
  <2>2. CASE q.block = c.block /\ q.i \in 1..used
    BY <1>1, <1>2, <1>4, <1>5, <2>2 DEF At
  <2> QED BY <2>1, <2>2 DEF Leads
<1> QED BY <1>1, <1>2, <1>4, <1>5, <1>6, <1>7, <1>12, <1>13 DEF Ap, Ai, d

\* What uw_check_input_space leaves as it was: where the request is, and what it finds there.
Same(c, d) ==
  /\ c.cur_container = NULL <=> d.cur_container = NULL
  /\ c.cur_container # NULL => Here(d).kind = Here(c).kind
  /\ \A n \in Names : IsRecord(c) => At(d, INP(d, n)).kind = At(c, INP(c, n)).kind

LEMMA HereCell ==
  ASSUME NEW c, Ok(c), c.cur_container # NULL
  PROVE  /\ c.cur_container \in Ptr /\ Leads(c, c.cur_container)
         /\ Here(c) \in CellT /\ CellOk(c, Here(c)) /\ Here(c) = At(c, c.cur_container)
<1>1. c.cur_container \in Ptr /\ Leads(c, c.cur_container)
  BY DEF Ok, Context, Somewhere
<1> QED BY <1>1, AtCell DEF Here

LEMMA GrowSame ==
  ASSUME NEW c, Ok(c), NEW len \in Nat
  PROVE  Same(c, Grow(c, len)) /\ (IsRecord(c) => IsRecord(Grow(c, len)))
<1> DEFINE d == Grow(c, len)
<1>1. /\ d.cur_container = c.cur_container
      /\ \A q \in Ptr : Leads(c, q) => Leads(d, q) /\ At(d, q) = At(c, q)
  BY GrowOk
<1> HIDE DEF d
<1>2. c.cur_container # NULL => Here(d) = Here(c)
  BY <1>1, HereCell DEF Here
<1>3. ASSUME NEW n \in Names, IsRecord(c) PROVE At(d, INP(d, n)).kind = At(c, INP(c, n)).kind
  <2>1. INP(d, n) = INP(c, n)
    BY <1>1, <1>2 DEF INP
  <2>2. INP(c, n) \in Ptr /\ Leads(c, INP(c, n))
    BY <1>3, InpLeads
  <2> QED BY <1>1, <2>1, <2>2
<1> QED BY <1>1, <1>2, <1>3 DEF Same, IsRecord, d

LEMMA MovedSame ==
  ASSUME NEW c, Ok(c)
  PROVE  Same(c, Moved(c)) /\ (IsRecord(c) => IsRecord(Moved(c)))
<1> DEFINE d == Moved(c)  used == Len(c.subinputs)  new == c.block + 1
           Ap(p) == AdjustPointer(p, c.block, new, used)
           Ai(x) == AdjustInput(x, c.block, new, used)
<1>1. /\ d.cur_container = Ap(c.cur_container)
      /\ c.cur_container = NULL <=> d.cur_container = NULL
      /\ \A q \in Ptr : Leads(c, q) => At(d, Ap(q)) = Ai(At(c, q))
  BY MovedOk
<1>2. \A x \in CellT : Ai(x).kind = x.kind /\ (x.kind \in {"SUBFORM", "ENTRY"} => Ai(x).ptr = Ap(x.ptr))
  BY DEF AdjustInput, CellT
<1>3. c.block \in Nat \ {0} /\ used \in Nat
  BY DEF Ok, Context
<1> HIDE DEF d, Ai
<1>4. c.cur_container # NULL => Here(d) = Ai(Here(c)) /\ Here(d).kind = Here(c).kind
  BY <1>1, <1>2, HereCell DEF Here
<1>5. ASSUME NEW n \in Names, IsRecord(c) PROVE At(d, INP(d, n)).kind = At(c, INP(c, n)).kind
  <2>1. INP(c, n) \in Ptr /\ Leads(c, INP(c, n))
    BY <1>5, InpLeads
  <2>2. INP(d, n) = Ap(INP(c, n))
    <3>1. n \in Nat /\ 1 <= n /\ n <= Fields /\ Fields \in Nat
      BY InputsAssumption DEF Names
    <3>2. CASE c.cur_container = NULL
      <4>1. INP(c, n) = INP(d, n) /\ INP(c, n).block = 0
        BY <1>1, <3>1, <3>2 DEF INP, Field
      <4> QED BY <1>3, <4>1 DEF AdjustPointer
    <3>3. CASE c.cur_container # NULL
      <4> DEFINE p == Here(c).ptr
      <4>1. Here(c) \in CellT /\ Here(c).kind \in {"SUBFORM", "ENTRY"} /\ CellOk(c, Here(c))
        BY <1>5, <3>3, HereCell DEF IsRecord
      <4>2. p \in Ptr /\ p.block = c.block /\ p.i >= 1 /\ p.i + Fields <= used + 1
        BY <4>1 DEF CellT, CellOk, HoldsRecord
      <4>3. INP(c, n) = Field(p, n) /\ INP(d, n) = Field(Ap(p), n)
        BY <1>1, <1>2, <1>4, <3>3, <4>1 DEF INP
      <4> HIDE DEF p
      <4>4. p.i \in 1..used /\ p.i + n - 1 \in 1..used
        BY <1>3, <3>1, <4>2 DEF Ptr
      <4>5. Ap(p) = [p EXCEPT !.block = new]
        BY <4>2, <4>4 DEF AdjustPointer
      <4>6. Field(p, n).block = c.block /\ Field(p, n).i = p.i + n - 1
        BY <4>2, <3>1 DEF Field, Ptr
      <4>7. Ap(Field(p, n)) = [Field(p, n) EXCEPT !.block = new]
        BY <4>4, <4>6 DEF AdjustPointer
      <4>8. Field(Ap(p), n) = [block |-> new, i |-> p.i + n - 1]
        BY <4>2, <4>5 DEF Field, Ptr
      <4>9. Ap(Field(p, n)) = [block |-> new, i |-> p.i + n - 1]
        BY <4>2, <4>7 DEF Field, Ptr
      <4> QED BY <4>3, <4>8, <4>9
    <3> QED BY <3>2, <3>3
  <2>3. At(d, INP(d, n)) = Ai(At(c, INP(c, n))) /\ At(c, INP(c, n)) \in CellT
    BY <1>1, <2>1, <2>2, AtCell
  <2> QED BY <1>2, <2>3
<1> QED BY <1>1, <1>4, <1>5 DEF Same, IsRecord, d

LEMMA SpaceOk ==
  ASSUME NEW c, Ok(c), NEW len \in Nat, NEW d \in CheckInputSpace(c, len)
  PROVE  /\ Ok(d) /\ Same(c, d) /\ (IsRecord(c) => IsRecord(d))
         /\ Len(d.subinputs) = Len(c.subinputs) + len
         /\ \A i \in Len(c.subinputs) + 1 .. Len(c.subinputs) + len : d.subinputs[i] = Unset
<1>0. ASSUME NEW b, Ok(b)
      PROVE  LET g == Grow(b, len)
             IN /\ Ok(g) /\ Len(g.subinputs) = Len(b.subinputs) + len
                /\ \A i \in Len(b.subinputs) + 1 .. Len(b.subinputs) + len : g.subinputs[i] = Unset
                /\ Same(b, g) /\ (IsRecord(b) => IsRecord(g))
  <2>1. LET g == Grow(b, len)
        IN /\ Ok(g) /\ Len(g.subinputs) = Len(b.subinputs) + len
           /\ \A i \in Len(b.subinputs) + 1 .. Len(b.subinputs) + len : g.subinputs[i] = Unset
    BY <1>0, GrowOk
  <2>2. Same(b, Grow(b, len)) /\ (IsRecord(b) => IsRecord(Grow(b, len)))
    BY <1>0, GrowSame
  <2> QED BY <2>1, <2>2
<1>1. CASE d = Grow(c, len)
  BY <1>0, <1>1
<1>2. CASE d = Grow(Moved(c), len)
  <2> DEFINE m == Moved(c)
  <2>0. d = Grow(m, len)
    BY <1>2
  <2>1. Ok(m) /\ Len(m.subinputs) = Len(c.subinputs) /\ Same(c, m) /\ (IsRecord(c) => IsRecord(m))
    BY MovedOk, MovedSame
  <2> HIDE DEF m
  <2>2. /\ Ok(d) /\ Len(d.subinputs) = Len(m.subinputs) + len
        /\ \A i \in Len(m.subinputs) + 1 .. Len(m.subinputs) + len : d.subinputs[i] = Unset
        /\ Same(m, d) /\ (IsRecord(m) => IsRecord(d))
    BY <1>0, <2>0, <2>1
  <2>3. Same(c, d)
    BY <2>1, <2>2 DEF Same
  <2> QED BY <2>1, <2>2, <2>3
<1> QED BY <1>1, <1>2 DEF CheckInputSpace

-----------------------------------------------------------------------------
(* Each step.                                                               *)

\* A cell that holds no pointers.
LEMMA LeafCell ==
  ASSUME NEW k \in {"UNSET", "NORMAL", "FIL"}, NEW v \in Values, NEW c
  PROVE  Cell(k, v, NULL, NULL, NULL) \in CellT /\ CellOk(c, Cell(k, v, NULL, NULL, NULL))
BY NullPtr DEF Cell, CellT, CellOk, Somewhere

\* The field a browser sends is there, and blank in a form that fits.
LEMMA SentField ==
  ASSUME NEW n \in Names, NEW shape, Sends(n, shape), Ok(ctx)
  PROVE  /\ IsRecord(ctx) /\ INP(ctx, n) \in Ptr /\ Leads(ctx, INP(ctx, n))
         /\ Fitting => Shape[n] = shape /\ At(ctx, INP(ctx, n)).kind = "UNSET"
<1>1. n \in n .. Fields
  BY InputsAssumption DEF Names
<1> QED BY <1>1, InpLeads DEF Sends, Fits

LEMMA SetInputOk ==
  ASSUME Ok(ctx), NEW n \in Names, NEW v \in Values, SetInput(n, v)
  PROVE  Ok(ctx')
<1>1. INP(ctx, n) \in Ptr /\ Leads(ctx, INP(ctx, n)) /\ (Fitting => At(ctx, INP(ctx, n)).kind = "UNSET")
  BY SentField DEF SetInput
<1>2. /\ Cell("NORMAL", v, NULL, NULL, NULL) \in CellT
      /\ CellOk(ctx, Cell("NORMAL", v, NULL, NULL, NULL))
  BY LeafCell
<1>3. Ok(Set(ctx, INP(ctx, n), Cell("NORMAL", v, NULL, NULL, NULL)))
  BY <1>1, <1>2, SetOk
<1> QED BY <1>3 DEF SetInput

LEMMA SetFileInputOk ==
  ASSUME Ok(ctx), NEW n \in Names, NEW v \in Values, SetFileInput(n, v)
  PROVE  Ok(ctx')
<1> DEFINE x == Cell("FIL", v, NULL, NULL, NULL)  p == [block |-> 0, i |-> n]
<1>1. p \in Ptr /\ Leads(ctx, p) /\ (Fitting => At(ctx, p).kind = "UNSET")
  <2>1. n \in Nat /\ n \in n .. Fields /\ p.block = 0 /\ p.i = n
    BY InputsAssumption DEF Names
  <2>2. ASSUME Fitting PROVE p = INP(ctx, n) /\ At(ctx, INP(ctx, n)).kind = "UNSET"
    <3>1. ctx.cur_container = NULL /\ Fits(n, "file")
      BY <2>2 DEF SetFileInput
    <3>2. p = INP(ctx, n)
      BY <2>1, <3>1 DEF INP, Field
    <3> QED BY <2>1, <3>1, <3>2 DEF Fits
  <2>3. p \in Ptr /\ Leads(ctx, p)
    BY <2>1 DEF Ptr, Leads
  <2> QED BY <2>2, <2>3
<1>2. x \in CellT /\ CellOk(ctx, x)
  BY LeafCell
<1>3. Ok(Set(ctx, p, x))
  <2> HIDE DEF x, p
  <2> QED BY <1>1, <1>2, SetOk
<1>4. p.block = 0 /\ p.i = n
  OBVIOUS
<1>5. ctx' = Set(ctx, p, x)
  <2> HIDE DEF p
  <2> QED BY <1>4 DEF SetFileInput, Set
<1> QED BY <1>3, <1>5

LEMMA BeginSubformOk ==
  ASSUME Ok(ctx), NEW n \in Names, BeginSubform(n)
  PROVE  Ok(ctx')
<1>1. IsRecord(ctx) /\ (Fitting => At(ctx, INP(ctx, n)).kind = "UNSET") /\ Fields \in Nat \ {0}
  BY SentField, InputsAssumption DEF BeginSubform
<1>2. PICK c \in CheckInputSpace(ctx, Fields) :
        ctx' = [Set(c, INP(c, n), SubformCell(c, Fresh(c, Fields))) EXCEPT !.cur_container = INP(c, n)]
  BY DEF BeginSubform
<1> DEFINE p == INP(c, n)  x == SubformCell(c, Fresh(c, Fields))
<1>3. /\ Ok(c) /\ IsRecord(c) /\ (Fitting => At(c, p).kind = "UNSET")
      /\ Len(c.subinputs) = Len(ctx.subinputs) + Fields
  BY <1>1, <1>2, SpaceOk DEF Same
<1>4. p \in Ptr /\ Leads(c, p)
  BY <1>3, InpLeads
<1>5. c.block \in Nat /\ Len(ctx.subinputs) \in Nat /\ c.cur_container \in Ptr /\ Somewhere(c, c.cur_container)
  BY <1>3 DEF Ok, Context
<1>6. Fresh(c, Fields) \in Ptr /\ HoldsRecord(c, Fresh(c, Fields))
  BY <1>1, <1>3, <1>5 DEF Fresh, Ptr, HoldsRecord
<1>7. x \in CellT /\ CellOk(c, x)
  BY <1>5, <1>6, NullPtr DEF SubformCell, Cell, CellT, CellOk
<1> HIDE DEF p, x
<1>8. Ok(Set(c, p, x)) /\ Leads(Set(c, p, x), p)
  BY <1>3, <1>4, <1>7, SetOk
<1>9. Ok([Set(c, p, x) EXCEPT !.cur_container = p])
  BY <1>4, <1>8, PlaceOk DEF Somewhere
<1> QED BY <1>2, <1>9 DEF p, x

LEMMA BeginSubformsOk ==
  ASSUME Ok(ctx), NEW n \in Names, BeginSubforms(n)
  PROVE  Ok(ctx')
<1> DEFINE p == INP(ctx, n)  x == Cell("SUBFORMS", None, NULL, NULL, ctx.cur_container)
<1>1. p \in Ptr /\ Leads(ctx, p) /\ (Fitting => At(ctx, p).kind = "UNSET")
  BY SentField DEF BeginSubforms
<1>2. ctx.cur_container \in Ptr /\ Somewhere(ctx, ctx.cur_container)
  BY DEF Ok, Context
<1>3. x \in CellT /\ CellOk(ctx, x)
  BY <1>2, NullPtr DEF Cell, CellT, CellOk, IsEntry
<1>4. ctx' = [Set(ctx, p, x) EXCEPT !.cur_container = p]
  BY DEF BeginSubforms
<1> HIDE DEF p, x
<1>5. Ok(Set(ctx, p, x)) /\ Leads(Set(ctx, p, x), p)
  BY <1>1, <1>3, SetOk
<1>6. Ok([Set(ctx, p, x) EXCEPT !.cur_container = p])
  BY <1>1, <1>5, PlaceOk DEF Somewhere
<1> QED BY <1>4, <1>6

LEMMA BeginEntryOk == ASSUME Ok(ctx), BeginEntry PROVE Ok(ctx')
<1>1. ctx.cur_container # NULL /\ Here(ctx).kind = "SUBFORMS" /\ Fields \in Nat \ {0}
  BY InputsAssumption DEF BeginEntry
<1>2. PICK c \in CheckInputSpace(ctx, Fields + 1) :
        LET e == Fresh(c, Fields + 1)
        IN ctx' = [Set(Set(c, e, EntryCell(c, e)), c.cur_container, [Here(c) EXCEPT !.ptr = e])
                   EXCEPT !.cur_container = e]
  BY DEF BeginEntry
<1> DEFINE e == Fresh(c, Fields + 1)  x == EntryCell(c, e)  d == Set(c, e, x)
           p == c.cur_container  y == [Here(c) EXCEPT !.ptr = e]
<1>3. /\ Ok(c) /\ p # NULL /\ Here(c).kind = "SUBFORMS"
      /\ Len(c.subinputs) = Len(ctx.subinputs) + Fields + 1
      /\ c.subinputs[Len(ctx.subinputs) + 1] = Unset
  <2>1. Fields + 1 \in Nat /\ Len(ctx.subinputs) \in Nat
    BY <1>1 DEF Ok, Context
  <2>2. /\ Ok(c) /\ Same(ctx, c) /\ Len(c.subinputs) = Len(ctx.subinputs) + (Fields + 1)
        /\ \A i \in Len(ctx.subinputs) + 1 .. Len(ctx.subinputs) + (Fields + 1) : c.subinputs[i] = Unset
    BY <1>2, <2>1, SpaceOk
  <2>3. \A k \in Nat : k + 1 \in k + 1 .. k + (Fields + 1)
    BY <1>1
  <2>4. c.subinputs[Len(ctx.subinputs) + 1] = Unset
    BY <2>1, <2>2, <2>3
  <2>5. p # NULL /\ Here(c).kind = "SUBFORMS"
    BY <1>1, <2>2 DEF Same
  <2>6. Len(c.subinputs) = Len(ctx.subinputs) + Fields + 1
    <3>1. \A k \in Nat : k + (Fields + 1) = k + Fields + 1
      BY <1>1
    <3> QED BY <2>1, <2>2, <3>1
  <2> QED BY <2>2, <2>4, <2>5, <2>6
<1>4. c.block \in Nat \ {0} /\ Len(ctx.subinputs) \in Nat /\ c.subinputs \in Seq(CellT)
  BY <1>3 DEF Ok, Context
<1>5. p \in Ptr /\ Leads(c, p) /\ Here(c) \in CellT /\ CellOk(c, Here(c)) /\ Here(c) = At(c, p)
  BY <1>3, HereCell
<1>6. /\ e = [block |-> c.block, i |-> Len(ctx.subinputs) + 1] /\ e \in Ptr /\ Leads(c, e)
      /\ At(c, e).kind = "UNSET" /\ e # NULL
  <2>1. e = [block |-> c.block, i |-> Len(ctx.subinputs) + 1]
    <3>1. PICK k \in Nat, m \in Nat : k = Len(ctx.subinputs) /\ m = Len(c.subinputs)
      BY <1>4
    <3>2. m - (Fields + 1) + 1 = k + 1
      BY <1>1, <1>3, <3>1
    <3> QED BY <3>1, <3>2 DEF Fresh
  <2>2. Len(ctx.subinputs) + 1 \in 1..Len(c.subinputs)
    BY <1>1, <1>3, <1>4
  <2>3. At(c, e) = c.subinputs[Len(ctx.subinputs) + 1]
    <3>1. e.block = c.block /\ e.block # 0 /\ e.i = Len(ctx.subinputs) + 1
      BY <1>4, <2>1
    <3>2. DOMAIN c.subinputs = 1..Len(c.subinputs)
      BY <1>4
    <3> HIDE DEF e
    <3> QED BY <2>2, <3>1, <3>2 DEF At
  <2> QED BY <1>3, <1>4, <2>1, <2>2, <2>3 DEF Ptr, Leads, Unset, Cell, NULL
<1> HIDE DEF e
<1>7. x \in CellT /\ CellOk(c, x) /\ x.kind = "ENTRY"
  <2>1. Field(e, 2) = [block |-> c.block, i |-> Len(ctx.subinputs) + 2]
    BY <1>4, <1>6 DEF Field
  <2>2. Field(e, 2) \in Ptr /\ HoldsRecord(c, Field(e, 2))
    BY <1>1, <1>3, <1>4, <2>1 DEF Ptr, HoldsRecord
  <2>3. Here(c).ptr \in Ptr /\ IsEntry(c, Here(c).ptr)
    BY <1>3, <1>5 DEF CellT, CellOk
  <2>4. x = Cell("ENTRY", None, Field(e, 2), Here(c).ptr, p)
    BY DEF EntryCell
  <2> HIDE DEF x
  <2> QED BY <1>5, <2>2, <2>3, <2>4 DEF Cell, CellT, CellOk, Somewhere
<1> HIDE DEF x
<1>8. /\ Ok(d) /\ d.cur_container = p /\ d.block = c.block /\ Len(d.subinputs) = Len(c.subinputs)
      /\ At(d, e) = x /\ At(d, p) = Here(c) /\ Leads(d, p) /\ Leads(d, e)
  <2>1. e # p
    BY <1>3, <1>5, <1>6
  <2> QED BY <1>3, <1>5, <1>6, <1>7, <2>1, SetOk
<1> HIDE DEF d, p
<1>9. y \in CellT /\ CellOk(d, y) /\ y.kind = "SUBFORMS"
  <2>1. Here(c) = At(d, p) /\ CellOk(d, Here(c))
    BY <1>5, <1>8, AtCell
  <2>2. IsEntry(d, e)
    <3>1. e.i \in DOMAIN d.subinputs /\ e.i \in 1..Len(d.subinputs) /\ e.block # 0 /\ e.block = d.block
      BY <1>1, <1>3, <1>4, <1>6, <1>8 DEF Ok, Context
    <3>2. At(d, e) = d.subinputs[e.i]
      BY <3>1 DEF At
    <3> QED BY <1>7, <1>8, <3>1, <3>2 DEF IsEntry
  <2> QED BY <1>3, <1>5, <1>6, <2>1, <2>2 DEF CellT, CellOk
<1> HIDE DEF y
<1>10. Ok(Set(d, p, y)) /\ Leads(Set(d, p, y), e)
  BY <1>3, <1>5, <1>6, <1>8, <1>9, SetOk
<1>11. Ok([Set(d, p, y) EXCEPT !.cur_container = e])
  BY <1>6, <1>10, PlaceOk DEF Somewhere
<1> QED BY <1>2, <1>11 DEF e, x, d, p, y

\* A container that is left: its parent is forgotten, and becomes the place.
LEMMA LeaveOk ==
  ASSUME Ok(ctx), ctx.cur_container # NULL
  PROVE  /\ Ok([Set(ctx, ctx.cur_container, [Here(ctx) EXCEPT !.parent = NULL])
               EXCEPT !.cur_container = Here(ctx).parent])
         /\ Ok([ctx EXCEPT !.cur_container = Here(ctx).parent])
<1> DEFINE p == ctx.cur_container  y == [Here(ctx) EXCEPT !.parent = NULL]  q == Here(ctx).parent
<1>1. p \in Ptr /\ Leads(ctx, p) /\ Here(ctx) \in CellT /\ CellOk(ctx, Here(ctx)) /\ Here(ctx) = At(ctx, p)
  BY HereCell
<1>2. q \in Ptr /\ Somewhere(ctx, q)
  BY <1>1 DEF CellT, CellOk
<1>3. y \in CellT /\ CellOk(ctx, y) /\ y.kind = Here(ctx).kind
  BY <1>1, NullPtr DEF CellT, CellOk, Somewhere
<1> HIDE DEF p, y, q
<1>4. Ok(Set(ctx, p, y)) /\ Somewhere(Set(ctx, p, y), q)
  BY <1>1, <1>2, <1>3, SetOk DEF Somewhere
<1>5. Ok([Set(ctx, p, y) EXCEPT !.cur_container = q]) /\ Ok([ctx EXCEPT !.cur_container = q])
  BY <1>2, <1>4, PlaceOk
<1> QED BY <1>5 DEF p, y, q

LEMMA EndContainerOk == ASSUME Ok(ctx), EndContainer PROVE Ok(ctx')
<1>1. CASE Here(ctx).kind = "ENTRY"
  BY <1>1, LeaveOk DEF EndContainer
<1>2. CASE Here(ctx).kind # "ENTRY"
  BY <1>2, LeaveOk DEF EndContainer
<1> QED BY <1>1, <1>2

LEMMA LeaveSubformOk == ASSUME Ok(ctx), LeaveSubform PROVE Ok(ctx')
BY LeaveOk DEF LeaveSubform

\* A cell the handler asks for.
LEMMA AskedCell ==
  ASSUME NEW n \in Names, NEW shape, Asks(n, shape), Ok(ctx)
  PROVE  /\ INP(ctx, n) \in Ptr /\ Leads(ctx, INP(ctx, n)) /\ Asked(n) = At(ctx, INP(ctx, n))
         /\ Asked(n) \in CellT /\ CellOk(ctx, Asked(n))
         /\ LET y == [Asked(n) EXCEPT !.parent = ctx.cur_container]
            IN Asked(n).kind \in {"SUBFORM", "SUBFORMS"} => Ok(Set(ctx, INP(ctx, n), y))
<1> DEFINE p == INP(ctx, n)  y == [Asked(n) EXCEPT !.parent = ctx.cur_container]
<1>1. p \in Ptr /\ Leads(ctx, p) /\ Asked(n) = At(ctx, p) /\ Asked(n) \in CellT /\ CellOk(ctx, Asked(n))
  BY InpLeads, AtCell DEF Asks, Asked
<1>2. ctx.cur_container \in Ptr /\ Somewhere(ctx, ctx.cur_container)
  BY DEF Ok, Context
<1> HIDE DEF p
<1>3. ASSUME Asked(n).kind \in {"SUBFORM", "SUBFORMS"} PROVE Ok(Set(ctx, p, y))
  <2>1. y \in CellT /\ CellOk(ctx, y) /\ y.kind = Asked(n).kind
    BY <1>1, <1>2, <1>3 DEF CellT, CellOk
  <2> HIDE DEF y
  <2> QED BY <1>1, <2>1, SetOk
<1> QED BY <1>1, <1>3 DEF p

LEMMA EnterSubformOk ==
  ASSUME Ok(ctx), NEW n \in Names, EnterSubform(n)
  PROVE  Ok(ctx')
<1> DEFINE p == INP(ctx, n)  y == [Asked(n) EXCEPT !.parent = ctx.cur_container]
<1>1. p \in Ptr /\ Leads(ctx, p) /\ Ok(Set(ctx, p, y)) /\ ctx' = [Set(ctx, p, y) EXCEPT !.cur_container = p]
  BY AskedCell DEF EnterSubform
<1>2. Asked(n) \in CellT /\ CellOk(ctx, Asked(n)) /\ Asked(n).kind = "SUBFORM" /\ Asked(n) = At(ctx, p)
  BY AskedCell DEF EnterSubform
<1>3. ctx.cur_container \in Ptr /\ Somewhere(ctx, ctx.cur_container)
  BY DEF Ok, Context
<1>4. y \in CellT /\ CellOk(ctx, y) /\ y.kind = "SUBFORM"
  BY <1>2, <1>3 DEF CellT, CellOk
<1> HIDE DEF p, y
<1>5. Leads(Set(ctx, p, y), p)
  BY <1>1, <1>2, <1>4, SetOk
<1> QED BY <1>1, <1>5, PlaceOk DEF Somewhere

LEMMA EnterSubformsOk ==
  ASSUME Ok(ctx), NEW n \in Names, EnterSubforms(n)
  PROVE  Ok(ctx')
<1> DEFINE p == INP(ctx, n)  y == [Asked(n) EXCEPT !.parent = ctx.cur_container]  q == Asked(n).ptr
<1>1. p \in Ptr /\ Leads(ctx, p) /\ Ok(Set(ctx, p, y)) /\ Asked(n) = At(ctx, p)
      /\ Asked(n) \in CellT /\ CellOk(ctx, Asked(n)) /\ Asked(n).kind = "SUBFORMS"
  BY AskedCell DEF EnterSubforms
<1>2. q \in Ptr /\ IsEntry(ctx, q)
  BY <1>1 DEF CellT, CellOk
<1>3. ctx' = IF q = NULL THEN ctx ELSE [Set(ctx, p, y) EXCEPT !.cur_container = q]
  BY DEF EnterSubforms
<1>4. ctx.cur_container \in Ptr /\ Somewhere(ctx, ctx.cur_container)
  BY DEF Ok, Context
<1>5. y \in CellT /\ CellOk(ctx, y) /\ y.kind = "SUBFORMS"
  BY <1>1, <1>4 DEF CellT, CellOk
<1> HIDE DEF p, y, q
<1>6. CASE q # NULL
  <2>1. Leads(ctx, q)
    BY <1>2, <1>6 DEF IsEntry, Leads
  <2>2. Leads(Set(ctx, p, y), q)
    BY <1>1, <1>2, <1>5, <2>1, SetOk
  <2> QED BY <1>1, <1>2, <1>3, <1>6, <2>2, PlaceOk DEF Somewhere
<1>7. CASE q = NULL
  BY <1>3, <1>7
<1> QED BY <1>6, <1>7

LEMMA NextEntryOk == ASSUME Ok(ctx), NextEntry PROVE Ok(ctx')
<1> DEFINE x == Here(ctx)
           q == IF x.next # NULL THEN x.next ELSE At(ctx, x.parent).parent
<1>1. x \in CellT /\ CellOk(ctx, x) /\ x.kind = "ENTRY"
  BY HereCell DEF NextEntry
<1>2. ctx' = [ctx EXCEPT !.cur_container = q]
  BY DEF NextEntry
<1> HIDE DEF x
<1>3. q \in Ptr /\ Somewhere(ctx, q)
  <2>1. CASE x.next # NULL
    BY <1>1, <2>1 DEF CellT, CellOk, IsEntry, Somewhere, Leads
  <2>2. CASE x.next = NULL /\ x.parent # NULL
    <3>1. x.parent \in Ptr /\ Leads(ctx, x.parent)
      BY <1>1, <2>2 DEF CellT, CellOk, Somewhere
    <3>2. At(ctx, x.parent) \in CellT /\ CellOk(ctx, At(ctx, x.parent))
      BY <3>1, AtCell
    <3> QED BY <2>2, <3>2 DEF CellT, CellOk
  <2>3. CASE x.next = NULL /\ x.parent = NULL
    <3>1. At(ctx, NULL) = Wild
      BY DEF At, NULL, Names, Ok, Context
    <3> QED BY <2>3, <3>1, NullPtr DEF Wild, Cell, Somewhere
  <2> QED BY <2>1, <2>2, <2>3
<1> HIDE DEF q
<1> QED BY <1>2, <1>3, PlaceOk

LEMMA BlankOk ==
  ASSUME NEW b \in Nat \ {0}
  PROVE  Ok([inputs |-> [n \in Names |-> Unset], subinputs |-> <<>>, block |-> b, cur_container |-> NULL])
<1> DEFINE c == [inputs |-> [n \in Names |-> Unset], subinputs |-> <<>>, block |-> b, cur_container |-> NULL]
<1>1. Unset \in CellT /\ CellOk(c, Unset)
  BY NullPtr DEF Unset, Cell, CellT, CellOk, Somewhere
<1>2. c.inputs = [n \in Names |-> Unset] /\ c.subinputs = <<>> /\ c.cur_container = NULL
  OBVIOUS
<1>3. c \in Context
  <2>1. [n \in Names |-> Unset] \in [Names -> CellT] /\ <<>> \in Seq(CellT)
    BY <1>1
  <2>2. ASSUME NEW f \in [Names -> CellT], NEW s \in Seq(CellT), NEW p \in Ptr
        PROVE  [inputs |-> f, subinputs |-> s, block |-> b, cur_container |-> p] \in Context
    BY DEF Context
  <2> QED BY <2>1, <2>2, NullPtr
<1> HIDE DEF c
<1>4. Ok(c)
  BY <1>1, <1>2, <1>3 DEF Ok, Somewhere
<1> QED BY <1>4 DEF c

LEMMA NewRequestOk == ASSUME Ok(ctx), NewRequest PROVE Ok(ctx')
<1>1. ctx \in Context
  BY DEF Ok
<1>2. ctx' = [inputs |-> [n \in Names |-> Unset], subinputs |-> <<>>, block |-> ctx.block, cur_container |-> NULL]
  BY <1>1 DEF NewRequest, Reset, Context
<1>3. ctx'.block = ctx.block /\ ctx.block \in Nat \ {0}
  BY <1>1, <1>2 DEF Context
<1> QED BY <1>2, <1>3, BlankOk

LEMMA RetryOk == ASSUME Ok(ctx), Retry PROVE Ok(ctx')
BY PlaceOk, NullPtr DEF Retry, ResetKeepRequest, Somewhere

LEMMA InitOk == Init => Ok(ctx)
<1> SUFFICES ASSUME Init PROVE Ok(ctx)
  OBVIOUS
<1>1. ctx = [inputs |-> [n \in Names |-> Unset], subinputs |-> <<>>, block |-> 1, cur_container |-> NULL]
  BY DEF Init
<1> QED BY <1>1, BlankOk

LEMMA NextOk == ASSUME Ok(ctx), [Next]_vars PROVE Ok(ctx')
<1>1. CASE UNCHANGED vars
  BY <1>1 DEF vars
<1>2. ASSUME NEW n \in Names, NEW v \in Values, SetInput(n, v) \/ SetFileInput(n, v) PROVE Ok(ctx')
  BY <1>2, SetInputOk, SetFileInputOk
<1>3. ASSUME NEW n \in Names, BeginSubform(n) \/ BeginSubforms(n) PROVE Ok(ctx')
  BY <1>3, BeginSubformOk, BeginSubformsOk
<1>4. ASSUME NEW n \in Names, GetInput(n) \/ GetFileInput(n) PROVE Ok(ctx')
  BY <1>4 DEF GetInput, GetFileInput
<1>5. ASSUME NEW n \in Names, EnterSubform(n) \/ EnterSubforms(n) PROVE Ok(ctx')
  BY <1>5, EnterSubformOk, EnterSubformsOk
<1>6. CASE BeginEntry \/ EndContainer \/ LeaveSubform \/ NextEntry
  BY <1>6, BeginEntryOk, EndContainerOk, LeaveSubformOk, NextEntryOk
<1>7. CASE Refuse \/ (phase = "handle" /\ NewRequest)
  BY <1>7, NewRequestOk DEF Refuse
<1>8. CASE Submit
  BY <1>8 DEF Submit
<1>9. CASE Retry
  BY <1>9, RetryOk
<1> QED BY <1>1, <1>2, <1>3, <1>4, <1>5, <1>6, <1>7, <1>8, <1>9 DEF Next

-----------------------------------------------------------------------------
\* What the pointers of a sound request lead to.
LEMMA OkDangles == ASSUME Ok(ctx) PROVE NoDangling
<1> SUFFICES ASSUME NEW p \in AllPointers, p # NULL PROVE At(ctx, p) # Wild
  BY DEF NoDangling
<1>1. ASSUME NEW x \in CellT, CellOk(ctx, x), p \in Pointers(x) PROVE p \in Ptr /\ Leads(ctx, p)
  <2>1. x.ptr \in Ptr /\ x.next \in Ptr /\ x.parent \in Ptr
    BY DEF CellT
  <2>2. ASSUME NEW q \in Ptr, HoldsRecord(ctx, q) PROVE Leads(ctx, q)
    BY <2>2, InputsAssumption DEF HoldsRecord, Leads, Ptr, Ok, Context
  <2>3. ASSUME NEW q \in Ptr, IsEntry(ctx, q), q # NULL PROVE Leads(ctx, q)
    BY <2>3 DEF IsEntry, Leads
  <2> QED BY <1>1, <2>1, <2>2, <2>3 DEF Pointers, CellOk, Somewhere
<1>2. p \in Ptr /\ Leads(ctx, p)
  <2>1. CASE p = ctx.cur_container
    BY <2>1 DEF Ok, Context, Somewhere
  <2>2. ASSUME NEW n \in Names, p \in Pointers(ctx.inputs[n]) PROVE p \in Ptr /\ Leads(ctx, p)
    <3>1. ctx.inputs[n] \in CellT /\ CellOk(ctx, ctx.inputs[n])
      BY DEF Ok, Context
    <3> QED BY <1>1, <2>2, <3>1
  <2>3. ASSUME NEW i \in DOMAIN ctx.subinputs, p \in Pointers(ctx.subinputs[i]) PROVE p \in Ptr /\ Leads(ctx, p)
    <3>1. ctx.subinputs \in Seq(CellT) /\ i \in 1..Len(ctx.subinputs)
      BY DEF Ok, Context
    <3>2. ctx.subinputs[i] \in CellT /\ CellOk(ctx, ctx.subinputs[i])
      BY <3>1 DEF Ok
    <3> DEFINE x == ctx.subinputs[i]
    <3>3. x \in CellT /\ CellOk(ctx, x) /\ p \in Pointers(x)
      BY <2>3, <3>2
    <3> HIDE DEF x
    <3> QED BY <1>1, <3>3
  <2> QED BY <2>1, <2>2, <2>3 DEF AllPointers
<1> QED BY <1>2, AtCell

(* Wherever uw_check_input_space has moved the block of subinputs, and whatever attempt was   *)
(* given up in whatever subform, a pointer that the cells of a request hold, and the one to   *)
(* the container it is in, lead to a cell of the form or of the present block.  This needs    *)
(* nothing of the form: fields may come in any order, again, as something else, and may be    *)
(* left open.                                                                                 *)
THEOREM NoPointerDangles == Spec => []NoDangling
<1>1. Init => Ok(ctx)
  BY InitOk
<1>2. Ok(ctx) /\ [Next]_vars => Ok(ctx)'
  BY NextOk DEF Ok
<1>3. Ok(ctx) => NoDangling
  BY OkDangles
<1> QED BY <1>1, <1>2, <1>3, PTL DEF Spec

-----------------------------------------------------------------------------
(* The tree of the cells.  What moves, and what the pointers say, depends   *)
(* on the block and on the order in which the browser has sent the fields;  *)
(* the paths of the cells do not.  Read by paths a request is a tree, whose *)
(* nodes agree with each other about their places.                          *)

\* The cells that pointers lead to; the path of a cell, when b is the block and g are the paths
\* of its cells; a cell with paths for its pointers.
CellsOf(c) == {p \in Ptr : Leads(c, p)}
Trail(b, g, p) == CASE p = NULL -> <<>>
                    [] p.block = 0 /\ p # NULL -> <<p.i>>
                    [] p.block = b /\ p.i \in DOMAIN g -> g[p.i]
                    [] OTHER -> <<0>>
View(b, g, x) ==
  [kind   |-> x.kind, val |-> x.val,
   fields |-> IF x.kind \in {"SUBFORM", "ENTRY"} THEN [n \in Names |-> Trail(b, g, Field(x.ptr, n))] ELSE <<>>,
   ptr    |-> IF x.kind = "SUBFORMS" THEN Trail(b, g, x.ptr) ELSE <<>>,
   next   |-> IF x.kind = "ENTRY" THEN Trail(b, g, x.next) ELSE <<>>,
   parent |-> Trail(b, g, x.parent)]

Path == Seq(Nat) \ {<<>>}

\* The paths of the block are those of its cells, and no two cells have the same.
Named(c, g) ==
  /\ Ok(c) /\ g \in Seq(Path) /\ Len(g) = Len(c.subinputs)
  /\ \A i \in 1..Len(g) : Len(g[i]) >= 2
  /\ \A i, j \in 1..Len(g) : g[i] = g[j] => i = j

PathsOf(c, g) == {Trail(c.block, g, p) : p \in CellsOf(c)}
Tree(c, g) == [s \in PathsOf(c, g) |->
                 View(c.block, g, At(c, CHOOSE p \in CellsOf(c) : Trail(c.block, g, p) = s))]

-----------------------------------------------------------------------------
\* The path of a cell.
LEMMA TrailIs ==
  ASSUME NEW c, NEW g, Named(c, g)
  PROVE  /\ \A p \in Ptr : Somewhere(c, p) => Trail(c.block, g, p) \in Seq(Nat)
         /\ Trail(c.block, g, NULL) = <<>>
         /\ \A p \in CellsOf(c) : Trail(c.block, g, p) \in Path
         /\ \A n \in Names : Trail(c.block, g, [block |-> 0, i |-> n]) = <<n>>
         /\ \A i \in 1..Len(g) : Trail(c.block, g, [block |-> c.block, i |-> i]) = g[i]
         /\ \A p, q \in CellsOf(c) : Trail(c.block, g, p) = Trail(c.block, g, q) => p = q
<1> DEFINE b == c.block  t(p) == Trail(b, g, p)
<1>1. b \in Nat \ {0} /\ g \in Seq(Path) /\ Len(c.subinputs) = Len(g) /\ Len(g) \in Nat
      /\ DOMAIN g = 1..Len(g) /\ 0 \notin Names /\ Names \subseteq Nat
  BY InputsAssumption DEF Named, Ok, Context, Names
<1>2. t(NULL) = <<>>
  BY <1>1 DEF Trail, NULL
<1>3. ASSUME NEW p \in Ptr, p.block = 0, p.i \in Names PROVE t(p) = <<p.i>> /\ p # NULL
  BY <1>1, <1>3 DEF Trail, NULL
<1>4. ASSUME NEW p \in Ptr, p.block = b, p.i \in 1..Len(g) PROVE t(p) = g[p.i] /\ p # NULL
  BY <1>1, <1>4 DEF Trail, NULL
<1>5. \A i \in 1..Len(g) : g[i] \in Path /\ Len(g[i]) >= 2
  BY <1>1 DEF Named
<1>6. \A k \in Nat : <<k>> \in Path /\ Len(<<k>>) = 1
  BY DEF Path
<1> HIDE DEF t
<1>7. \A p \in CellsOf(c) : t(p) \in Path
  BY <1>1, <1>3, <1>4, <1>5, <1>6 DEF CellsOf, Leads
<1>8. ASSUME NEW p \in CellsOf(c), NEW q \in CellsOf(c), t(p) = t(q) PROVE p = q
  <2>1. p = [block |-> p.block, i |-> p.i] /\ q = [block |-> q.block, i |-> q.i]
    BY DEF CellsOf, Ptr
  <2>2. p.block = q.block /\ p.i = q.i
    <3>1. CASE p.block = 0 /\ q.block = 0
      <4>1. <<p.i>> = <<q.i>>
        BY <1>1, <1>3, <1>8, <3>1 DEF CellsOf, Leads
      <4> QED BY <3>1, <4>1
    <3>2. CASE p.block = 0 /\ q.block # 0
      <4>1. t(p) = <<p.i>> /\ p.i \in Nat /\ t(q) = g[q.i] /\ q.i \in 1..Len(g)
        BY <1>1, <1>3, <1>4, <3>2 DEF CellsOf, Leads
      <4>2. Len(t(p)) = 1 /\ Len(t(q)) >= 2
        BY <1>5, <1>6, <4>1
      <4> QED BY <1>8, <4>2
    <3>3. CASE p.block # 0 /\ q.block = 0
      <4>1. t(q) = <<q.i>> /\ q.i \in Nat /\ t(p) = g[p.i] /\ p.i \in 1..Len(g)
        BY <1>1, <1>3, <1>4, <3>3 DEF CellsOf, Leads
      <4>2. Len(t(q)) = 1 /\ Len(t(p)) >= 2
        BY <1>5, <1>6, <4>1
      <4> QED BY <1>8, <4>2
    <3>4. CASE p.block # 0 /\ q.block # 0
      <4>1. p.block = b /\ q.block = b /\ p.i \in 1..Len(g) /\ q.i \in 1..Len(g)
        BY <1>1, <3>4 DEF CellsOf, Leads
      <4>2. g[p.i] = g[q.i]
        BY <1>4, <1>8, <4>1 DEF CellsOf
      <4> QED BY <4>1, <4>2 DEF Named
    <3> QED BY <3>1, <3>2, <3>3, <3>4
  <2> QED BY <2>1, <2>2
<1>9. \A p \in Ptr : Somewhere(c, p) => t(p) \in Seq(Nat)
  <2>1. <<>> \in Seq(Nat) /\ \A s \in Path : s \in Seq(Nat)
    BY DEF Path
  <2> QED BY <1>2, <1>7, <2>1 DEF Somewhere, CellsOf
<1>10. \A n \in Names : t([block |-> 0, i |-> n]) = <<n>>
  <2> TAKE n \in Names
  <2>1. [block |-> 0, i |-> n] \in Ptr
    BY <1>1 DEF Ptr
  <2> QED BY <1>3, <2>1
<1>11. \A i \in 1..Len(g) : t([block |-> b, i |-> i]) = g[i]
  <2> TAKE i \in 1..Len(g)
  <2>1. [block |-> b, i |-> i] \in Ptr
    BY <1>1 DEF Ptr
  <2> QED BY <1>4, <2>1
<1> QED BY <1>2, <1>7, <1>8, <1>9, <1>10, <1>11 DEF t

\* The node of a cell.
LEMMA TreeAt ==
  ASSUME NEW c, NEW g, Named(c, g)
  PROVE  /\ DOMAIN Tree(c, g) = PathsOf(c, g) /\ PathsOf(c, g) \subseteq Path
         /\ \A p \in CellsOf(c) : /\ Trail(c.block, g, p) \in PathsOf(c, g)
                                  /\ Tree(c, g)[Trail(c.block, g, p)] = View(c.block, g, At(c, p))
<1> DEFINE t(p) == Trail(c.block, g, p)
<1>1. DOMAIN Tree(c, g) = PathsOf(c, g)
  BY DEF Tree
<1>2. \A p \in CellsOf(c) : t(p) \in Path
  BY TrailIs
<1>3. PathsOf(c, g) \subseteq Path
  BY <1>2 DEF PathsOf
<1>4. ASSUME NEW p \in CellsOf(c)
      PROVE  t(p) \in PathsOf(c, g) /\ Tree(c, g)[t(p)] = View(c.block, g, At(c, p))
  <2>1. t(p) \in PathsOf(c, g)
    BY DEF PathsOf
  <2> DEFINE q == CHOOSE q \in CellsOf(c) : t(q) = t(p)
  <2>2. q \in CellsOf(c) /\ t(q) = t(p)
    OBVIOUS
  <2>3. q = p
    BY <2>2, TrailIs
  <2>4. Tree(c, g)[t(p)] = View(c.block, g, At(c, q))
    BY <2>1 DEF Tree
  <2> HIDE DEF q
  <2> QED BY <2>1, <2>3, <2>4
<1> QED BY <1>1, <1>3, <1>4

\* The fields of a record and the entries of a list are somewhere.
LEMMA PointersLead ==
  ASSUME NEW c, Ok(c), NEW x \in CellT, CellOk(c, x)
  PROVE  /\ x.ptr \in Ptr /\ x.next \in Ptr /\ x.parent \in Ptr /\ Somewhere(c, x.parent)
         /\ x.kind \in {"SUBFORM", "ENTRY"} => \A n \in Names : Field(x.ptr, n) \in CellsOf(c)
         /\ x.kind = "SUBFORMS" => Somewhere(c, x.ptr)
         /\ x.kind = "ENTRY" => Somewhere(c, x.next)
<1>1. x.ptr \in Ptr /\ x.next \in Ptr /\ x.parent \in Ptr /\ Somewhere(c, x.parent)
  BY DEF CellT, CellOk
<1>2. ASSUME x.kind \in {"SUBFORM", "ENTRY"}, NEW n \in Names PROVE Field(x.ptr, n) \in CellsOf(c)
  BY <1>1, <1>2, FieldLeads DEF CellOk, CellsOf
<1>3. \A p : IsEntry(c, p) => Somewhere(c, p)
  BY DEF IsEntry, Somewhere, Leads
<1> QED BY <1>1, <1>2, <1>3 DEF CellOk

\* Paths that are kept by the cells a view names are kept by the view.
LEMMA ViewSame ==
  ASSUME NEW c, Ok(c), NEW x \in CellT, CellOk(c, x), NEW b, NEW g, NEW a, NEW h,
         \A p \in Ptr : Somewhere(c, p) => Trail(a, h, p) = Trail(b, g, p)
  PROVE  View(a, h, x) = View(b, g, x)
<1>1. Trail(a, h, x.parent) = Trail(b, g, x.parent)
  BY PointersLead
<1>2. x.kind = "SUBFORMS" => Trail(a, h, x.ptr) = Trail(b, g, x.ptr)
  BY PointersLead
<1>3. x.kind = "ENTRY" => Trail(a, h, x.next) = Trail(b, g, x.next)
  BY PointersLead
<1>4. ASSUME x.kind \in {"SUBFORM", "ENTRY"}
      PROVE  [n \in Names |-> Trail(a, h, Field(x.ptr, n))] = [n \in Names |-> Trail(b, g, Field(x.ptr, n))]
  <2>1. \A n \in Names : Trail(a, h, Field(x.ptr, n)) = Trail(b, g, Field(x.ptr, n))
    BY <1>4, PointersLead DEF CellsOf, Somewhere
  <2> QED BY <2>1, Zenon
<1> QED BY <1>1, <1>2, <1>3, <1>4 DEF View

-----------------------------------------------------------------------------
(* What writing a cell, going to another place, a larger block and another block do.        *)

Written(T, s, y) == [T EXCEPT ![s] = y]

Writes(c, g, p, x, d) ==
  /\ Named(c, g) /\ p \in CellsOf(c) /\ x \in CellT /\ CellOk(c, x)
  /\ At(c, p).kind = "ENTRY" => x.kind = "ENTRY"
  /\ d = Set(c, p, x)

LEMMA TreeSet ==
  ASSUME NEW c, NEW g, NEW p, NEW x, NEW d, Writes(c, g, p, x, d)
  PROVE  /\ Named(d, g) /\ d.cur_container = c.cur_container /\ d.block = c.block
         /\ CellsOf(d) = CellsOf(c) /\ PathsOf(d, g) = PathsOf(c, g)
         /\ At(d, p) = x /\ \A q \in CellsOf(c) : q # p => At(d, q) = At(c, q)
         /\ Tree(d, g) = Written(Tree(c, g), Trail(c.block, g, p), View(c.block, g, x))
<1> DEFINE s == Trail(c.block, g, p)  y == View(c.block, g, x)
<1>0. Named(c, g) /\ p \in CellsOf(c) /\ x \in CellT /\ CellOk(c, x) /\ d = Set(c, p, x)
      /\ (At(c, p).kind = "ENTRY" => x.kind = "ENTRY")
  BY DEF Writes
<1>1. Ok(c) /\ p \in Ptr /\ Leads(c, p)
  BY <1>0 DEF Named, CellsOf
<1>2. /\ Ok(d) /\ d.cur_container = c.cur_container /\ d.block = c.block
      /\ Len(d.subinputs) = Len(c.subinputs) /\ At(d, p) = x
      /\ \A q \in Ptr : Leads(c, q) /\ q # p => At(d, q) = At(c, q)
  BY <1>0, <1>1, SetOk
<1>3. CellsOf(d) = CellsOf(c)
  BY <1>2 DEF CellsOf, Leads
<1>4. Named(d, g)
  BY <1>0, <1>2 DEF Named
<1>5. PathsOf(d, g) = PathsOf(c, g)
  BY <1>2, <1>3 DEF PathsOf
<1> DEFINE t(q) == Trail(c.block, g, q)
<1>6. DOMAIN Tree(d, g) = PathsOf(c, g) /\ DOMAIN Tree(c, g) = PathsOf(c, g)
  BY <1>0, <1>4, <1>5, TreeAt
<1>7. ASSUME NEW r \in PathsOf(c, g)
      PROVE  Tree(d, g)[r] = IF r = s THEN y ELSE Tree(c, g)[r]
  <2>1. PICK q \in CellsOf(c) : r = t(q)
    BY DEF PathsOf
  <2>2. Tree(d, g)[r] = View(c.block, g, At(d, q)) /\ Tree(c, g)[r] = View(c.block, g, At(c, q))
    BY <1>0, <1>2, <1>3, <1>4, <2>1, TreeAt
  <2>3. CASE q = p
    BY <1>2, <2>1, <2>2, <2>3
  <2>4. CASE q # p
    <3>1. r # s
      BY <1>0, <2>1, <2>4, TrailIs
    <3>2. At(d, q) = At(c, q)
      BY <1>2, <2>4 DEF CellsOf
    <3> QED BY <2>2, <3>1, <3>2
  <2> QED BY <2>3, <2>4
<1>8. Tree(d, g) = Written(Tree(c, g), s, y)
  <2> DEFINE old == Tree(c, g)  now == Tree(d, g)
  <2>1. DOMAIN now = DOMAIN old /\ \A r \in DOMAIN old : now[r] = IF r = s THEN y ELSE old[r]
    BY <1>6, <1>7
  <2>2. now = [r \in DOMAIN now |-> now[r]]
    BY DEF Tree
  <2> HIDE DEF old, now, s, y
  <2>3. now = [old EXCEPT ![s] = y]
    BY <2>1, <2>2
  <2> QED BY <2>3 DEF old, now, s, y, Written
<1> QED BY <1>2, <1>3, <1>4, <1>5, <1>8 DEF CellsOf

Goes(c, g, p, d) == Named(c, g) /\ p \in Ptr /\ Somewhere(c, p) /\ d = [c EXCEPT !.cur_container = p]

LEMMA TreePlace ==
  ASSUME NEW c, NEW g, NEW p, NEW d, Goes(c, g, p, d)
  PROVE  /\ Named(d, g) /\ d.cur_container = p /\ d.block = c.block
         /\ CellsOf(d) = CellsOf(c) /\ PathsOf(d, g) = PathsOf(c, g) /\ Tree(d, g) = Tree(c, g)
<1>0. Named(c, g) /\ Ok(c)
  BY DEF Goes, Named
<1>1. Ok(d) /\ d.cur_container = p
  BY <1>0, PlaceOk DEF Goes
<1>2. d.inputs = c.inputs /\ d.subinputs = c.subinputs /\ d.block = c.block
  BY <1>0 DEF Goes, Ok, Context
<1>3. CellsOf(d) = CellsOf(c)
  BY <1>2 DEF CellsOf, Leads
<1>4. Named(d, g)
  BY <1>0, <1>1, <1>2 DEF Named
<1>5. PathsOf(d, g) = PathsOf(c, g)
  BY <1>2, <1>3 DEF PathsOf
<1>6. \A q : At(d, q) = At(c, q)
  BY <1>2 DEF At
<1>7. Tree(d, g) = Tree(c, g)
  BY <1>2, <1>3, <1>5, <1>6 DEF Tree
<1> QED BY <1>1, <1>2, <1>3, <1>4, <1>5, <1>7

Blank == [kind |-> "UNSET", val |-> None, fields |-> <<>>, ptr |-> <<>>, next |-> <<>>, parent |-> <<>>]
Extend(T, S) == [s \in DOMAIN T \cup S |-> IF s \in DOMAIN T THEN T[s] ELSE Blank]

NewPaths(c, g, h) ==
  /\ h \in Seq(Path)
  /\ \A i \in 1..Len(h) : Len(h[i]) >= 2 /\ h[i] \notin PathsOf(c, g)
  /\ \A i, j \in 1..Len(h) : h[i] = h[j] => i = j

\* More cells: their paths are new, and they are blank.
LEMMA TreeGrow ==
  ASSUME NEW c, NEW g, Named(c, g), NEW h, NewPaths(c, g, h), NEW d, d = Grow(c, Len(h))
  PROVE  /\ Named(d, g \o h) /\ d.cur_container = c.cur_container /\ d.block = c.block
         /\ Len(d.subinputs) = Len(c.subinputs) + Len(h)
         /\ \A p \in Ptr : Somewhere(c, p) => Trail(c.block, g \o h, p) = Trail(c.block, g, p)
         /\ CellsOf(c) \subseteq CellsOf(d)
         /\ Tree(d, g \o h) = Extend(Tree(c, g), ToSet(h))
<1> DEFINE k == g \o h  b == c.block  n == Len(g)
<1>1. g \in Seq(Path) /\ Len(c.subinputs) = n /\ Len(h) \in Nat /\ n \in Nat /\ Ok(c) /\ b \in Nat \ {0}
  BY DEF Named, Ok, Context, NewPaths
<1>0. /\ h \in Seq(Path) /\ \A i \in 1..Len(h) : Len(h[i]) >= 2 /\ h[i] \notin PathsOf(c, g)
      /\ \A i, j \in 1..Len(h) : h[i] = h[j] => i = j
  BY DEF NewPaths
<1>2. /\ Ok(d) /\ d.cur_container = c.cur_container /\ d.block = c.block
      /\ Len(d.subinputs) = n + Len(h)
      /\ \A q \in Ptr : Leads(c, q) => Leads(d, q) /\ At(d, q) = At(c, q)
      /\ \A i \in n + 1 .. n + Len(h) : d.subinputs[i] = Unset
  BY <1>1, GrowOk
<1>3. /\ k \in Seq(Path) /\ Len(k) = n + Len(h)
      /\ \A i \in 1..n : k[i] = g[i]
      /\ \A i \in 1..Len(h) : k[n + i] = h[i]
  BY <1>0, <1>1
<1> HIDE DEF k
<1>4. \A i \in 1..Len(k) : i \in 1..n \/ (i - n \in 1..Len(h) /\ k[i] = h[i - n] /\ i = n + (i - n))
  <2> TAKE i \in 1..Len(k)
  <2>1. CASE i <= n
    BY <1>1, <2>1
  <2>2. CASE i > n
    <3>1. i - n \in 1..Len(h) /\ i = n + (i - n)
      BY <1>1, <1>3, <2>2
    <3> QED BY <1>3, <3>1
  <2> QED BY <1>1, <2>1, <2>2
<1>5. \A i \in 1..n : g[i] \in PathsOf(c, g)
  <2> TAKE i \in 1..n
  <2>1. [block |-> b, i |-> i] \in CellsOf(c)
    BY <1>1 DEF CellsOf, Ptr, Leads
  <2>2. Trail(b, g, [block |-> b, i |-> i]) = g[i]
    BY TrailIs
  <2> QED BY <2>1, <2>2 DEF PathsOf
<1>6. \A i, j \in 1..Len(k) : k[i] = k[j] => i = j
  <2> SUFFICES ASSUME NEW i \in 1..Len(k), NEW j \in 1..Len(k), k[i] = k[j] PROVE i = j
    OBVIOUS
  <2>1. CASE i \in 1..n /\ j \in 1..n
    BY <1>3, <2>1 DEF Named
  <2>2. CASE i \in 1..n /\ j \notin 1..n
    <3>1. k[i] \in PathsOf(c, g)
      BY <1>3, <1>5, <2>2
    <3>2. j - n \in 1..Len(h) /\ k[j] = h[j - n]
      BY <1>4, <2>2
    <3> QED BY <1>0, <1>1, <3>1, <3>2
  <2>3. CASE i \notin 1..n /\ j \in 1..n
    <3>1. k[j] \in PathsOf(c, g)
      BY <1>3, <1>5, <2>3
    <3>2. i - n \in 1..Len(h) /\ k[i] = h[i - n]
      BY <1>4, <2>3
    <3> QED BY <1>0, <1>1, <3>1, <3>2
  <2>4. CASE i \notin 1..n /\ j \notin 1..n
    <3>1. /\ i - n \in 1..Len(h) /\ k[i] = h[i - n] /\ i = n + (i - n)
          /\ j - n \in 1..Len(h) /\ k[j] = h[j - n] /\ j = n + (j - n)
      BY <1>4, <2>4
    <3>2. \A a, b0 \in 1..Len(h) : h[a] = h[b0] => a = b0
      BY <1>0
    <3>3. h[i - n] = h[j - n]
      BY <3>1
    <3>4. i - n = j - n
      BY <3>1, <3>2, <3>3
    <3> QED BY <3>1, <3>4
  <2> QED BY <2>1, <2>2, <2>3, <2>4
<1>7. \A i \in 1..Len(k) : Len(k[i]) >= 2
  BY <1>0, <1>1, <1>3, <1>4 DEF Named
<1>8. Named(d, k)
  BY <1>2, <1>3, <1>6, <1>7 DEF Named
<1>9. ASSUME NEW p \in Ptr, Somewhere(c, p) PROVE Trail(b, k, p) = Trail(b, g, p)
  <2>1. 1..n \subseteq 1..Len(k) /\ DOMAIN k = 1..Len(k) /\ DOMAIN g = 1..n
    BY <1>1, <1>3
  <2>2. CASE p = NULL
    BY <1>1, <1>8, <2>2, TrailIs, <1>2
  <2>3. CASE p.block = 0 /\ p.i \in Names
    <3>1. p # NULL /\ p.block # b
      BY <1>1, <2>3, InputsAssumption DEF NULL, Names
    <3> QED BY <2>3, <3>1 DEF Trail
  <2>4. CASE p.block = b /\ p.i \in 1..n
    <3>1. p.block # 0 /\ p # NULL
      BY <1>1, <2>4 DEF NULL
    <3> QED BY <1>3, <2>1, <2>4, <3>1 DEF Trail
  <2> QED BY <1>1, <1>9, <2>2, <2>3, <2>4 DEF Somewhere, Leads
<1>10. CellsOf(c) \subseteq CellsOf(d)
  BY <1>2 DEF CellsOf
<1>11. ASSUME NEW p \in CellsOf(c)
       PROVE  Trail(b, k, p) = Trail(b, g, p) /\ View(b, k, At(d, p)) = View(b, g, At(c, p))
  <2>1. At(d, p) = At(c, p) /\ At(c, p) \in CellT /\ CellOk(c, At(c, p))
    BY <1>1, <1>2, AtCell DEF CellsOf
  <2>2. Trail(b, k, p) = Trail(b, g, p)
    BY <1>9 DEF CellsOf, Somewhere
  <2> QED BY <1>1, <1>9, <2>1, <2>2, ViewSame
<1>12. ASSUME NEW i \in 1..Len(h)
       PROVE  LET p == [block |-> b, i |-> n + i]
              IN  p \in CellsOf(d) /\ Trail(b, k, p) = h[i] /\ View(b, k, At(d, p)) = Blank
  <2> DEFINE p == [block |-> b, i |-> n + i]
  <2>1. n + i \in 1..Len(k) /\ n + i \in n + 1 .. n + Len(h)
    BY <1>1, <1>3
  <2>2. p \in CellsOf(d)
    BY <1>1, <1>2, <1>3, <2>1 DEF CellsOf, Ptr, Leads
  <2>3. Trail(b, k, p) = h[i]
    BY <1>2, <1>3, <1>8, <2>1, TrailIs
  <2>4. DOMAIN d.subinputs = 1..Len(k)
    BY <1>2, <1>3 DEF Ok, Context
  <2>5. At(d, p) = Unset
    BY <1>1, <1>2, <2>1, <2>4 DEF At
  <2>6. Trail(b, k, NULL) = <<>>
    BY <1>2, <1>8, TrailIs
  <2>7. View(b, k, Unset) = Blank
    BY <2>6 DEF View, Unset, Cell, Blank
  <2> QED BY <2>2, <2>3, <2>5, <2>7
<1>13. ASSUME NEW p \in CellsOf(d), p \notin CellsOf(c) PROVE \E i \in 1..Len(h) : p = [block |-> b, i |-> n + i]
  <2>1. p.block = b /\ p.i \in 1..n + Len(h) /\ p.i \notin 1..n /\ p = [block |-> p.block, i |-> p.i] /\ p.i \in Nat
    BY <1>1, <1>2, <1>13 DEF CellsOf, Leads, Ptr
  <2>2. p.i - n \in 1..Len(h) /\ n + (p.i - n) = p.i
    BY <1>1, <2>1
  <2> QED BY <2>1, <2>2
<1> DEFINE S == {h[i] : i \in 1..Len(h)}
<1>14. PathsOf(d, k) = PathsOf(c, g) \cup S
  <2>1. PathsOf(d, k) \subseteq PathsOf(c, g) \cup S
    <3> SUFFICES ASSUME NEW p \in CellsOf(d) PROVE Trail(b, k, p) \in PathsOf(c, g) \cup S
      BY <1>2 DEF PathsOf
    <3>1. CASE p \in CellsOf(c)
      BY <1>11, <3>1 DEF PathsOf
    <3>2. CASE p \notin CellsOf(c)
      BY <1>12, <1>13, <3>2
    <3> QED BY <3>1, <3>2
  <2>2. PathsOf(c, g) \subseteq PathsOf(d, k)
    BY <1>2, <1>10, <1>11 DEF PathsOf
  <2>3. S \subseteq PathsOf(d, k)
    <3> SUFFICES ASSUME NEW i \in 1..Len(h) PROVE h[i] \in PathsOf(d, k)
      OBVIOUS
    <3>1. PICK p \in CellsOf(d) : Trail(b, k, p) = h[i]
      BY <1>12
    <3> QED BY <1>2, <3>1 DEF PathsOf
  <2> QED BY <2>1, <2>2, <2>3
<1>15. DOMAIN Tree(d, k) = PathsOf(c, g) \cup S /\ DOMAIN Tree(c, g) = PathsOf(c, g)
  BY <1>8, <1>14, TreeAt
<1>16. ASSUME NEW s \in PathsOf(c, g) PROVE Tree(d, k)[s] = Tree(c, g)[s]
  <2>1. PICK p \in CellsOf(c) : s = Trail(b, g, p)
    BY DEF PathsOf
  <2>2. Tree(c, g)[s] = View(b, g, At(c, p))
    BY <2>1, TreeAt
  <2>3. p \in CellsOf(d) /\ s = Trail(b, k, p)
    BY <1>10, <1>11, <2>1
  <2>4. Tree(d, k)[s] = View(b, k, At(d, p))
    BY <1>2, <1>8, <2>3, TreeAt
  <2> QED BY <1>11, <2>2, <2>4
<1>17. ASSUME NEW s \in S PROVE Tree(d, k)[s] = Blank /\ s \notin PathsOf(c, g)
  <2>1. PICK i \in 1..Len(h) : s = h[i]
    OBVIOUS
  <2>2. PICK p \in CellsOf(d) : s = Trail(b, k, p) /\ View(b, k, At(d, p)) = Blank
    BY <1>12, <2>1
  <2> QED BY <1>0, <1>1, <1>2, <1>8, <2>1, <2>2, TreeAt
<1>18. Tree(d, k) = Extend(Tree(c, g), S)
  <2> DEFINE now == Tree(d, k)  old == Tree(c, g)
  <2>1. now = [s \in DOMAIN now |-> now[s]]
    BY DEF Tree
  <2>2. DOMAIN now = DOMAIN old \cup S /\ \A s \in DOMAIN old \cup S : now[s] = IF s \in DOMAIN old THEN old[s] ELSE Blank
    BY <1>15, <1>16, <1>17
  <2> HIDE DEF now, old, S
  <2>3. now = Extend(old, S)
    BY <2>1, <2>2 DEF Extend
  <2> QED BY <2>3 DEF now, old
<1>19. S = ToSet(h)
  BY <1>0 DEF ToSet
<1> HIDE DEF S
<1> QED BY <1>2, <1>1, <1>8, <1>9, <1>10, <1>18, <1>19 DEF k

\* Another block: the pointers of the cells go with it, and no path changes.
LEMMA TreeMoved ==
  ASSUME NEW c, NEW g, Named(c, g)
  PROVE  LET d == Moved(c)
         IN /\ Named(d, g) /\ PathsOf(d, g) = PathsOf(c, g) /\ Tree(d, g) = Tree(c, g)
            /\ Trail(d.block, g, d.cur_container) = Trail(c.block, g, c.cur_container)
<1> DEFINE d == Moved(c)  b == c.block  new == c.block + 1  used == Len(c.subinputs)
           Ap(p) == AdjustPointer(p, b, new, used)
           Ai(x) == AdjustInput(x, b, new, used)
<1>1. /\ Ok(c) /\ b \in Nat \ {0} /\ used \in Nat /\ Len(g) = used /\ DOMAIN g = 1..used /\ g \in Seq(Path)
      /\ c.cur_container \in Ptr /\ Somewhere(c, c.cur_container)
  BY DEF Named, Ok, Context
<1>2. /\ Ok(d) /\ Len(d.subinputs) = used /\ d.block = new
      /\ \A q \in Ptr : Leads(c, q) => Leads(d, Ap(q)) /\ At(d, Ap(q)) = Ai(At(c, q))
      /\ d.cur_container = Ap(c.cur_container)
  BY <1>1, MovedOk
<1>3. Named(d, g)
  BY <1>1, <1>2 DEF Named
<1>4. \A p \in Ptr : /\ Ap(p) \in Ptr /\ Ap(p).i = p.i
                     /\ p.block = b /\ p.i \in 1..used => Ap(p).block = new
                     /\ ~(p.block = b /\ p.i \in 1..used) => Ap(p) = p
  BY <1>1, AdjustPointerIs
<1> HIDE DEF d, Ap
<1>5. ASSUME NEW p \in Ptr, Somewhere(c, p) PROVE Trail(new, g, Ap(p)) = Trail(b, g, p)
  <2>1. CASE p = NULL
    <3>1. Ap(p) = NULL
      BY <1>1, <1>4, <2>1 DEF NULL
    <3> QED BY <1>2, <1>3, <2>1, <3>1, TrailIs
  <2>2. CASE p.block = 0 /\ p.i \in Names
    <3>1. Ap(p) = p /\ p # NULL /\ p.block # b /\ p.block # new
      BY <1>1, <1>4, <2>2, InputsAssumption DEF NULL, Names
    <3> QED BY <2>2, <3>1 DEF Trail
  <2>3. CASE p.block = b /\ p.i \in 1..used
    <3>1. /\ Ap(p).block = new /\ Ap(p).i = p.i /\ Ap(p) # NULL /\ Ap(p).block # 0
          /\ p # NULL /\ p.block # 0
      BY <1>1, <1>4, <2>3 DEF NULL
    <3> QED BY <1>1, <2>3, <3>1 DEF Trail
  <2> QED BY <1>5, <2>1, <2>2, <2>3 DEF Somewhere, Leads
<1>6. ASSUME NEW p \in Ptr, HoldsRecord(c, p), NEW n \in Names
      PROVE  Field(Ap(p), n) = Ap(Field(p, n))
  <2>1. p.block = b /\ p.i \in 1..used /\ p.i + n - 1 \in 1..used /\ p.i \in Nat /\ n \in Nat
    <3>1. p.i \in Nat /\ n \in Nat /\ 1 <= n /\ n <= Fields /\ Fields \in Nat
      BY InputsAssumption DEF Ptr, Names
    <3> QED BY <1>1, <1>6, <3>1 DEF HoldsRecord
  <2>2. Field(p, n) = [block |-> b, i |-> p.i + n - 1] /\ Field(p, n) \in Ptr
    BY <2>1 DEF Field, Ptr
  <2>3. Ap(p) = [block |-> new, i |-> p.i]
    BY <1>4, <2>1 DEF Ptr
  <2>4. Field(Ap(p), n) = [block |-> new, i |-> p.i + n - 1]
    BY <2>3 DEF Field
  <2>5. Ap(Field(p, n)) = [block |-> new, i |-> p.i + n - 1]
    <3>1. Ap(Field(p, n)).block = new /\ Ap(Field(p, n)).i = p.i + n - 1 /\ Ap(Field(p, n)) \in Ptr
      BY <1>4, <2>1, <2>2
    <3> QED BY <3>1 DEF Ptr
  <2> QED BY <2>4, <2>5
<1>7. ASSUME NEW x \in CellT, CellOk(c, x) PROVE View(new, g, Ai(x)) = View(b, g, x)
  <2>1. /\ Ai(x).kind = x.kind /\ Ai(x).val = x.val
        /\ x.kind \in {"UNSET", "NORMAL", "FIL"} => Ai(x) = x
        /\ x.kind \in {"SUBFORM", "SUBFORMS", "ENTRY"} => Ai(x).ptr = Ap(x.ptr) /\ Ai(x).parent = Ap(x.parent)
        /\ x.kind = "ENTRY" => Ai(x).next = Ap(x.next)
    BY <1>1, AdjustInputIs DEF Ap
  <2> HIDE DEF Ai
  <2>2. /\ x.ptr \in Ptr /\ x.next \in Ptr /\ x.parent \in Ptr /\ Somewhere(c, x.parent)
        /\ x.kind \in {"SUBFORM", "ENTRY"} => \A n \in Names : Field(x.ptr, n) \in CellsOf(c)
        /\ x.kind = "SUBFORMS" => Somewhere(c, x.ptr)
        /\ x.kind = "ENTRY" => Somewhere(c, x.next)
    BY <1>1, <1>7, PointersLead
  <2>3. Trail(new, g, Ai(x).parent) = Trail(b, g, x.parent)
    <3>1. CASE x.kind \in {"UNSET", "NORMAL", "FIL"}
      <4>1. Ai(x).parent = NULL /\ x.parent = NULL
        BY <1>7, <2>1, <3>1 DEF CellOk
      <4> QED BY <1>2, <1>3, <4>1, TrailIs
    <3>2. CASE x.kind \in {"SUBFORM", "SUBFORMS", "ENTRY"}
      BY <1>5, <2>1, <2>2, <3>2
    <3> QED BY <3>1, <3>2 DEF CellT
  <2>4. x.kind = "SUBFORMS" => Trail(new, g, Ai(x).ptr) = Trail(b, g, x.ptr)
    BY <1>5, <2>1, <2>2
  <2>5. x.kind = "ENTRY" => Trail(new, g, Ai(x).next) = Trail(b, g, x.next)
    BY <1>5, <2>1, <2>2
  <2>6. ASSUME x.kind \in {"SUBFORM", "ENTRY"}
        PROVE  [n \in Names |-> Trail(new, g, Field(Ai(x).ptr, n))] = [n \in Names |-> Trail(b, g, Field(x.ptr, n))]
    <3>1. ASSUME NEW n \in Names PROVE Trail(new, g, Field(Ai(x).ptr, n)) = Trail(b, g, Field(x.ptr, n))
      <4>1. Field(Ai(x).ptr, n) = Ap(Field(x.ptr, n))
        BY <1>6, <1>7, <2>1, <2>2, <2>6 DEF CellOk
      <4>2. Field(x.ptr, n) \in Ptr /\ Somewhere(c, Field(x.ptr, n))
        BY <2>2, <2>6 DEF CellsOf, Somewhere
      <4> QED BY <1>5, <4>1, <4>2
    <3> QED BY <3>1, Zenon
  <2> QED BY <2>1, <2>3, <2>4, <2>5, <2>6 DEF View
<1>8. ASSUME NEW p \in CellsOf(c)
      PROVE  /\ Ap(p) \in CellsOf(d) /\ Trail(new, g, Ap(p)) = Trail(b, g, p)
             /\ View(new, g, At(d, Ap(p))) = View(b, g, At(c, p))
  <2>1. p \in Ptr /\ Leads(c, p) /\ Somewhere(c, p)
    BY DEF CellsOf, Somewhere
  <2>2. At(c, p) \in CellT /\ CellOk(c, At(c, p))
    BY <1>1, <2>1, AtCell
  <2>3. Ap(p) \in CellsOf(d) /\ At(d, Ap(p)) = Ai(At(c, p))
    BY <1>2, <1>4, <2>1 DEF CellsOf
  <2> HIDE DEF Ai
  <2> QED BY <1>5, <1>7, <2>1, <2>2, <2>3
<1>9. ASSUME NEW q \in CellsOf(d) PROVE \E p \in CellsOf(c) : q = Ap(p)
  <2>1. q \in Ptr /\ Leads(d, q) /\ q = [block |-> q.block, i |-> q.i] /\ q.i \in Nat
    BY DEF CellsOf, Ptr
  <2>2. CASE q.block = 0 /\ q.i \in Names
    <3>1. q \in CellsOf(c)
      BY <2>1, <2>2 DEF CellsOf, Leads
    <3>2. Ap(q) = q
      BY <1>1, <1>4, <2>1, <2>2
    <3> QED BY <3>1, <3>2
  <2>3. CASE q.block = new /\ q.i \in 1..used
    <3> DEFINE p == [block |-> b, i |-> q.i]
    <3>1. p \in Ptr /\ p.block = b /\ p.i = q.i /\ p \in CellsOf(c)
      BY <1>1, <2>1, <2>3 DEF CellsOf, Leads, Ptr
    <3>2. Ap(p) \in Ptr /\ Ap(p).block = new /\ Ap(p).i = q.i
      BY <1>4, <2>3, <3>1
    <3>3. Ap(p) = q
      BY <2>1, <2>3, <3>2 DEF Ptr
    <3> QED BY <3>1, <3>3
  <2> QED BY <1>2, <2>1, <2>2, <2>3 DEF Leads
<1>10. PathsOf(d, g) = PathsOf(c, g)
  <2>1. PathsOf(d, g) = {Trail(new, g, q) : q \in CellsOf(d)}
    BY <1>2 DEF PathsOf
  <2> QED BY <1>8, <1>9, <2>1 DEF PathsOf
<1>11. ASSUME NEW s \in PathsOf(c, g) PROVE Tree(d, g)[s] = Tree(c, g)[s]
  <2>1. PICK p \in CellsOf(c) : s = Trail(b, g, p)
    BY DEF PathsOf
  <2>2. Tree(c, g)[s] = View(b, g, At(c, p))
    BY <2>1, TreeAt
  <2>3. Tree(d, g)[s] = View(new, g, At(d, Ap(p)))
    BY <1>2, <1>3, <1>8, <2>1, TreeAt
  <2> QED BY <1>8, <2>2, <2>3
<1>12. Tree(d, g) = Tree(c, g)
  <2> DEFINE now == Tree(d, g)  old == Tree(c, g)
  <2>1. now = [s \in DOMAIN now |-> now[s]] /\ old = [s \in DOMAIN old |-> old[s]]
    BY DEF Tree
  <2>2. DOMAIN now = DOMAIN old /\ \A s \in DOMAIN old : now[s] = old[s]
    BY <1>3, <1>10, <1>11, TreeAt
  <2> HIDE DEF now, old
  <2>3. now = old
    BY <2>1, <2>2
  <2> QED BY <2>3 DEF now, old
<1>13. Trail(d.block, g, d.cur_container) = Trail(b, g, c.cur_container)
  BY <1>1, <1>2, <1>5
<1> QED BY <1>3, <1>10, <1>12, <1>13 DEF d

\* uw_check_input_space: new blank cells, and everything else is where it was.
Spaced(c, g, h, d) == Named(c, g) /\ NewPaths(c, g, h) /\ d \in CheckInputSpace(c, Len(h))

LEMMA TreeSpace ==
  ASSUME NEW c, NEW g, NEW h, NEW d, Spaced(c, g, h, d)
  PROVE  /\ Named(d, g \o h) /\ Len(d.subinputs) = Len(c.subinputs) + Len(h)
         /\ Trail(d.block, g \o h, d.cur_container) = Trail(c.block, g, c.cur_container)
         /\ Tree(d, g \o h) = Extend(Tree(c, g), ToSet(h))
<1>0. Named(c, g) /\ NewPaths(c, g, h) /\ d \in CheckInputSpace(c, Len(h))
  BY DEF Spaced
<1>1. ASSUME NEW e, Named(e, g), PathsOf(e, g) = PathsOf(c, g), Tree(e, g) = Tree(c, g),
             Len(e.subinputs) = Len(c.subinputs),
             Trail(e.block, g, e.cur_container) = Trail(c.block, g, c.cur_container), d = Grow(e, Len(h))
      PROVE  /\ Named(d, g \o h) /\ Len(d.subinputs) = Len(c.subinputs) + Len(h)
             /\ Trail(d.block, g \o h, d.cur_container) = Trail(c.block, g, c.cur_container)
             /\ Tree(d, g \o h) = Extend(Tree(c, g), ToSet(h))
  <2>0. NewPaths(e, g, h)
    BY <1>0, <1>1 DEF NewPaths
  <2>1. /\ Named(d, g \o h) /\ d.cur_container = e.cur_container /\ d.block = e.block
        /\ Len(d.subinputs) = Len(e.subinputs) + Len(h)
        /\ \A p \in Ptr : Somewhere(e, p) => Trail(e.block, g \o h, p) = Trail(e.block, g, p)
        /\ Tree(d, g \o h) = Extend(Tree(e, g), ToSet(h))
    BY <1>1, <2>0, TreeGrow
  <2>2. e.cur_container \in Ptr /\ Somewhere(e, e.cur_container)
    BY <1>1 DEF Named, Ok, Context
  <2> QED BY <1>1, <2>1, <2>2
<1>2. CASE d = Grow(c, Len(h))
  BY <1>0, <1>1, <1>2
<1>3. CASE d = Grow(Moved(c), Len(h))
  <2>1. Len(Moved(c).subinputs) = Len(c.subinputs)
    BY <1>0, MovedOk DEF Named
  <2> QED BY <1>0, <1>1, <1>3, <2>1, TreeMoved
<1> QED BY <1>0, <1>2, <1>3 DEF CheckInputSpace

-----------------------------------------------------------------------------
(* Paths.                                                                   *)

LEMMA Paths ==
  ASSUME NEW s \in Seq(Nat), NEW n \in Nat
  PROVE  /\ Append(s, n) \in Path /\ Append(s, n) # s /\ Len(Append(s, n)) = Len(s) + 1
         /\ Front(Append(s, n)) = s /\ Last(Append(s, n)) = n
BY DEF Path, Front, Last

LEMMA Unappend ==
  ASSUME NEW s \in Path
  PROVE  Front(s) \in Seq(Nat) /\ Last(s) \in Nat /\ s = Append(Front(s), Last(s))
<1>1. s \in Seq(Nat) /\ Len(s) \in Nat /\ Len(s) >= 1 /\ Front(s) = SubSeq(s, 1, Len(s) - 1) /\ Last(s) = s[Len(s)]
  BY DEF Path, Front, Last
<1>2. Front(s) \in Seq(Nat) /\ Len(Front(s)) = Len(s) - 1 /\ \A i \in 1 .. Len(s) - 1 : Front(s)[i] = s[i]
  <2>1. ASSUME NEW r \in Seq(Nat), NEW k \in Nat, k <= Len(r)
        PROVE  SubSeq(r, 1, k) \in Seq(Nat) /\ Len(SubSeq(r, 1, k)) = k /\ \A i \in 1..k : SubSeq(r, 1, k)[i] = r[i]
    BY <2>1
  <2>2. Len(s) - 1 \in Nat /\ Len(s) - 1 <= Len(s)
    BY <1>1
  <2>3. PICK k \in Nat : k = Len(s) - 1 /\ k <= Len(s)
    BY <2>2
  <2>4. SubSeq(s, 1, k) \in Seq(Nat) /\ Len(SubSeq(s, 1, k)) = k /\ \A i \in 1..k : SubSeq(s, 1, k)[i] = s[i]
    BY <1>1, <2>1, <2>3
  <2> QED BY <1>1, <2>3, <2>4
<1>3. Last(s) \in Nat
  BY <1>1
<1> DEFINE t == Append(Front(s), Last(s))
<1>4. t \in Seq(Nat) /\ Len(t) = Len(s) /\ \A i \in 1..Len(s) : t[i] = s[i]
  BY <1>1, <1>2, <1>3
<1> HIDE DEF t
<1>5. t = s
  <2>1. s = [i \in 1..Len(s) |-> s[i]] /\ t = [i \in 1..Len(t) |-> t[i]]
    BY <1>1, <1>4
  <2> QED BY <1>4, <2>1
<1> QED BY <1>2, <1>3, <1>5 DEF t

LEMMA OneIsAppend == ASSUME NEW n \in Nat PROVE <<n>> = Append(<<>>, n) /\ <<n>> \in Path /\ Front(<<n>>) = <<>>
BY DEF Path, Front

\* The places on the way to a place.
Above(s) == {SubSeq(s, 1, i) : i \in 1..Len(s)}

LEMMA AboveIs ==
  ASSUME NEW s \in Seq(Nat), NEW n \in Nat
  PROVE  /\ Above(<<>>) = {} /\ Above(Append(s, n)) = Above(s) \cup {Append(s, n)}
         /\ \A r \in Above(s) : r \in Path /\ Len(r) <= Len(s)
         /\ Append(s, n) \notin Above(s)
<1> DEFINE t == Append(s, n)
<1>1. t \in Seq(Nat) /\ Len(t) = Len(s) + 1 /\ Len(s) \in Nat /\ \A i \in 1..Len(s) : t[i] = s[i]
  OBVIOUS
<1>2. Above(<<>>) = {}
  BY DEF Above
<1>3. \A i \in 1..Len(s) : SubSeq(s, 1, i) \in Path /\ Len(SubSeq(s, 1, i)) = i
  BY DEF Path
<1>4. \A r \in Above(s) : r \in Path /\ Len(r) <= Len(s)
  <2> SUFFICES ASSUME NEW i \in 1..Len(s) PROVE SubSeq(s, 1, i) \in Path /\ Len(SubSeq(s, 1, i)) <= Len(s)
    BY DEF Above
  <2> QED BY <1>1, <1>3
<1>5. \A i \in 1..Len(s) : SubSeq(t, 1, i) = SubSeq(s, 1, i)
  <2> TAKE i \in 1..Len(s)
  <2> DEFINE u == SubSeq(t, 1, i)  v == SubSeq(s, 1, i)
  <2>1. u \in Seq(Nat) /\ v \in Seq(Nat) /\ Len(u) = i /\ Len(v) = i
    BY <1>1
  <2>2. \A j \in 1..i : u[j] = t[j] /\ v[j] = s[j]
    BY <1>1
  <2>3. \A j \in 1..i : u[j] = v[j]
    BY <1>1, <2>2
  <2> HIDE DEF u, v
  <2>4. u = v
    BY <2>1, <2>3
  <2> QED BY <2>4 DEF u, v
<1>6. SubSeq(t, 1, Len(t)) = t
  <2> DEFINE u == SubSeq(t, 1, Len(t))
  <2>1. u \in Seq(Nat) /\ Len(u) = Len(t) /\ \A j \in 1..Len(t) : u[j] = t[j]
    BY <1>1
  <2> HIDE DEF u, t
  <2>2. u = t
    BY <1>1, <2>1
  <2> QED BY <2>2 DEF u
<1> HIDE DEF t
<1>7. Above(t) = Above(s) \cup {t}
  <2>1. 1..Len(t) = 1..Len(s) \cup {Len(t)}
    BY <1>1
  <2>2. Above(t) \subseteq Above(s) \cup {t}
    BY <1>5, <1>6, <2>1 DEF Above
  <2>3. Above(s) \subseteq Above(t)
    BY <1>5, <2>1 DEF Above
  <2>4. t \in Above(t)
    BY <1>6, <2>1 DEF Above
  <2> QED BY <2>2, <2>3, <2>4
<1>8. t \notin Above(s)
  BY <1>1, <1>4
<1> QED BY <1>2, <1>4, <1>7, <1>8 DEF t

-----------------------------------------------------------------------------
(* The tree: what its nodes say of each other, and of the place.            *)

Holders   == {"SUBFORM", "SUBFORMS", "ENTRY"}
Size(x)   == IF x.ptr = <<>> THEN 0 ELSE Last(x.ptr)      \* the entries of a list

RecordOk(T, s) == T[s].kind \in {"SUBFORM", "ENTRY"} =>
  T[s].fields = Record(s) /\ \A n \in Names : Append(s, n) \in DOMAIN T
ListOk(T, s) == T[s].kind = "SUBFORMS" =>
  /\ Size(T[s]) \in Nat /\ T[s].ptr = IF Size(T[s]) = 0 THEN <<>> ELSE Append(s, Size(T[s]))
  /\ \A i \in 1..Size(T[s]) : Append(s, i) \in DOMAIN T
SonOk(T, s) == Front(s) # <<>> =>
  /\ Front(s) \in DOMAIN T /\ T[Front(s)].kind \in Holders
  /\ T[Front(s)].kind = "SUBFORMS" => T[s].kind = "ENTRY" /\ Last(s) \in 1..Size(T[Front(s)])
EntryOk(T, s) == T[s].kind = "ENTRY" =>
  /\ Front(s) # <<>> /\ T[Front(s)].kind = "SUBFORMS"
  /\ T[s].parent = Front(s)
  /\ T[s].next = IF Last(s) = 1 THEN <<>> ELSE Append(Front(s), Last(s) - 1)
NodeOk(T, s) ==
  /\ T[s].kind = "UNSET" => T[s].val = None
  /\ RecordOk(T, s) /\ ListOk(T, s) /\ SonOk(T, s) /\ EntryOk(T, s)

TreeOk(T) ==
  /\ DOMAIN T \subseteq Path /\ \A n \in Names : <<n>> \in DOMAIN T
  /\ \A s \in DOMAIN T : NodeOk(T, s)

\* A container on the way to the place knows the one above it.
HolderOk(x, s) == x.kind \in Holders /\ (x.kind \in {"SUBFORM", "SUBFORMS"} => x.parent = Front(s))
OnWay(T, l) == l \in Seq(Nat) /\ \A s \in Above(l) : s \in DOMAIN T /\ HolderOk(T[s], s)
Placed(T, l, ph) == OnWay(T, l) /\ (ph = "handle" /\ l # <<>> => T[l].kind # "SUBFORMS")

FormOf(T) == {[path |-> s, what |-> What(T[s])] : s \in {r \in DOMAIN T : T[r].kind # "UNSET"}}

\* The paths below a cell that is unset, and of the next entry of a list, are new.
LEMMA FreshPaths ==
  ASSUME NEW T, TreeOk(T), NEW s \in DOMAIN T, NEW n \in Nat
  PROVE  /\ T[s].kind \notin Holders => Append(s, n) \notin DOMAIN T
         /\ T[s].kind = "SUBFORMS" => LET e == Append(s, Size(T[s]) + 1)
                                      IN e \notin DOMAIN T /\ Append(e, n) \notin DOMAIN T
<1>1. s \in Path /\ s \in Seq(Nat) /\ s # <<>>
  BY DEF TreeOk, Path
<1>2. ASSUME NEW k \in Nat, Append(s, k) \in DOMAIN T
      PROVE  T[s].kind \in Holders /\ (T[s].kind = "SUBFORMS" => k \in 1..Size(T[s]))
  <2>1. Front(Append(s, k)) = s /\ Last(Append(s, k)) = k
    BY <1>1, Paths
  <2> QED BY <1>1, <1>2, <2>1 DEF TreeOk, NodeOk, SonOk
<1>3. ASSUME T[s].kind = "SUBFORMS"
      PROVE  LET e == Append(s, Size(T[s]) + 1) IN e \notin DOMAIN T /\ Append(e, n) \notin DOMAIN T
  <2> DEFINE k == Size(T[s])  e == Append(s, k + 1)
  <2>1. k \in Nat
    BY <1>3 DEF TreeOk, NodeOk, ListOk
  <2> HIDE DEF k
  <2>2. k + 1 \in Nat /\ k + 1 \notin 1..k
    BY <2>1
  <2>3. e \notin DOMAIN T
    BY <1>2, <1>3, <2>2 DEF k
  <2>4. e \in Path /\ e \in Seq(Nat)
    BY <1>1, <2>2, Paths DEF Path
  <2> HIDE DEF e
  <2>5. Append(e, n) \in DOMAIN T => e \in DOMAIN T
    <3> HAVE Append(e, n) \in DOMAIN T
    <3>1. Front(Append(e, n)) = e /\ e # <<>>
      BY <2>4, Paths DEF Path
    <3> QED BY <3>1 DEF TreeOk, NodeOk, SonOk
  <2> QED BY <2>3, <2>5 DEF e, k
<1> QED BY <1>2, <1>3

\* An unset cell becomes one without fields.
LEMMA LeafTree ==
  ASSUME NEW T, TreeOk(T), NEW p \in DOMAIN T, T[p].kind = "UNSET", NEW y,
         y.kind \in {"NORMAL", "FIL"} \/ (y.kind = "SUBFORMS" /\ y.ptr = <<>>),
         NEW U, U = [T EXCEPT ![p] = y]
  PROVE  TreeOk(U)
<1>1. DOMAIN U = DOMAIN T /\ U[p] = y /\ \A s \in DOMAIN T : s # p => U[s] = T[s]
  OBVIOUS
<1>2. \A s \in DOMAIN T : s \in Path /\ NodeOk(T, s)
  BY DEF TreeOk
<1>3. p # <<>>
  BY <1>2 DEF Path
<1>4. NodeOk(U, p)
  <2>1. RecordOk(U, p) /\ EntryOk(U, p)
    BY <1>1 DEF RecordOk, EntryOk
  <2>2. ListOk(U, p)
    BY <1>1 DEF ListOk, Size
  <2>3. SonOk(U, p)
    <3>1. SonOk(T, p)
      BY <1>2 DEF NodeOk
    <3>2. Front(p) # <<>> => Front(p) # p
      BY <3>1 DEF SonOk, Holders
    <3> QED BY <1>1, <3>1, <3>2 DEF SonOk
  <2> QED BY <1>1, <2>1, <2>2, <2>3 DEF NodeOk
<1>5. ASSUME NEW s \in DOMAIN T, s # p PROVE NodeOk(U, s)
  <2>1. NodeOk(T, s) /\ U[s] = T[s]
    BY <1>1, <1>2, <1>5
  <2>2. Front(s) # <<>> => Front(s) \in DOMAIN T /\ Front(s) # p /\ U[Front(s)] = T[Front(s)]
    BY <1>1, <2>1 DEF NodeOk, SonOk, Holders
  <2>3. RecordOk(U, s) /\ ListOk(U, s)
    BY <1>1, <2>1 DEF NodeOk, RecordOk, ListOk
  <2>4. SonOk(U, s) /\ EntryOk(U, s)
    BY <1>1, <2>1, <2>2 DEF NodeOk, SonOk, EntryOk
  <2> QED BY <2>1, <2>3, <2>4 DEF NodeOk
<1> QED BY <1>1, <1>2, <1>4, <1>5 DEF TreeOk

\* An unset cell becomes a subform, whose fields are new.
LEMMA SubformTree ==
  ASSUME NEW T, TreeOk(T), NEW p \in DOMAIN T, T[p].kind = "UNSET", NEW y,
         y.kind = "SUBFORM", y.fields = Record(p),
         NEW X, X = Extend(T, {Append(p, k) : k \in Names}), NEW U, U = Written(X, p, y)
  PROVE  TreeOk(U)
<1> DEFINE S == {Append(p, k) : k \in Names}
<1>1. \A s \in DOMAIN T : s \in Path /\ s \in Seq(Nat) /\ NodeOk(T, s)
  BY DEF TreeOk, Path
<1>2. Names \subseteq Nat
  BY DEF Names
<1>3. ASSUME NEW s \in S PROVE s \in Path /\ Front(s) = p /\ s \notin DOMAIN T
  <2>1. PICK k \in Names : s = Append(p, k)
    OBVIOUS
  <2> QED BY <1>1, <1>2, <2>1, Paths, FreshPaths DEF Holders
<1> HIDE DEF S
<1>4. /\ DOMAIN U = DOMAIN T \cup S /\ U[p] = y
      /\ \A s \in DOMAIN T : s # p => U[s] = T[s]
      /\ \A s \in S : U[s] = Blank
  <2>0. X = Extend(T, S) /\ U = [X EXCEPT ![p] = y]
    BY DEF S, Written
  <2>1. DOMAIN Extend(T, S) = DOMAIN T \cup S
    BY DEF Extend
  <2>2. \A s \in DOMAIN T \cup S : s # p => U[s] = Extend(T, S)[s]
    BY <2>0, <2>1
  <2>3. U[p] = y /\ DOMAIN U = DOMAIN T \cup S
    BY <2>0, <2>1
  <2>4. \A s \in S : s # p /\ s \notin DOMAIN T
    BY <1>3
  <2> QED BY <2>2, <2>3, <2>4 DEF Extend
<1>5. NodeOk(U, p)
  <2>1. RecordOk(U, p)
    BY <1>4 DEF RecordOk, S
  <2>2. ListOk(U, p) /\ EntryOk(U, p)
    BY <1>4 DEF ListOk, EntryOk
  <2>3. SonOk(U, p)
    <3>1. SonOk(T, p)
      BY <1>1 DEF NodeOk
    <3>2. Front(p) # <<>> => Front(p) # p
      BY <3>1 DEF SonOk, Holders
    <3> QED BY <1>4, <3>1, <3>2 DEF SonOk
  <2> QED BY <1>4, <2>1, <2>2, <2>3 DEF NodeOk
<1>6. ASSUME NEW s \in DOMAIN T, s # p PROVE NodeOk(U, s)
  <2>1. NodeOk(T, s) /\ U[s] = T[s]
    BY <1>1, <1>4, <1>6
  <2>2. Front(s) # <<>> => Front(s) \in DOMAIN T /\ Front(s) # p /\ U[Front(s)] = T[Front(s)]
    BY <1>4, <2>1 DEF NodeOk, SonOk, Holders
  <2>3. RecordOk(U, s) /\ ListOk(U, s)
    BY <1>4, <2>1 DEF NodeOk, RecordOk, ListOk
  <2>4. SonOk(U, s) /\ EntryOk(U, s)
    BY <1>4, <2>1, <2>2 DEF NodeOk, SonOk, EntryOk
  <2> QED BY <2>1, <2>3, <2>4 DEF NodeOk
<1>7. ASSUME NEW s \in S PROVE NodeOk(U, s)
  <2>1. U[s] = Blank /\ Front(s) = p
    BY <1>3, <1>4
  <2>2. SonOk(U, s)
    BY <1>4, <2>1 DEF SonOk, Holders
  <2> QED BY <2>1, <2>2 DEF NodeOk, RecordOk, ListOk, EntryOk, Blank
<1> QED BY <1>1, <1>3, <1>4, <1>5, <1>6, <1>7 DEF TreeOk

\* A list gets an entry, and the entry its fields.
LEMMA EntryTree ==
  ASSUME NEW T, TreeOk(T), NEW p \in DOMAIN T, T[p].kind = "SUBFORMS", NEW e, e = Append(p, Size(T[p]) + 1),
         NEW y, y.kind = "ENTRY", y.fields = Record(e), y.parent = p, y.next = T[p].ptr,
         NEW z, z.kind = "SUBFORMS", z.ptr = e,
         NEW X, X = Extend(T, {e} \cup {Append(e, k) : k \in Names}),
         NEW U, U = Written(Written(X, e, y), p, z)
  PROVE  TreeOk(U) /\ e \notin DOMAIN T
<1> DEFINE S == {e} \cup {Append(e, k) : k \in Names}  k == Size(T[p])
<1>1. \A s \in DOMAIN T : s \in Path /\ s \in Seq(Nat) /\ NodeOk(T, s)
  BY DEF TreeOk, Path
<1>2. /\ Names \subseteq Nat /\ k \in Nat /\ k + 1 \in Nat /\ T[p].ptr = IF k = 0 THEN <<>> ELSE Append(p, k)
      /\ \A i \in 1..k : Append(p, i) \in DOMAIN T
  BY <1>1 DEF Names, NodeOk, ListOk
<1> HIDE DEF k
<1>3. e \in Path /\ e \in Seq(Nat) /\ e # <<>> /\ Front(e) = p /\ Last(e) = k + 1 /\ e \notin DOMAIN T /\ e # p
  <2>1. 0 \in Nat /\ p \in Seq(Nat)
    BY <1>1
  <2>2. e \notin DOMAIN T
    BY <2>1, FreshPaths
  <2>3. e = Append(p, k + 1)
    BY DEF k
  <2>4. e \in Path /\ Front(e) = p /\ Last(e) = k + 1 /\ e # p
    BY <1>2, <2>1, <2>3, Paths
  <2> QED BY <2>2, <2>4 DEF Path
<1>4. ASSUME NEW j \in Names
      PROVE  Append(e, j) \in Path /\ Front(Append(e, j)) = e /\ Append(e, j) \notin DOMAIN T /\ Append(e, j) # e
  BY <1>2, <1>3, Paths, FreshPaths
<1>5. /\ DOMAIN U = DOMAIN T \cup S /\ U[p] = z /\ U[e] = y
      /\ \A s \in DOMAIN T : s # p => U[s] = T[s]
      /\ \A s \in S : s # e => U[s] = Blank
  <2>1. DOMAIN Extend(T, S) = DOMAIN T \cup S
    BY DEF Extend
  <2>2. \A s \in S : s \notin DOMAIN T /\ s # p
    BY <1>3, <1>4
  <2>3. e \in S
    OBVIOUS
  <2>4. U = [[X EXCEPT ![e] = y] EXCEPT ![p] = z]
    BY DEF Written
  <2>5. \A s \in DOMAIN T \cup S : X[s] = IF s \in DOMAIN T THEN T[s] ELSE Blank
    BY DEF Extend
  <2> HIDE DEF S
  <2>6. DOMAIN X = DOMAIN T \cup S
    BY <2>1 DEF S
  <2> QED BY <1>3, <2>2, <2>3, <2>4, <2>5, <2>6
<1>6. \A j \in Names : Append(e, j) \in S
  OBVIOUS
<1>7. e \in S /\ \A s \in S : s = e \/ \E j \in Names : s = Append(e, j)
  OBVIOUS
<1> HIDE DEF S
<1>8. NodeOk(U, p)
  <2>1. RecordOk(U, p) /\ EntryOk(U, p)
    BY <1>5 DEF RecordOk, EntryOk
  <2>2. ListOk(U, p)
    <3>1. Size(z) = k + 1
      BY <1>3 DEF Size
    <3>2. \A i \in 1..(k + 1) : i \in 1..k \/ i = k + 1
      BY <1>2
    <3>3. e = Append(p, k + 1) /\ k + 1 # 0
      BY <1>2 DEF k
    <3>4. \A i \in 1..(k + 1) : Append(p, i) \in DOMAIN U
      BY <1>2, <1>5, <1>7, <3>2, <3>3
    <3> QED BY <1>2, <1>5, <3>1, <3>3, <3>4 DEF ListOk
  <2>3. SonOk(U, p)
    <3>1. SonOk(T, p)
      BY <1>1 DEF NodeOk
    <3>2. Front(p) # <<>> => Front(p) # p
      BY <3>1 DEF SonOk
    <3> QED BY <1>5, <3>1, <3>2 DEF SonOk
  <2> QED BY <1>5, <2>1, <2>2, <2>3 DEF NodeOk
<1>9. NodeOk(U, e)
  <2>1. RecordOk(U, e)
    BY <1>5, <1>6 DEF RecordOk
  <2>2. ListOk(U, e)
    BY <1>5 DEF ListOk
  <2>3. SonOk(U, e)
    <3>1. Size(z) = k + 1
      BY <1>3 DEF Size
    <3>2. k + 1 \in 1..(k + 1)
      BY <1>2
    <3> QED BY <1>3, <1>5, <3>1, <3>2 DEF SonOk, Holders
  <2>4. EntryOk(U, e)
    <3>1. y.next = IF k + 1 = 1 THEN <<>> ELSE Append(p, (k + 1) - 1)
      <4>1. (k + 1) - 1 = k /\ (k + 1 = 1 <=> k = 0)
        BY <1>2
      <4> QED BY <1>2, <4>1
    <3> QED BY <1>1, <1>3, <1>5, <3>1 DEF EntryOk, Path
  <2> QED BY <1>5, <2>1, <2>2, <2>3, <2>4 DEF NodeOk
<1>10. ASSUME NEW s \in DOMAIN T, s # p PROVE NodeOk(U, s)
  <2>1. NodeOk(T, s) /\ U[s] = T[s]
    BY <1>1, <1>5, <1>10
  <2>2. RecordOk(U, s) /\ ListOk(U, s)
    BY <1>5, <2>1 DEF NodeOk, RecordOk, ListOk
  <2>3. CASE Front(s) = p
    <3>1. p # <<>> /\ T[s].kind = "ENTRY" /\ Last(s) \in 1..k /\ Last(s) \in Nat
      BY <1>1, <1>2, <2>1, <2>3 DEF NodeOk, SonOk, Path, k
    <3>2. Size(z) = k + 1
      BY <1>3 DEF Size
    <3>3. Last(s) \in 1..(k + 1)
      BY <1>2, <3>1
    <3>4. SonOk(U, s)
      BY <1>5, <2>1, <2>3, <3>1, <3>2, <3>3 DEF SonOk, Holders
    <3>5. EntryOk(U, s)
      BY <1>5, <2>1, <2>3 DEF EntryOk, NodeOk
    <3> QED BY <2>1, <2>2, <3>4, <3>5 DEF NodeOk
  <2>4. CASE Front(s) # p
    <3>1. Front(s) # <<>> => Front(s) \in DOMAIN T /\ U[Front(s)] = T[Front(s)]
      BY <1>5, <2>1, <2>4 DEF NodeOk, SonOk
    <3>2. SonOk(U, s) /\ EntryOk(U, s)
      BY <1>5, <2>1, <3>1 DEF NodeOk, SonOk, EntryOk
    <3> QED BY <2>1, <2>2, <3>2 DEF NodeOk
  <2> QED BY <2>3, <2>4
<1>11. ASSUME NEW s \in S, s # e PROVE NodeOk(U, s)
  <2>0. PICK j \in Names : s = Append(e, j)
    BY <1>7, <1>11
  <2>1. U[s] = Blank /\ Front(s) = e
    BY <1>4, <1>5, <1>11, <2>0
  <2>2. SonOk(U, s)
    BY <1>5, <1>7, <2>1 DEF SonOk, Holders
  <2> QED BY <2>1, <2>2 DEF NodeOk, RecordOk, ListOk, EntryOk, Blank
<1>12. DOMAIN U \subseteq Path /\ \A n \in Names : <<n>> \in DOMAIN U
  <2>1. ASSUME NEW s \in S PROVE s \in Path
    <3>1. CASE s = e
      BY <1>3, <3>1
    <3>2. ASSUME NEW j \in Names, s = Append(e, j) PROVE s \in Path
      BY <1>4, <3>2
    <3> QED BY <1>7, <3>1, <3>2
  <2> QED BY <1>1, <1>5, <2>1 DEF TreeOk
<1> QED BY <1>3, <1>5, <1>8, <1>9, <1>10, <1>11, <1>12 DEF TreeOk

\* A container is told, or forgets, what is above it.
LEMMA ParentTree ==
  ASSUME NEW T, TreeOk(T), NEW p \in DOMAIN T, T[p].kind \in {"SUBFORM", "SUBFORMS"}, NEW y,
         y.kind = T[p].kind, y.val = T[p].val, y.fields = T[p].fields, y.ptr = T[p].ptr,
         NEW U, U = [T EXCEPT ![p] = y]
  PROVE  TreeOk(U)
<1>1. DOMAIN U = DOMAIN T /\ \A s \in DOMAIN T : U[s] = IF s = p THEN y ELSE T[s]
  OBVIOUS
<1>2. \A s \in DOMAIN T : U[s].kind = T[s].kind /\ U[s].val = T[s].val /\ U[s].fields = T[s].fields
                          /\ U[s].ptr = T[s].ptr /\ (T[s].kind = "ENTRY" => U[s] = T[s])
  BY <1>1
<1>3. ASSUME NEW s \in DOMAIN T PROVE NodeOk(U, s)
  <2>1. NodeOk(T, s)
    BY DEF TreeOk
  <2>2. RecordOk(U, s) /\ ListOk(U, s)
    BY <1>1, <1>2, <2>1 DEF NodeOk, RecordOk, ListOk, Size
  <2>3. SonOk(U, s)
    BY <1>1, <1>2, <2>1 DEF NodeOk, SonOk, Size
  <2>4. EntryOk(U, s)
    <3>1. T[s].kind = "ENTRY" => Front(s) \in DOMAIN T
      BY <2>1 DEF NodeOk, EntryOk, SonOk
    <3> QED BY <1>1, <1>2, <2>1, <3>1 DEF NodeOk, EntryOk
  <2> QED BY <1>2, <2>1, <2>2, <2>3, <2>4 DEF NodeOk
<1> QED BY <1>1, <1>3 DEF TreeOk

-----------------------------------------------------------------------------
(* The form a tree is.                                                      *)

\* What, Count and Put of Forms.
WhatIn(f, p)  == IF \E x \in f : x.path = p THEN (CHOOSE x \in f : x.path = p).what ELSE None
CountIn(f, p) == Cardinality({x \in f : x.path # <<>> /\ Front(x.path) = p})
PutIn(f, p, w) == {x \in f : x.path # p} \cup {[path |-> p, what |-> w]}

\* A node that becomes another is a field of the form that is written.
LEMMA FormPut ==
  ASSUME NEW T, NEW U, DOMAIN T \subseteq DOMAIN U, NEW p \in DOMAIN U, U[p].kind # "UNSET",
         \A s \in DOMAIN T : s # p => What(U[s]) = What(T[s]) /\ (U[s].kind = "UNSET" <=> T[s].kind = "UNSET"),
         \A s \in DOMAIN U : s \notin DOMAIN T /\ s # p => U[s].kind = "UNSET"
  PROVE  FormOf(U) = PutIn(FormOf(T), p, What(U[p]))
<1> DEFINE f == FormOf(T)  g == FormOf(U)  n == [path |-> p, what |-> What(U[p])]
<1>1. ASSUME NEW x \in g PROVE x \in PutIn(f, p, What(U[p]))
  <2>1. PICK s \in DOMAIN U : U[s].kind # "UNSET" /\ x = [path |-> s, what |-> What(U[s])]
    BY DEF FormOf
  <2>2. CASE s = p
    BY <2>1, <2>2 DEF PutIn
  <2>3. CASE s # p
    <3>1. s \in DOMAIN T /\ T[s].kind # "UNSET" /\ What(T[s]) = What(U[s])
      BY <2>1, <2>3
    <3>2. x \in f /\ x.path # p
      BY <2>1, <2>3, <3>1 DEF FormOf
    <3> QED BY <3>2 DEF PutIn
  <2> QED BY <2>2, <2>3
<1>2. n \in g
  BY DEF FormOf
<1>3. ASSUME NEW x \in f, x.path # p PROVE x \in g
  <2>1. PICK s \in DOMAIN T : T[s].kind # "UNSET" /\ x = [path |-> s, what |-> What(T[s])]
    BY DEF FormOf
  <2>2. s # p
    BY <1>3, <2>1
  <2>3. s \in DOMAIN U /\ U[s].kind # "UNSET" /\ What(U[s]) = What(T[s])
    BY <2>1, <2>2
  <2> QED BY <2>1, <2>3 DEF FormOf
<1> HIDE DEF f, g
<1>4. g = PutIn(f, p, What(U[p]))
  BY <1>1, <1>2, <1>3 DEF PutIn
<1> QED BY <1>4 DEF f, g

LEMMA FormSame ==
  ASSUME NEW T, NEW U, DOMAIN U = DOMAIN T,
         \A s \in DOMAIN T : What(U[s]) = What(T[s]) /\ (U[s].kind = "UNSET" <=> T[s].kind = "UNSET")
  PROVE  FormOf(U) = FormOf(T)
BY DEF FormOf

LEMMA WhatIs ==
  ASSUME NEW T, TreeOk(T), NEW s \in DOMAIN T
  PROVE  WhatIn(FormOf(T), s) = What(T[s])
<1> DEFINE f == FormOf(T)
<1>1. \A x \in f : x.path = s => T[s].kind # "UNSET" /\ x.what = What(T[s])
  BY DEF FormOf
<1>2. CASE T[s].kind = "UNSET"
  <2>1. ~ \E x \in f : x.path = s
    BY <1>1, <1>2
  <2>2. What(T[s]) = None
    BY <1>2 DEF What, TreeOk, NodeOk
  <2> HIDE DEF f
  <2> QED BY <2>1, <2>2 DEF WhatIn, f
<1>3. CASE T[s].kind # "UNSET"
  <2>1. \E x \in f : x.path = s
    <3>1. [path |-> s, what |-> What(T[s])] \in f
      BY <1>3 DEF FormOf
    <3> QED BY <3>1
  <2> DEFINE y == CHOOSE x \in f : x.path = s
  <2>2. y \in f /\ y.path = s
    BY <2>1
  <2>3. y.what = What(T[s])
    BY <1>1, <2>2
  <2>4. WhatIn(f, s) = y.what
    BY <2>1 DEF WhatIn
  <2> QED BY <2>3, <2>4
<1> QED BY <1>2, <1>3

LEMMA CountIs ==
  ASSUME NEW T, TreeOk(T), NEW s \in DOMAIN T, T[s].kind = "SUBFORMS"
  PROVE  CountIn(FormOf(T), s) = Size(T[s]) /\ Size(T[s]) \in Nat
<1> DEFINE k == Size(T[s])  S == {x \in FormOf(T) : x.path # <<>> /\ Front(x.path) = s}
           b == [i \in 1..k |-> [path |-> Append(s, i), what |-> "entry"]]
<1>1. s \in Path /\ s \in Seq(Nat) /\ s # <<>> /\ k \in Nat /\ NodeOk(T, s)
  BY DEF TreeOk, NodeOk, ListOk, Path
<1> HIDE DEF k
<1>2. \A i \in 1..k : Append(s, i) \in DOMAIN T
  BY <1>1 DEF NodeOk, ListOk, k
<1>3. ASSUME NEW r \in DOMAIN T, Front(r) = s
      PROVE  T[r].kind = "ENTRY" /\ Last(r) \in 1..k /\ r = Append(s, Last(r))
  <2>1. r \in Path /\ NodeOk(T, r)
    BY DEF TreeOk
  <2>2. r = Append(s, Last(r))
    BY <1>3, <2>1, Unappend
  <2> QED BY <1>1, <1>3, <2>1, <2>2 DEF NodeOk, SonOk, k
<1>4. ASSUME NEW r \in DOMAIN T, T[r].kind = "ENTRY" PROVE What(T[r]) = "entry"
  BY <1>4 DEF What
<1>5. ASSUME NEW i \in 1..k PROVE b[i] \in S
  <2>1. i \in Nat /\ Append(s, i) \in DOMAIN T /\ Append(s, i) # <<>> /\ Front(Append(s, i)) = s
    BY <1>1, <1>2, Paths DEF Path
  <2>2. T[Append(s, i)].kind = "ENTRY" /\ What(T[Append(s, i)]) = "entry"
    BY <1>3, <1>4, <2>1
  <2>3. [path |-> Append(s, i), what |-> "entry"] \in FormOf(T)
    BY <2>1, <2>2 DEF FormOf
  <2> QED BY <2>1, <2>3
<1>6. ASSUME NEW x \in S PROVE \E i \in 1..k : x = b[i]
  <2>1. PICK r \in DOMAIN T : x = [path |-> r, what |-> What(T[r])]
    BY DEF FormOf
  <2>2. Front(r) = s
    BY <2>1
  <2>3. Last(r) \in 1..k /\ r = Append(s, Last(r)) /\ What(T[r]) = "entry"
    BY <1>3, <1>4, <2>2
  <2> QED BY <2>1, <2>3
<1>7. ASSUME NEW i \in 1..k, NEW j \in 1..k, b[i] = b[j] PROVE i = j
  <2>1. Append(s, i) = Append(s, j)
    BY <1>7
  <2>2. Last(Append(s, i)) = i /\ Last(Append(s, j)) = j
    BY <1>1, Paths
  <2> QED BY <2>1, <2>2
<1> HIDE DEF S
<1>8. b \in [1..k -> S]
  BY <1>5
<1> HIDE DEF b
<1>9. b \in Bijection(1..k, S)
  <2>1. DOMAIN b = 1..k
    BY <1>8
  <2>2. b \in Injection(1..k, S)
    BY <1>7, <1>8, <2>1 DEF Injection, IsInjective
  <2>3. b \in Surjection(1..k, S)
    BY <1>6, <1>8 DEF Surjection
  <2> QED BY <2>2, <2>3 DEF Bijection
<1>10. IsFiniteSet(1..k) /\ Cardinality(1..k) = k
  BY <1>1, FS_Interval
<1>11. Cardinality(S) = k
  BY <1>9, <1>10, FS_Bijection DEF ExistsBijection
<1> QED BY <1>1, <1>11 DEF CountIn, S, k

-----------------------------------------------------------------------------
(* Going through the tree.                                                  *)

LEMMA WayTop == ASSUME NEW T PROVE OnWay(T, <<>>)
BY DEF OnWay, Above

\* Down to a container.
LEMMA WayIn ==
  ASSUME NEW T, NEW l, OnWay(T, l), NEW n \in Nat, Append(l, n) \in DOMAIN T,
         HolderOk(T[Append(l, n)], Append(l, n))
  PROVE  OnWay(T, Append(l, n))
<1>1. l \in Seq(Nat) /\ Append(l, n) \in Seq(Nat)
  BY DEF OnWay
<1>2. Above(Append(l, n)) = Above(l) \cup {Append(l, n)}
  BY <1>1, AboveIs
<1> QED BY <1>1, <1>2 DEF OnWay

\* Up from one: it is on the way no more.
LEMMA WayOut ==
  ASSUME NEW T, NEW l, OnWay(T, l), l # <<>>
  PROVE  /\ OnWay(T, Front(l)) /\ l \notin Above(Front(l)) /\ l \in Above(l) /\ l \in Path
         /\ Front(l) # <<>> => Front(l) \in Above(Front(l)) /\ Front(l) \in Above(l)
<1>1. l \in Path /\ l \in Seq(Nat)
  BY DEF OnWay, Path
<1>2. Front(l) \in Seq(Nat) /\ Last(l) \in Nat /\ l = Append(Front(l), Last(l))
  BY <1>1, Unappend
<1>3. Above(l) = Above(Front(l)) \cup {l} /\ l \notin Above(Front(l))
  BY <1>2, AboveIs
<1>4. OnWay(T, Front(l))
  BY <1>2, <1>3 DEF OnWay
<1>5. ASSUME Front(l) # <<>> PROVE Front(l) \in Above(Front(l))
  <2>1. Front(l) \in Path
    BY <1>2, <1>5 DEF Path
  <2> DEFINE f == Front(l)
  <2>2. Front(f) \in Seq(Nat) /\ Last(f) \in Nat /\ f = Append(Front(f), Last(f))
    BY <2>1, Unappend
  <2>3. Above(f) = Above(Front(f)) \cup {f}
    BY <2>2, AboveIs
  <2> QED BY <2>3
<1> QED BY <1>1, <1>3, <1>4, <1>5

\* A place is kept when nothing on the way to it changes.
LEMMA WayKept ==
  ASSUME NEW T, NEW l, OnWay(T, l), NEW U, DOMAIN T \subseteq DOMAIN U, \A s \in Above(l) : U[s] = T[s]
  PROVE  OnWay(U, l)
BY DEF OnWay

-----------------------------------------------------------------------------
(* The request and its tree.                                                *)

Place(c, g)     == Trail(c.block, g, c.cur_container)
Sound(c, g, ph) == Named(c, g) /\ TreeOk(Tree(c, g)) /\ Placed(Tree(c, g), Place(c, g), ph)

\* What of this holds while a step is under way.
Standing(c, g) ==
  /\ Named(c, g) /\ OnWay(Tree(c, g), Place(c, g))
  /\ c.cur_container # NULL => RecordOk(Tree(c, g), Place(c, g))

\* The container that the request is in is the node at its place.
LEMMA HereTree ==
  ASSUME NEW c, NEW g, Standing(c, g)
  PROVE  /\ c.cur_container = NULL <=> Place(c, g) = <<>>
         /\ Place(c, g) \in Seq(Nat) /\ OnWay(Tree(c, g), Place(c, g))
         /\ c.cur_container # NULL =>
              /\ c.cur_container \in CellsOf(c) /\ Here(c) = At(c, c.cur_container)
              /\ Here(c) \in CellT /\ CellOk(c, Here(c)) /\ Here(c).kind \in Holders
              /\ Place(c, g) \in DOMAIN Tree(c, g) /\ Place(c, g) \in Path
              /\ Tree(c, g)[Place(c, g)] = View(c.block, g, Here(c))
<1> DEFINE T == Tree(c, g)  l == Place(c, g)
<1>1. Named(c, g) /\ Ok(c) /\ OnWay(T, l)
  BY DEF Standing, Named
<1>2. c.cur_container = NULL => l = <<>>
  BY <1>1, TrailIs DEF Place
<1>3. ASSUME c.cur_container # NULL
      PROVE  /\ c.cur_container \in CellsOf(c) /\ Here(c) = At(c, c.cur_container)
             /\ Here(c) \in CellT /\ CellOk(c, Here(c)) /\ l \in Path
             /\ T[l] = View(c.block, g, Here(c)) /\ l \in DOMAIN T /\ l # <<>>
  <2>1. c.cur_container \in CellsOf(c) /\ Here(c) = At(c, c.cur_container) /\ Here(c) \in CellT /\ CellOk(c, Here(c))
    BY <1>1, <1>3, HereCell DEF CellsOf
  <2>2. l \in Path
    BY <1>1, <2>1, TrailIs DEF Place
  <2>3. l \in DOMAIN T /\ T[l] = View(c.block, g, Here(c))
    BY <1>1, <2>1, TreeAt DEF Place
  <2> QED BY <2>1, <2>2, <2>3 DEF Path
<1> HIDE DEF T, l
<1>4. ASSUME c.cur_container # NULL PROVE Here(c).kind \in Holders
  <2>1. l \in Above(l) /\ HolderOk(T[l], l)
    BY <1>1, <1>3, <1>4, WayOut DEF OnWay
  <2>2. T[l].kind = Here(c).kind
    BY <1>3, <1>4 DEF View
  <2> QED BY <2>1, <2>2 DEF HolderOk
<1> QED BY <1>1, <1>2, <1>3, <1>4 DEF OnWay, T, l

LEMMA SoundStands == ASSUME NEW c, NEW g, NEW ph, Sound(c, g, ph) PROVE Standing(c, g)
<1>1. Named(c, g) /\ Ok(c) /\ OnWay(Tree(c, g), Place(c, g)) /\ TreeOk(Tree(c, g))
  BY DEF Sound, Placed, Named
<1>2. ASSUME c.cur_container # NULL PROVE Place(c, g) \in DOMAIN Tree(c, g)
  <2>1. c.cur_container \in CellsOf(c)
    BY <1>1, <1>2, HereCell DEF CellsOf
  <2> QED BY <1>1, <2>1, TreeAt DEF Place
<1> QED BY <1>1, <1>2 DEF Standing, TreeOk, NodeOk

\* The container knows where it is.
LEMMA HereParent ==
  ASSUME NEW c, NEW g, NEW ph, Sound(c, g, ph), c.cur_container # NULL
  PROVE  Trail(c.block, g, Here(c).parent) = Front(Place(c, g))
<1> DEFINE T == Tree(c, g)  l == Place(c, g)
<1>1. l \in DOMAIN T /\ T[l] = View(c.block, g, Here(c)) /\ l # <<>> /\ OnWay(T, l) /\ TreeOk(T)
  BY SoundStands, HereTree DEF Sound
<1> HIDE DEF T, l
<1>2. T[l].parent = Trail(c.block, g, Here(c).parent)
  BY <1>1 DEF View
<1>3. l \in Above(l) /\ HolderOk(T[l], l)
  BY <1>1, WayOut DEF OnWay
<1>4. T[l].kind = "ENTRY" => T[l].parent = Front(l)
  BY <1>1 DEF TreeOk, NodeOk, EntryOk
<1> QED BY <1>2, <1>3, <1>4 DEF HolderOk, Holders, l

\* The field of the record that the request is in is the node below its place.
LEMMA InpTree ==
  ASSUME NEW c, NEW g, Standing(c, g), IsRecord(c), NEW n \in Names
  PROVE  /\ INP(c, n) \in CellsOf(c) /\ At(c, INP(c, n)) \in CellT /\ CellOk(c, At(c, INP(c, n)))
         /\ Trail(c.block, g, INP(c, n)) = Append(Place(c, g), n)
         /\ Append(Place(c, g), n) \in DOMAIN Tree(c, g)
         /\ Tree(c, g)[Append(Place(c, g), n)] = View(c.block, g, At(c, INP(c, n)))
         /\ n \in Nat /\ Place(c, g) \in Seq(Nat) /\ Front(Append(Place(c, g), n)) = Place(c, g)
         /\ Append(Place(c, g), n) # <<>> /\ Append(Place(c, g), n) \notin Above(Place(c, g))
<1> DEFINE T == Tree(c, g)  l == Place(c, g)  p == INP(c, n)
<1>1. Named(c, g) /\ Ok(c) /\ OnWay(T, l) /\ l \in Seq(Nat) /\ n \in Nat
  BY InputsAssumption DEF Standing, Named, OnWay, Names
<1>2. p \in CellsOf(c) /\ At(c, p) \in CellT /\ CellOk(c, At(c, p))
  BY <1>1, InpLeads, AtCell DEF CellsOf
<1>3. Trail(c.block, g, p) = Append(l, n)
  <2>1. CASE c.cur_container = NULL
    <3>1. p = [block |-> 0, i |-> n]
      BY <1>1, <2>1 DEF INP, Field
    <3>2. Trail(c.block, g, p) = <<n>> /\ l = <<>>
      BY <1>1, <2>1, <3>1, TrailIs DEF Place
    <3> QED BY <1>1, <3>2, OneIsAppend
  <2>2. CASE c.cur_container # NULL
    <3>1. /\ Here(c).kind \in {"SUBFORM", "ENTRY"} /\ p = Field(Here(c).ptr, n)
          /\ RecordOk(T, l) /\ T[l] = View(c.block, g, Here(c))
      BY <2>2, HereTree DEF IsRecord, INP, Standing
    <3> HIDE DEF p, T, l
    <3>2. T[l].kind \in {"SUBFORM", "ENTRY"} /\ T[l].fields = [k \in Names |-> Trail(c.block, g, Field(Here(c).ptr, k))]
      BY <3>1 DEF View
    <3>3. T[l].fields = [k \in Names |-> Append(l, k)]
      BY <1>1, <3>1, <3>2 DEF RecordOk, Record
    <3> QED BY <3>1, <3>2, <3>3
  <2> QED BY <2>1, <2>2
<1>4. Append(l, n) \in DOMAIN T /\ T[Append(l, n)] = View(c.block, g, At(c, p))
  BY <1>1, <1>2, <1>3, TreeAt
<1>5. Front(Append(l, n)) = l /\ Append(l, n) # <<>> /\ Append(l, n) \notin Above(l)
  <2> HIDE DEF l
  <2> QED BY <1>1, Paths, AboveIs DEF Path
<1> QED BY <1>1, <1>2, <1>3, <1>4, <1>5

-----------------------------------------------------------------------------
(* The form and the place of the module, and of the one it implements.      *)

FormIn(c, g) ==
  {[path |-> Trail(c.block, g, p), what |-> What(At(c, p))] :
   p \in {q \in {[block |-> 0, i |-> n] : n \in Names} \cup {[block |-> c.block, i |-> k] : k \in DOMAIN c.subinputs} :
          At(c, q).kind # "UNSET"}}

LEMMA FormInTree ==
  ASSUME NEW c, NEW g, Named(c, g)
  PROVE  FormIn(c, g) = FormOf(Tree(c, g))
<1> DEFINE C == {[block |-> 0, i |-> n] : n \in Names} \cup {[block |-> c.block, i |-> k] : k \in DOMAIN c.subinputs}
           T == Tree(c, g)  t(p) == Trail(c.block, g, p)
<1>1. C = CellsOf(c)
  <2>1. Names \subseteq Nat /\ c.block \in Nat /\ DOMAIN c.subinputs = 1..Len(c.subinputs)
    BY DEF Names, Named, Ok, Context
  <2>2. C \subseteq CellsOf(c)
    BY <2>1 DEF CellsOf, Leads, Ptr
  <2>3. CellsOf(c) \subseteq C
    BY <2>1 DEF CellsOf, Leads, Ptr
  <2> QED BY <2>2, <2>3
<1>2. ASSUME NEW p \in CellsOf(c)
      PROVE  t(p) \in DOMAIN T /\ T[t(p)].kind = At(c, p).kind /\ What(T[t(p)]) = What(At(c, p))
  <2>1. t(p) \in DOMAIN T /\ T[t(p)] = View(c.block, g, At(c, p))
    BY TreeAt
  <2>2. T[t(p)].kind = At(c, p).kind /\ T[t(p)].val = At(c, p).val
    BY <2>1 DEF View
  <2> QED BY <2>1, <2>2 DEF What
<1>3. ASSUME NEW s \in DOMAIN T PROVE \E p \in CellsOf(c) : s = t(p)
  <2>1. s \in PathsOf(c, g)
    BY <1>3, TreeAt
  <2> QED BY <2>1 DEF PathsOf
<1> HIDE DEF C, T, t
<1>4. {[path |-> t(p), what |-> What(At(c, p))] : p \in {q \in CellsOf(c) : At(c, q).kind # "UNSET"}} = FormOf(T)
  <2>1. ASSUME NEW p \in CellsOf(c), At(c, p).kind # "UNSET"
        PROVE  [path |-> t(p), what |-> What(At(c, p))] \in FormOf(T)
    <3>1. t(p) \in DOMAIN T /\ T[t(p)].kind # "UNSET" /\ What(T[t(p)]) = What(At(c, p))
      BY <1>2, <2>1
    <3> QED BY <3>1 DEF FormOf
  <2>2. ASSUME NEW s \in DOMAIN T, T[s].kind # "UNSET"
        PROVE  \E p \in CellsOf(c) : /\ At(c, p).kind # "UNSET"
                                     /\ [path |-> s, what |-> What(T[s])] = [path |-> t(p), what |-> What(At(c, p))]
    <3>1. PICK p \in CellsOf(c) : s = t(p)
      BY <1>3
    <3>2. At(c, p).kind # "UNSET" /\ What(T[s]) = What(At(c, p))
      BY <1>2, <2>2, <3>1
    <3> QED BY <3>1, <3>2
  <2> QED BY <2>1, <2>2 DEF FormOf
<1> QED BY <1>1, <1>4 DEF FormIn, C, T, t

LEMMA FormNow == ASSUME Named(ctx, paths) PROVE Form = FormOf(Tree(ctx, paths))
<1>1. \A p : PathOf(p) = Trail(ctx.block, paths, p)
  BY DEF PathOf, Trail
<1>2. Form = FormIn(ctx, paths)
  BY <1>1, Zenon DEF Form, FormIn, Cells
<1> QED BY <1>2, FormInTree

LEMMA FormThen == ASSUME Named(ctx', paths') PROVE Form' = FormOf(Tree(ctx', paths'))
<1>1. Form' = FormIn(ctx', paths')
  BY Zenon DEF Form, FormIn, Cells, PathOf, Trail
<1> QED BY <1>1, FormInTree

LEMMA PlaceNow ==
  /\ PathOf(ctx.cur_container) = Place(ctx, paths)
  /\ PathOf(ctx.cur_container)' = Place(ctx', paths')
  /\ \A p \in Ptr : PathOf(p) = Trail(ctx.block, paths, p)
BY DEF PathOf, Place, Trail

\* The operators of Forms, for this form and this place.
LEMMA FormsAre ==
  /\ \A p : F!What(p) = WhatIn(Form, p)
  /\ \A p : F!Count(p) = CountIn(Form, p)
  /\ \A w : F!In(w) <=> PathOf(ctx.cur_container) # <<>> /\ WhatIn(Form, PathOf(ctx.cur_container)) = w
  /\ \A p, w : F!Put(p, w) <=> Form' = PutIn(Form, p, w)
  /\ F!Names = Names
<1>1. \A p : F!What(p) = WhatIn(Form, p)
  BY DEF F!What, F!None, WhatIn, None
<1>2. \A p : F!Count(p) = CountIn(Form, p)
  BY DEF F!Count, F!Front, Front, F!Cardinality, Cardinality, CountIn
<1>3. \A w : F!In(w) <=> PathOf(ctx.cur_container) # <<>> /\ WhatIn(Form, PathOf(ctx.cur_container)) = w
  BY <1>1 DEF F!In
<1>4. \A p, w : F!Put(p, w) <=> Form' = PutIn(Form, p, w)
  BY DEF F!Put, PutIn
<1>5. F!Names = Names
  BY DEF F!Names, Names
<1> QED BY <1>1, <1>2, <1>3, <1>4, <1>5

\* A blank request.
LEMMA BlankSound ==
  ASSUME NEW b \in Nat \ {0}, NEW ph, NEW c,
         c = [inputs |-> [n \in Names |-> Unset], subinputs |-> <<>>, block |-> b, cur_container |-> NULL]
  PROVE  Sound(c, <<>>, ph) /\ FormOf(Tree(c, <<>>)) = {} /\ Place(c, <<>>) = <<>>
<1>1. Ok(c) /\ c.inputs = [n \in Names |-> Unset] /\ c.subinputs = <<>> /\ c.block = b /\ c.cur_container = NULL
  BY BlankOk
<1>2. Named(c, <<>>)
  BY <1>1 DEF Named
<1> DEFINE T == Tree(c, <<>>)
<1>3. Place(c, <<>>) = <<>>
  BY <1>1, <1>2, TrailIs DEF Place
<1>4. ASSUME NEW p \in CellsOf(c)
      PROVE  \E n \in Names : Trail(b, <<>>, p) = <<n>> /\ At(c, p) = Unset
  <2>1. p.i \in Names /\ p = [block |-> 0, i |-> p.i]
    BY <1>1 DEF CellsOf, Leads, Ptr
  <2>2. Trail(b, <<>>, p) = <<p.i>>
    BY <1>1, <1>2, <2>1, TrailIs
  <2>3. At(c, p) = Unset
    BY <1>1, <2>1 DEF At
  <2> QED BY <2>1, <2>2, <2>3
<1>5. View(b, <<>>, Unset) = Blank
  <2>1. Trail(b, <<>>, NULL) = <<>>
    BY <1>1, <1>2, TrailIs
  <2> QED BY <2>1 DEF View, Unset, Cell, Blank
<1>6. ASSUME NEW s \in DOMAIN T PROVE T[s] = Blank /\ \E n \in Names : s = <<n>>
  <2>0. s \in PathsOf(c, <<>>)
    BY <1>2, <1>6, TreeAt
  <2>1. PICK p \in CellsOf(c) : s = Trail(b, <<>>, p)
    BY <1>1, <2>0 DEF PathsOf
  <2>2. T[s] = View(b, <<>>, At(c, p))
    BY <1>1, <1>2, <2>1, TreeAt
  <2> QED BY <1>4, <1>5, <2>1, <2>2
<1>7. \A n \in Names : <<n>> \in DOMAIN T
  <2> TAKE n \in Names
  <2>1. [block |-> 0, i |-> n] \in CellsOf(c)
    BY DEF CellsOf, Leads, Ptr, Names
  <2>2. Trail(b, <<>>, [block |-> 0, i |-> n]) = <<n>>
    BY <1>1, <1>2, TrailIs
  <2> QED BY <1>1, <1>2, <2>1, <2>2, TreeAt
<1> HIDE DEF T
<1>8. \A s \in DOMAIN T : s \in Path /\ NodeOk(T, s)
  <2> SUFFICES ASSUME NEW s \in DOMAIN T PROVE s \in Path /\ NodeOk(T, s)
    OBVIOUS
  <2>1. T[s] = Blank /\ s \in Path /\ Front(s) = <<>>
    <3>1. \A n \in Names : n \in Nat
      BY DEF Names
    <3> QED BY <1>6, <3>1, OneIsAppend
  <2> QED BY <2>1 DEF NodeOk, RecordOk, ListOk, SonOk, EntryOk, Blank
<1>9. TreeOk(T)
  BY <1>7, <1>8 DEF TreeOk
<1>10. FormOf(T) = {}
  BY <1>6 DEF FormOf, Blank
<1>11. OnWay(T, <<>>)
  BY WayTop
<1> QED BY <1>2, <1>3, <1>9, <1>10, <1>11 DEF Sound, Placed, T

-----------------------------------------------------------------------------
(* Each step of the request is a step of the form.                          *)

FormInv == Sound(ctx, paths, phase)

\* What the form says of the place of the request.
LEMMA HereForm ==
  ASSUME FormInv
  PROVE  /\ PathOf(ctx.cur_container) = <<>> <=> ctx.cur_container = NULL
         /\ F!In("subforms") <=> ctx.cur_container # NULL /\ Here(ctx).kind = "SUBFORMS"
         /\ F!In("entry")    <=> ctx.cur_container # NULL /\ Here(ctx).kind = "ENTRY"
         /\ ctx.cur_container # NULL /\ Here(ctx).kind = "SUBFORM" => F!What(PathOf(ctx.cur_container)) = "subform"
<1> DEFINE l == PathOf(ctx.cur_container)
<1>1. l = Place(ctx, paths) /\ Form = FormOf(Tree(ctx, paths)) /\ TreeOk(Tree(ctx, paths))
  BY PlaceNow, FormNow DEF FormInv, Sound
<1>2. l = <<>> <=> ctx.cur_container = NULL
  BY <1>1, HereTree, SoundStands DEF FormInv
<1>3. ASSUME ctx.cur_container # NULL
      PROVE  WhatIn(Form, l) = What(Here(ctx)) /\ Here(ctx).kind \in Holders
  <2>1. /\ l \in DOMAIN Tree(ctx, paths) /\ Tree(ctx, paths)[l] = View(ctx.block, paths, Here(ctx))
        /\ Here(ctx).kind \in Holders
    BY <1>1, <1>3, HereTree, SoundStands DEF FormInv
  <2>2. WhatIn(Form, l) = What(Tree(ctx, paths)[l])
    BY <1>1, <2>1, WhatIs
  <2>3. What(View(ctx.block, paths, Here(ctx))) = What(Here(ctx))
    BY <2>1 DEF View, What
  <2> QED BY <2>1, <2>2, <2>3
<1>4. ASSUME NEW x, x.kind \in Holders
      PROVE  What(x) = CASE x.kind = "SUBFORM" -> "subform" [] x.kind = "SUBFORMS" -> "subforms" [] OTHER -> "entry"
  BY <1>4 DEF What, Holders
<1> HIDE DEF l
<1>5. ctx.cur_container # NULL =>
        /\ WhatIn(Form, l) = "subform" <=> Here(ctx).kind = "SUBFORM"
        /\ WhatIn(Form, l) = "subforms" <=> Here(ctx).kind = "SUBFORMS"
        /\ WhatIn(Form, l) = "entry" <=> Here(ctx).kind = "ENTRY"
  <2> HAVE ctx.cur_container # NULL
  <2> DEFINE x == Here(ctx)
  <2>1. x.kind \in Holders /\ WhatIn(Form, l) = What(x)
    BY <1>3
  <2> HIDE DEF x
  <2>2. What(x) = CASE x.kind = "SUBFORM" -> "subform" [] x.kind = "SUBFORMS" -> "subforms" [] OTHER -> "entry"
    BY <1>4, <2>1
  <2> QED BY <2>1, <2>2 DEF Holders, x
<1> QED BY <1>2, <1>5, FormsAre DEF l

\* What the form says of a field.
LEMMA FieldForm ==
  ASSUME FormInv, IsRecord(ctx), NEW n \in Names
  PROVE  F!What(Append(PathOf(ctx.cur_container), n)) = What(At(ctx, INP(ctx, n)))
<1> DEFINE s == Append(Place(ctx, paths), n)  x == At(ctx, INP(ctx, n))
<1>1. PathOf(ctx.cur_container) = Place(ctx, paths) /\ Form = FormOf(Tree(ctx, paths)) /\ TreeOk(Tree(ctx, paths))
  BY PlaceNow, FormNow DEF FormInv, Sound
<1>2. s \in DOMAIN Tree(ctx, paths) /\ Tree(ctx, paths)[s] = View(ctx.block, paths, x)
  BY InpTree, SoundStands DEF FormInv
<1>3. What(View(ctx.block, paths, x)) = What(x)
  BY DEF View, What
<1> HIDE DEF s, x
<1>4. WhatIn(Form, s) = What(x)
  BY <1>1, <1>2, <1>3, WhatIs
<1> QED BY <1>1, <1>4, FormsAre DEF s, x

\* A cell of the record at hand is written.
Fills(c, g, n, x, d) ==
  /\ Standing(c, g) /\ IsRecord(c) /\ n \in Names /\ x \in CellT /\ CellOk(c, x)
  /\ At(c, INP(c, n)).kind = "ENTRY" => x.kind = "ENTRY"
  /\ d = Set(c, INP(c, n), x)

LEMMA FieldSet ==
  ASSUME NEW c, NEW g, NEW n, NEW x, NEW d, Fills(c, g, n, x, d)
  PROVE  LET s == Append(Place(c, g), n)
         IN /\ Named(d, g) /\ d.block = c.block /\ d.cur_container = c.cur_container /\ Place(d, g) = Place(c, g)
            /\ Tree(d, g) = Written(Tree(c, g), s, View(c.block, g, x))
            /\ CellsOf(d) = CellsOf(c) /\ INP(c, n) \in CellsOf(c) /\ Trail(c.block, g, INP(c, n)) = s
            /\ s \in DOMAIN Tree(c, g) /\ OnWay(Tree(d, g), Place(c, g))
<1> DEFINE p == INP(c, n)  s == Append(Place(c, g), n)
<1>0. Standing(c, g) /\ IsRecord(c) /\ n \in Names /\ x \in CellT /\ CellOk(c, x)
  BY DEF Fills
<1>1. /\ p \in CellsOf(c) /\ Trail(c.block, g, p) = s /\ s \in DOMAIN Tree(c, g) /\ s \notin Above(Place(c, g))
      /\ Named(c, g) /\ OnWay(Tree(c, g), Place(c, g))
  BY <1>0, InpTree, HereTree DEF Standing
<1>2. (At(c, p).kind = "ENTRY" => x.kind = "ENTRY") /\ d = Set(c, p, x)
  BY DEF Fills
<1> HIDE DEF p, s
<1>3. /\ Named(d, g) /\ d.cur_container = c.cur_container /\ d.block = c.block /\ CellsOf(d) = CellsOf(c)
      /\ Tree(d, g) = Written(Tree(c, g), s, View(c.block, g, x))
  <2>1. Writes(c, g, p, x, d)
    BY <1>0, <1>1, <1>2 DEF Writes
  <2>2. Named(d, g) /\ d.cur_container = c.cur_container /\ d.block = c.block /\ CellsOf(d) = CellsOf(c)
    BY <2>1, TreeSet
  <2>3. Tree(d, g) = Written(Tree(c, g), Trail(c.block, g, p), View(c.block, g, x))
    BY <2>1, TreeSet
  <2> QED BY <1>1, <2>2, <2>3
<1>4. Place(d, g) = Place(c, g)
  BY <1>3 DEF Place
<1>5. OnWay(Tree(d, g), Place(c, g))
  <2> DEFINE T == Tree(c, g)  U == Tree(d, g)  l == Place(c, g)  y == View(c.block, g, x)
  <2>1. U = [T EXCEPT ![s] = y] /\ s \notin Above(l) /\ OnWay(T, l)
    BY <1>1, <1>3 DEF Written
  <2> HIDE DEF T, U, l, y
  <2>2. DOMAIN T \subseteq DOMAIN U /\ \A r \in Above(l) : U[r] = T[r]
    BY <2>1 DEF OnWay
  <2>3. OnWay(U, l)
    BY <2>1, <2>2, WayKept
  <2> QED BY <2>3 DEF U, l
<1> QED BY <1>1, <1>3, <1>4, <1>5 DEF p, s

\* uw_set_input, uw_set_file_input.
LEMMA WriteStep ==
  ASSUME Fitting, FormInv, NEW n \in Names, NEW v \in Values, NEW k \in {"NORMAL", "FIL"},
         NEW shape, Sends(n, shape),
         ctx' = Set(ctx, INP(ctx, n), Cell(k, v, NULL, NULL, NULL)), UNCHANGED <<phase, got, paths>>
  PROVE  FormInv' /\ F!Write(n, v)
<1> DEFINE x == Cell(k, v, NULL, NULL, NULL)  T == Tree(ctx, paths)  U == Tree(ctx', paths)
           l == Place(ctx, paths)  s == Append(l, n)  y == View(ctx.block, paths, x)
<1>1. /\ Named(ctx, paths) /\ Ok(ctx) /\ TreeOk(T) /\ phase = "send" /\ IsRecord(ctx)
      /\ At(ctx, INP(ctx, n)).kind = "UNSET"
  BY SentField DEF FormInv, Sound, Named, Sends
<1>2. x \in CellT /\ CellOk(ctx, x) /\ x.kind = k /\ x.val = v
  BY LeafCell DEF Cell
<1>3. T[s].kind = "UNSET" /\ s \in DOMAIN T
  <2>1. s \in DOMAIN T /\ T[s] = View(ctx.block, paths, At(ctx, INP(ctx, n)))
    BY <1>1, InpTree, SoundStands DEF FormInv
  <2> QED BY <1>1, <2>1 DEF View
<1>4. /\ Named(ctx', paths) /\ Place(ctx', paths) = l /\ U = Written(T, s, y) /\ OnWay(U, l)
  <2>1. ctx' = Set(ctx, INP(ctx, n), x)
    OBVIOUS
  <2> HIDE DEF x
  <2>2. Fills(ctx, paths, n, x, ctx')
    BY <1>1, <1>2, <2>1, SoundStands DEF Fills, FormInv
  <2>3. Named(ctx', paths) /\ Place(ctx', paths) = l /\ OnWay(U, l)
    BY <2>2, FieldSet
  <2>4. U = Written(T, s, y)
    BY <2>2, FieldSet
  <2> QED BY <2>3, <2>4
<1>5. y.kind = k /\ y.val = v /\ What(y) = v
  BY <1>2 DEF View, What
<1> HIDE DEF x, T, U, l, s, y
<1>6. TreeOk(U)
  BY <1>1, <1>3, <1>4, <1>5, LeafTree DEF Written
<1>7. FormInv'
  BY <1>1, <1>4, <1>6 DEF FormInv, Sound, Placed, U, l
<1>8. FormOf(U) = PutIn(FormOf(T), s, v)
  <2>1. DOMAIN U = DOMAIN T /\ U[s] = y /\ \A r \in DOMAIN T : r # s => U[r] = T[r]
    BY <1>3, <1>4 DEF Written
  <2>2. y.kind # "UNSET"
    BY <1>5
  <2> QED BY <1>3, <1>5, <2>1, <2>2, FormPut
<1>9. Form = FormOf(T) /\ Form' = FormOf(U)
  BY <1>1, <1>4, FormNow, FormThen DEF T, U
<1>10. F!Put(s, v)
  BY <1>8, <1>9, FormsAre
<1>11. PathOf(ctx.cur_container) = l /\ PathOf(ctx.cur_container)' = l
  BY <1>4, PlaceNow DEF l
<1>12. ~F!In("subforms")
  BY <1>1, HereForm DEF IsRecord
<1>13. F!Write(n, v)
  BY <1>1, <1>10, <1>11, <1>12 DEF F!Write, s
<1> QED BY <1>7, <1>13

LEMMA SetInputStep ==
  ASSUME Fitting, FormInv, NEW n \in Names, NEW v \in Values, SetInput(n, v)
  PROVE  FormInv' /\ F!Write(n, v)
BY WriteStep DEF SetInput

LEMMA SetFileInputStep ==
  ASSUME Fitting, FormInv, NEW n \in Names, NEW v \in Values, SetFileInput(n, v)
  PROVE  FormInv' /\ F!Write(n, v)
<1>1. INP(ctx, n).block = 0 /\ INP(ctx, n).i = n /\ Sends(n, "file")
  BY InputsAssumption DEF SetFileInput, INP, Field, Names, Sends, IsRecord
<1>2. ctx' = Set(ctx, INP(ctx, n), Cell("FIL", v, NULL, NULL, NULL))
  BY <1>1 DEF SetFileInput, Set
<1> QED BY <1>1, <1>2, WriteStep DEF SetFileInput

\* A container of the record at hand is written, and becomes the place.
LEMMA FieldEntered ==
  ASSUME NEW c, NEW g, NEW n, NEW x, NEW d, Fills(c, g, n, x, d),
         x.kind \in {"SUBFORM", "SUBFORMS"}, x.parent = c.cur_container,
         NEW e, e = [d EXCEPT !.cur_container = INP(c, n)]
  PROVE  LET s == Append(Place(c, g), n)
         IN /\ Named(e, g) /\ e.block = c.block /\ Place(e, g) = s
            /\ Tree(e, g) = Written(Tree(c, g), s, View(c.block, g, x))
            /\ s \in DOMAIN Tree(c, g) /\ OnWay(Tree(e, g), s)
<1> DEFINE T == Tree(c, g)  U == Tree(d, g)  l == Place(c, g)  s == Append(l, n)  y == View(c.block, g, x)
           p == INP(c, n)
<1>1. /\ Named(d, g) /\ d.block = c.block /\ CellsOf(d) = CellsOf(c) /\ p \in CellsOf(c)
      /\ Trail(c.block, g, p) = s /\ s \in DOMAIN T /\ OnWay(U, l)
  BY FieldSet
<1>2. U = Written(T, s, y)
  BY FieldSet
<1>3. n \in Nat /\ l \in Seq(Nat) /\ Front(s) = l
  BY InpTree DEF Fills
<1>4. e = [d EXCEPT !.cur_container = p] /\ p \in Ptr /\ Somewhere(d, p)
  BY <1>1 DEF CellsOf, Somewhere
<1>5. y.kind = x.kind /\ y.parent = l
  BY DEF View, Place
<1> HIDE DEF T, U, l, s, y, p
<1>6. Named(e, g) /\ e.cur_container = p /\ e.block = d.block /\ Tree(e, g) = U
  <2>1. Goes(d, g, p, e)
    BY <1>1, <1>4 DEF Goes
  <2>2. Named(e, g)
    BY <2>1, TreePlace
  <2>3. e.cur_container = p
    BY <1>1, <1>4 DEF Named, Ok, Context
  <2>4. e.block = d.block
    BY <2>1, TreePlace
  <2>5. Tree(e, g) = Tree(d, g)
    BY <2>1, TreePlace
  <2> QED BY <2>2, <2>3, <2>4, <2>5 DEF U
<1>7. Place(e, g) = s
  BY <1>1, <1>6 DEF Place
<1>8. OnWay(U, s)
  <2>1. U[s] = y /\ s \in DOMAIN U
    BY <1>1, <1>2 DEF Written
  <2>2. HolderOk(U[s], s)
    BY <1>3, <1>5, <2>1 DEF HolderOk, Holders
  <2> QED BY <1>1, <1>3, <2>1, <2>2, WayIn DEF s
<1> QED BY <1>1, <1>2, <1>6, <1>7, <1>8 DEF T, U, l, s, y, p

LEMMA BeginSubformsStep ==
  ASSUME Fitting, FormInv, NEW n \in Names, BeginSubforms(n)
  PROVE  FormInv' /\ F!Open(n)
<1> DEFINE x == Cell("SUBFORMS", None, NULL, NULL, ctx.cur_container)
           T == Tree(ctx, paths)  U == Tree(ctx', paths)
           l == Place(ctx, paths)  s == Append(l, n)  y == View(ctx.block, paths, x)
           d == Set(ctx, INP(ctx, n), x)
<1>1. /\ Named(ctx, paths) /\ Ok(ctx) /\ TreeOk(T) /\ phase = "send" /\ IsRecord(ctx) /\ Standing(ctx, paths)
      /\ At(ctx, INP(ctx, n)).kind = "UNSET" /\ Shape[n] = "subforms" /\ UNCHANGED <<phase, got, paths>>
      /\ Sends(n, "subforms")
  BY SentField, SoundStands DEF FormInv, Sound, Named, BeginSubforms, Sends
<1>2. /\ x \in CellT /\ CellOk(ctx, x) /\ x.kind = "SUBFORMS" /\ x.parent = ctx.cur_container /\ x.ptr = NULL
  BY <1>1, NullPtr DEF Cell, CellT, CellOk, IsEntry, Ok, Context
<1>3. T[s].kind = "UNSET" /\ s \in DOMAIN T
  <2>1. s \in DOMAIN T /\ T[s] = View(ctx.block, paths, At(ctx, INP(ctx, n)))
    BY <1>1, InpTree
  <2> QED BY <1>1, <2>1 DEF View
<1>4. ctx' = [d EXCEPT !.cur_container = INP(ctx, n)]
  BY DEF BeginSubforms
<1> HIDE DEF x
<1>5. Fills(ctx, paths, n, x, d)
  BY <1>1, <1>2 DEF Fills
<1> HIDE DEF d
<1>6. Named(ctx', paths) /\ Place(ctx', paths) = s /\ OnWay(U, s)
  BY <1>2, <1>4, <1>5, FieldEntered
<1>7. U = Written(T, s, y)
  BY <1>2, <1>4, <1>5, FieldEntered
<1>8. y.kind = "SUBFORMS" /\ y.ptr = <<>> /\ What(y) = "subforms"
  <2>1. Trail(ctx.block, paths, NULL) = <<>>
    BY <1>1, TrailIs
  <2>2. y.kind = "SUBFORMS" /\ y.ptr = <<>>
    BY <1>2, <2>1 DEF View
  <2> QED BY <2>2 DEF What
<1> HIDE DEF T, U, l, s, y
<1>9. TreeOk(U)
  BY <1>1, <1>3, <1>7, <1>8, LeafTree DEF Written
<1>10. FormInv'
  BY <1>1, <1>6, <1>9 DEF FormInv, Sound, Placed, U
<1>11. FormOf(U) = PutIn(FormOf(T), s, "subforms")
  <2>1. DOMAIN U = DOMAIN T /\ U[s] = y /\ \A r \in DOMAIN T : r # s => U[r] = T[r]
    BY <1>3, <1>7 DEF Written
  <2> QED BY <1>3, <1>8, <2>1, FormPut
<1>12. Form = FormOf(T) /\ Form' = FormOf(U)
  BY <1>1, <1>6, FormNow, FormThen DEF T, U
<1>13. F!Put(s, "subforms")
  BY <1>11, <1>12, FormsAre
<1>14. PathOf(ctx.cur_container) = l /\ PathOf(ctx.cur_container)' = s
  BY <1>1, <1>6, PlaceNow DEF l
<1>15. ~F!In("subforms")
  BY <1>1, HereForm DEF IsRecord
<1>16. F!Open(n)
  BY <1>1, <1>13, <1>14, <1>15 DEF F!Open, s
<1> QED BY <1>10, <1>16

\* The fields of a record, as a sequence and as a set; they are new paths where they are not yet.
LEMMA RecordIs ==
  ASSUME NEW p \in Path
  PROVE  /\ Record(p) \in Seq(Path) /\ Len(Record(p)) = Fields /\ Fields \in Nat
         /\ ToSet(Record(p)) = {Append(p, k) : k \in Names}
         /\ \A i \in 1..Fields : Record(p)[i] = Append(p, i) /\ Len(Record(p)[i]) >= 2
         /\ \A i, j \in 1..Fields : Record(p)[i] = Record(p)[j] => i = j
<1>1. Fields \in Nat /\ Names = 1..Fields /\ Record(p) = [i \in 1..Fields |-> Append(p, i)]
  BY InputsAssumption DEF Names, Record
<1>2. p \in Seq(Nat) /\ Len(p) >= 1 /\ Len(p) \in Nat
  BY DEF Path
<1>3. \A i \in 1..Fields : Append(p, i) \in Path /\ Len(Append(p, i)) >= 2 /\ Last(Append(p, i)) = i
  <2> TAKE i \in 1..Fields
  <2>1. i \in Nat
    BY <1>1
  <2>2. Append(p, i) \in Path /\ Len(Append(p, i)) = Len(p) + 1 /\ Last(Append(p, i)) = i
    BY <1>2, <2>1, Paths
  <2> QED BY <1>2, <2>2
<1>4. Record(p) \in Seq(Path) /\ Len(Record(p)) = Fields
  BY <1>1, <1>3
<1>5. \A i, j \in 1..Fields : Append(p, i) = Append(p, j) => i = j
  <2> SUFFICES ASSUME NEW i \in 1..Fields, NEW j \in 1..Fields, Append(p, i) = Append(p, j) PROVE i = j
    OBVIOUS
  <2>1. Last(Append(p, i)) = i /\ Last(Append(p, j)) = j
    BY <1>3
  <2> QED BY <2>1
<1>6. ToSet(Record(p)) = {Append(p, k) : k \in Names}
  BY <1>1 DEF ToSet
<1>7. \A i \in 1..Fields : Record(p)[i] = Append(p, i)
  BY <1>1
<1>8. \A i \in 1..Fields : Len(Record(p)[i]) >= 2
  BY <1>3, <1>7
<1>9. \A i, j \in 1..Fields : Record(p)[i] = Record(p)[j] => i = j
  BY <1>5, <1>7
<1> QED BY <1>1, <1>4, <1>6, <1>7, <1>8, <1>9

\* A request that has got more cells.
Grown(h, c) == FormInv /\ NewPaths(ctx, paths, h) /\ c \in CheckInputSpace(ctx, Len(h))

LEMMA SpaceTree ==
  ASSUME NEW h, NEW c, Grown(h, c)
  PROVE  LET g == paths \o h
         IN /\ Standing(c, g) /\ Ok(c) /\ Place(c, g) = Place(ctx, paths)
            /\ Tree(c, g) = Extend(Tree(ctx, paths), ToSet(h))
            /\ Len(c.subinputs) = Len(paths) + Len(h) /\ Len(paths) \in Nat /\ Len(h) \in Nat
            /\ \A i \in 1..Len(h) : LET p == [block |-> c.block, i |-> Len(paths) + i]
                                    IN p \in CellsOf(c) /\ Trail(c.block, g, p) = h[i] /\ At(c, p) = Unset
<1> DEFINE g == paths \o h  T == Tree(ctx, paths)  S == ToSet(h)  X == Extend(T, S)
           l == Place(ctx, paths)  n == Len(paths)
<1>1. Named(ctx, paths) /\ Ok(ctx) /\ NewPaths(ctx, paths, h) /\ c \in CheckInputSpace(ctx, Len(h))
  BY DEF Grown, FormInv, Sound, Named
<1>2. /\ paths \in Seq(Path) /\ h \in Seq(Path) /\ n = Len(ctx.subinputs) /\ n \in Nat /\ Len(h) \in Nat
  BY <1>1 DEF Named, NewPaths
<1>0. Spaced(ctx, paths, h, c)
  BY <1>1 DEF Spaced
<1>3. Named(c, g) /\ Len(c.subinputs) = n + Len(h)
  BY <1>0, <1>2, TreeSpace
<1>4. Place(c, g) = l
  BY <1>0, TreeSpace DEF Place
<1>5. Tree(c, g) = X
  BY <1>0, TreeSpace
<1>6. /\ Ok(c) /\ (c.cur_container = NULL <=> ctx.cur_container = NULL)
      /\ \A i \in n + 1 .. n + Len(h) : c.subinputs[i] = Unset
  BY <1>1, <1>2, SpaceOk DEF Same
<1>7. Standing(ctx, paths)
  BY SoundStands DEF Grown, FormInv
<1>8. OnWay(T, l) /\ (ctx.cur_container # NULL => RecordOk(T, l) /\ l \in DOMAIN T)
  BY <1>7, HereTree DEF Standing
<1>9. DOMAIN T \subseteq DOMAIN X /\ \A r \in DOMAIN T : X[r] = T[r]
  BY DEF Extend
<1> HIDE DEF T, X, l
<1>10. OnWay(X, l)
  <2>1. \A r \in Above(l) : X[r] = T[r]
    BY <1>8, <1>9 DEF OnWay
  <2> QED BY <1>8, <1>9, <2>1, WayKept
<1>11. ctx.cur_container # NULL => RecordOk(X, l)
  BY <1>8, <1>9 DEF RecordOk
<1>12. Standing(c, g)
  BY <1>3, <1>4, <1>5, <1>6, <1>10, <1>11 DEF Standing
<1>13. ASSUME NEW i \in 1..Len(h)
       PROVE  LET p == [block |-> c.block, i |-> n + i]
              IN  p \in CellsOf(c) /\ Trail(c.block, g, p) = h[i] /\ At(c, p) = Unset
  <2> DEFINE p == [block |-> c.block, i |-> n + i]
  <2>1. Len(g) = n + Len(h) /\ g[n + i] = h[i]
    BY <1>2
  <2> HIDE DEF g
  <2>2. n + i \in 1..Len(g) /\ n + i \in Nat /\ n + i \in n + 1 .. n + Len(h)
    BY <1>2, <2>1
  <2>3. c.block \in Nat \ {0} /\ DOMAIN c.subinputs = 1..Len(g)
    BY <1>3, <1>6, <2>1 DEF Ok, Context
  <2>4. p \in CellsOf(c)
    BY <1>3, <2>1, <2>2, <2>3 DEF CellsOf, Ptr, Leads
  <2>5. Trail(c.block, g, p) = h[i]
    BY <1>3, <2>1, <2>2, TrailIs
  <2>6. At(c, p) = Unset
    BY <1>6, <2>2, <2>3 DEF At
  <2> QED BY <2>4, <2>5, <2>6
<1> HIDE DEF g, S, n
<1> QED BY <1>2, <1>3, <1>4, <1>5, <1>6, <1>12, <1>13 DEF g, S, n, T, X, l

LEMMA BeginSubformStep ==
  ASSUME Fitting, FormInv, NEW n \in Names, BeginSubform(n)
  PROVE  FormInv' /\ F!Open(n)
<1> DEFINE T == Tree(ctx, paths)  l == Place(ctx, paths)  s == Append(l, n)  h == Record(s)
<1>1. /\ Named(ctx, paths) /\ Ok(ctx) /\ TreeOk(T) /\ phase = "send" /\ IsRecord(ctx) /\ Standing(ctx, paths)
      /\ At(ctx, INP(ctx, n)).kind = "UNSET" /\ Shape[n] = "subform" /\ UNCHANGED <<phase, got>>
  BY SentField, SoundStands DEF FormInv, Sound, Named, BeginSubform, Sends
<1>2. /\ s \in DOMAIN T /\ T[s].kind = "UNSET" /\ PathOf(INP(ctx, n)) = s
      /\ s \in Path /\ n \in Nat /\ l \in Seq(Nat) /\ Front(s) = l
  <2>1. s \in DOMAIN T /\ T[s] = View(ctx.block, paths, At(ctx, INP(ctx, n)))
    BY <1>1, InpTree
  <2>2. INP(ctx, n) \in CellsOf(ctx) /\ Trail(ctx.block, paths, INP(ctx, n)) = s
    BY <1>1, InpTree
  <2>3. n \in Nat /\ l \in Seq(Nat) /\ Front(s) = l
    BY <1>1, InpTree
  <2>4. PathOf(INP(ctx, n)) = s
    BY <2>2, PlaceNow DEF CellsOf
  <2> QED BY <1>1, <2>1, <2>3, <2>4 DEF View, TreeOk
<1>3. /\ h \in Seq(Path) /\ Len(h) = Fields /\ Fields \in Nat
      /\ ToSet(h) = {Append(s, k) : k \in Names}
      /\ \A i \in 1..Len(h) : h[i] = Append(s, i) /\ Len(h[i]) >= 2
      /\ \A i, j \in 1..Len(h) : h[i] = h[j] => i = j
  BY <1>2, RecordIs
<1>4. paths' = paths \o h
  BY <1>2 DEF BeginSubform
<1>5. NewPaths(ctx, paths, h)
  <2>1. DOMAIN T = PathsOf(ctx, paths)
    BY <1>1, TreeAt
  <2>2. \A i \in 1..Len(h) : h[i] \notin DOMAIN T
    <3> TAKE i \in 1..Len(h)
    <3>1. i \in Nat /\ T[s].kind \notin Holders
      BY <1>2, <1>3 DEF Holders
    <3> QED BY <1>1, <1>2, <1>3, <3>1, FreshPaths
  <2> QED BY <1>3, <2>1, <2>2 DEF NewPaths
<1>6. PICK c \in CheckInputSpace(ctx, Fields) :
        ctx' = [Set(c, INP(c, n), SubformCell(c, Fresh(c, Fields))) EXCEPT !.cur_container = INP(c, n)]
  BY DEF BeginSubform
<1> DEFINE X == Extend(T, {Append(s, k) : k \in Names})  e == Fresh(c, Fields)  x == SubformCell(c, e)
           d == Set(c, INP(c, n), x)  y == View(c.block, paths', x)  U == Tree(ctx', paths')
<1>7. Grown(h, c)
  BY <1>3, <1>5, <1>6 DEF Grown
<1> HIDE DEF T, h, l, s
<1>8. /\ Standing(c, paths') /\ Ok(c) /\ Place(c, paths') = l
      /\ Len(c.subinputs) = Len(paths) + Fields /\ Len(paths) \in Nat
      /\ \A i \in 1..Fields : LET p == [block |-> c.block, i |-> Len(paths) + i]
                              IN p \in CellsOf(c) /\ Trail(c.block, paths', p) = h[i]
  BY <1>3, <1>4, <1>7, SpaceTree DEF l
<1>9. Tree(c, paths') = X
  BY <1>3, <1>4, <1>7, SpaceTree DEF T
<1>10. IsRecord(c) /\ At(c, INP(c, n)).kind = "UNSET"
  BY <1>1, <1>3, <1>6, SpaceOk DEF Same
<1>11. e = [block |-> c.block, i |-> Len(paths) + 1] /\ e \in Ptr /\ HoldsRecord(c, e)
  <2>1. c.block \in Nat
    BY <1>8 DEF Ok, Context
  <2>2. (Len(paths) + Fields) - Fields + 1 = Len(paths) + 1
    BY <1>3, <1>8
  <2> QED BY <1>3, <1>8, <2>1, <2>2 DEF Fresh, Ptr, HoldsRecord
<1>12. \A k \in Names : Trail(c.block, paths', Field(e, k)) = Append(s, k)
  <2> TAKE k \in Names
  <2>1. k \in 1..Fields /\ k \in Nat
    BY DEF Names
  <2>2. Field(e, k) = [block |-> c.block, i |-> Len(paths) + k]
    <3>1. Len(paths) + 1 + k - 1 = Len(paths) + k
      BY <1>8, <2>1
    <3> QED BY <1>11, <3>1 DEF Field
  <2> QED BY <1>3, <1>8, <2>1, <2>2
<1>13. x \in CellT /\ CellOk(c, x) /\ x.kind = "SUBFORM" /\ x.parent = c.cur_container /\ x.ptr = e
  <2>1. c.cur_container \in Ptr /\ Somewhere(c, c.cur_container)
    BY <1>8 DEF Ok, Context
  <2> HIDE DEF e
  <2> QED BY <1>11, <2>1, NullPtr DEF SubformCell, Cell, CellT, CellOk
<1> HIDE DEF e
<1>14. ctx' = [d EXCEPT !.cur_container = INP(c, n)]
  BY <1>6 DEF e
<1> HIDE DEF x
<1>15. Fills(c, paths', n, x, d)
  BY <1>8, <1>10, <1>13 DEF Fills
<1> HIDE DEF d
<1>16. Named(ctx', paths') /\ Place(ctx', paths') = s /\ OnWay(U, s)
  BY <1>8, <1>13, <1>14, <1>15, FieldEntered DEF s
<1>17. U = Written(X, s, y)
  BY <1>8, <1>9, <1>13, <1>14, <1>15, FieldEntered DEF s
<1>18. y.kind = "SUBFORM" /\ y.fields = Record(s) /\ What(y) = "subform"
  <2>1. y.kind = "SUBFORM" /\ y.fields = [k \in Names |-> Trail(c.block, paths', Field(e, k))]
    BY <1>13 DEF View
  <2>2. y.fields = Record(s)
    BY <1>12, <2>1 DEF Record
  <2> QED BY <2>1, <2>2 DEF What
<1> HIDE DEF y, U, X
<1>19. TreeOk(U)
  BY <1>1, <1>2, <1>17, <1>18, SubformTree DEF X
<1>20. FormInv'
  BY <1>1, <1>16, <1>19 DEF FormInv, Sound, Placed, U
<1>21. FormOf(U) = PutIn(FormOf(T), s, "subform")
  <2>1. /\ DOMAIN U = DOMAIN X /\ U[s] = y /\ \A r \in DOMAIN X : r # s => U[r] = X[r]
    BY <1>2, <1>17 DEF Written, X, Extend
  <2>2. /\ DOMAIN T \subseteq DOMAIN X /\ \A r \in DOMAIN T : X[r] = T[r]
        /\ \A r \in DOMAIN X : r \notin DOMAIN T => X[r].kind = "UNSET"
    BY DEF X, Extend, Blank
  <2>3. /\ DOMAIN T \subseteq DOMAIN U /\ s \in DOMAIN U /\ U[s].kind # "UNSET" /\ What(U[s]) = "subform"
    BY <1>2, <1>18, <2>1, <2>2
  <2>4. \A r \in DOMAIN T : r # s => What(U[r]) = What(T[r]) /\ (U[r].kind = "UNSET" <=> T[r].kind = "UNSET")
    BY <2>1, <2>2
  <2>5. \A r \in DOMAIN U : r \notin DOMAIN T /\ r # s => U[r].kind = "UNSET"
    BY <2>1, <2>2
  <2> HIDE DEF T
  <2> QED BY <2>3, <2>4, <2>5, FormPut
<1>22. Form = FormOf(T) /\ Form' = FormOf(U)
  BY <1>1, <1>16, FormNow, FormThen DEF T, U
<1>23. F!Put(s, "subform")
  BY <1>21, <1>22, FormsAre
<1>24. PathOf(ctx.cur_container) = l /\ PathOf(ctx.cur_container)' = s
  BY <1>16, PlaceNow DEF l
<1>25. ~F!In("subforms")
  BY <1>1, HereForm DEF IsRecord
<1>26. F!Open(n)
  BY <1>1, <1>23, <1>24, <1>25 DEF F!Open, s
<1> QED BY <1>20, <1>26

LEMMA Joined ==
  ASSUME NEW s \in Seq(Path), NEW t \in Seq(Path)
  PROVE  /\ s \o t \in Seq(Path) /\ Len(s \o t) = Len(s) + Len(t) /\ Len(s) \in Nat /\ Len(t) \in Nat
         /\ \A i \in 1..Len(s) : (s \o t)[i] = s[i]
         /\ \A i \in 1..Len(t) : (s \o t)[Len(s) + i] = t[i]
OBVIOUS

\* An entry and its fields, as a sequence and as a set.
LEMMA EntryPathsAre ==
  ASSUME NEW p \in Path, Len(p) >= 2, NEW h, h = <<p>> \o Record(p), NEW g \in Seq(Path)
  PROVE  /\ h \in Seq(Path) /\ Len(h) = Fields + 1 /\ Fields \in Nat
         /\ ToSet(h) = {p} \cup {Append(p, k) : k \in Names}
         /\ h[1] = p /\ \A k \in Names : k + 1 \in 1..Len(h) /\ h[k + 1] = Append(p, k)
         /\ \A i \in 1..Len(h) : Len(h[i]) >= 2 /\ (h[i] = p \/ \E k \in Names : h[i] = Append(p, k))
         /\ \A i, j \in 1..Len(h) : h[i] = h[j] => i = j
         /\ Append(g, p) \o Record(p) = g \o h
<1> DEFINE r == Record(p)
<1>1. /\ r \in Seq(Path) /\ Len(r) = Fields /\ Fields \in Nat /\ Names = 1..Fields
      /\ \A i \in 1..Fields : r[i] = Append(p, i) /\ Len(r[i]) >= 2
      /\ \A i, j \in 1..Fields : r[i] = r[j] => i = j
  BY RecordIs DEF Names
<1> HIDE DEF r
<1>2. h = <<p>> \o r
  BY DEF r
<1>3. h \in Seq(Path) /\ Len(h) = Fields + 1 /\ h[1] = p /\ \A i \in 1..Fields : h[i + 1] = r[i]
  <2> DEFINE u == <<p>>
  <2>1. u \in Seq(Path) /\ Len(u) = 1 /\ u[1] = p /\ h = u \o r
    BY <1>2
  <2> HIDE DEF u
  <2>4. /\ u \o r \in Seq(Path) /\ Len(u \o r) = Len(u) + Len(r)
        /\ \A i \in 1..Len(u) : (u \o r)[i] = u[i]
        /\ \A i \in 1..Len(r) : (u \o r)[Len(u) + i] = r[i]
    BY <1>1, <2>1, Joined
  <2>2. h \in Seq(Path) /\ Len(h) = 1 + Fields /\ h[1] = p /\ \A i \in 1..Fields : h[1 + i] = r[i]
    <3> DEFINE v == u \o r
    <3>1. /\ v \in Seq(Path) /\ Len(v) = Len(u) + Len(r) /\ h = v
          /\ \A i \in 1..Len(u) : v[i] = u[i]
          /\ \A i \in 1..Len(r) : v[Len(u) + i] = r[i]
      BY <2>1, <2>4
    <3> HIDE DEF v
    <3>2. v[1] = p
      BY <2>1, <3>1
    <3>3. \A i \in 1..Fields : v[1 + i] = r[i]
      BY <1>1, <2>1, <3>1
    <3>4. v \in Seq(Path) /\ Len(v) = 1 + Fields
      BY <1>1, <2>1, <3>1
    <3>5. h = v
      BY <3>1
    <3> QED BY <3>2, <3>3, <3>4, <3>5, Zenon
  <2>3. \A i \in 1..Fields : 1 + i = i + 1
    BY <1>1
  <2> QED BY <1>1, <2>2, <2>3
<1>4. \A i \in 1..Fields + 1 : i = 1 \/ (i - 1 \in 1..Fields /\ h[i] = r[i - 1])
  <2> TAKE i \in 1..Fields + 1
  <2>1. i # 1 => i - 1 \in 1..Fields /\ (i - 1) + 1 = i
    BY <1>1
  <2> QED BY <1>3, <2>1
<1>5. \A k \in Names : k + 1 \in 1..Len(h) /\ h[k + 1] = Append(p, k)
  BY <1>1, <1>3
<1>6. \A k \in Names : Append(p, k) # p
  <2>1. p \in Seq(Nat) /\ \A k \in Names : k \in Nat
    BY <1>1 DEF Path
  <2> QED BY <2>1, Paths
<1>7. \A i \in 1..Len(h) : Len(h[i]) >= 2 /\ (h[i] = p \/ \E k \in Names : h[i] = Append(p, k))
  <2> SUFFICES ASSUME NEW i \in 1..Fields + 1
               PROVE  Len(h[i]) >= 2 /\ (h[i] = p \/ \E k \in Names : h[i] = Append(p, k))
    BY <1>3
  <2>1. CASE i = 1
    BY <1>3, <2>1
  <2>2. CASE i # 1
    <3>1. i - 1 \in Names /\ h[i] = r[i - 1]
      BY <1>1, <1>4, <2>2
    <3> QED BY <1>1, <3>1
  <2> QED BY <2>1, <2>2
<1>8. \A i, j \in 1..Len(h) : h[i] = h[j] => i = j
  <2> SUFFICES ASSUME NEW i \in 1..Fields + 1, NEW j \in 1..Fields + 1, h[i] = h[j] PROVE i = j
    BY <1>3
  <2>1. CASE i = 1 /\ j # 1
    BY <1>1, <1>3, <1>4, <1>6, <2>1
  <2>2. CASE i # 1 /\ j = 1
    BY <1>1, <1>3, <1>4, <1>6, <2>2
  <2>3. CASE i # 1 /\ j # 1
    <3>1. i - 1 \in 1..Fields /\ h[i] = r[i - 1] /\ j - 1 \in 1..Fields /\ h[j] = r[j - 1]
      BY <1>4, <2>3
    <3>2. r[i - 1] = r[j - 1]
      BY <3>1
    <3>3. i - 1 = j - 1
      BY <1>1, <3>1, <3>2
    <3> QED BY <1>1, <3>3
  <2> QED BY <2>1, <2>2, <2>3
<1>9. ToSet(h) = {p} \cup {Append(p, k) : k \in Names}
  <2>1. DOMAIN h = 1..Len(h) /\ 1 \in 1..Len(h)
    BY <1>1, <1>3
  <2>2. ToSet(h) = {h[i] : i \in 1..Len(h)}
    BY <2>1 DEF ToSet
  <2>3. ToSet(h) \subseteq {p} \cup {Append(p, k) : k \in Names}
    BY <1>7, <2>2
  <2>4. p \in ToSet(h) /\ \A k \in Names : Append(p, k) \in ToSet(h)
    BY <1>3, <1>5, <2>1, <2>2
  <2> QED BY <2>3, <2>4
<1>10. Append(g, p) \o r = g \o h
  <2> DEFINE q == Append(g, p)  a == q \o r  b == g \o h
  <2>1. q \in Seq(Path) /\ Len(q) = Len(g) + 1 /\ Len(g) \in Nat /\ q[Len(g) + 1] = p /\ \A i \in 1..Len(g) : q[i] = g[i]
    OBVIOUS
  <2> HIDE DEF q
  <2>2. /\ a \in Seq(Path) /\ Len(a) = (Len(g) + 1) + Fields
        /\ \A i \in 1..Len(g) + 1 : a[i] = q[i]
        /\ \A k \in 1..Fields : a[(Len(g) + 1) + k] = r[k]
    <3>1. /\ q \o r \in Seq(Path) /\ Len(q \o r) = Len(q) + Len(r)
          /\ \A i \in 1..Len(q) : (q \o r)[i] = q[i]
          /\ \A i \in 1..Len(r) : (q \o r)[Len(q) + i] = r[i]
      BY <1>1, <2>1, Joined
    <3> QED BY <1>1, <2>1, <3>1
  <2>3. /\ b \in Seq(Path) /\ Len(b) = Len(g) + (Fields + 1)
        /\ \A i \in 1..Len(g) : b[i] = g[i]
        /\ \A k \in 1..Fields + 1 : b[Len(g) + k] = h[k]
    BY <1>3, Joined
  <2> HIDE DEF a, b
  <2>4. Len(a) = Len(b)
    BY <1>1, <2>1, <2>2, <2>3
  <2>5. ASSUME NEW i \in 1..Len(a) PROVE a[i] = b[i]
    <3>1. CASE i <= Len(g)
      <4>1. i \in 1..Len(g) /\ i \in 1..Len(g) + 1
        BY <2>1, <3>1
      <4> QED BY <2>1, <2>2, <2>3, <4>1
    <3>2. CASE i = Len(g) + 1
      <4>1. i \in 1..Len(g) + 1 /\ 1 \in 1..Fields + 1
        BY <1>1, <2>1, <3>2
      <4> QED BY <1>3, <2>1, <2>2, <2>3, <3>2, <4>1
    <3>3. CASE i > Len(g) + 1
      <4>1. PICK k \in 1..Fields : i = (Len(g) + 1) + k
        <5>1. i - (Len(g) + 1) \in 1..Fields /\ i = (Len(g) + 1) + (i - (Len(g) + 1))
          BY <1>1, <2>1, <2>2, <3>3
        <5> QED BY <5>1
      <4>2. i = Len(g) + (k + 1) /\ k + 1 \in 1..Fields + 1
        BY <1>1, <2>1, <4>1
      <4>3. a[i] = r[k]
        BY <2>2, <4>1
      <4>4. b[i] = h[k + 1]
        BY <2>3, <4>2
      <4> QED BY <1>3, <4>3, <4>4
    <3> QED BY <2>1, <3>1, <3>2, <3>3
  <2>6. a = [i \in 1..Len(a) |-> a[i]] /\ b = [i \in 1..Len(b) |-> b[i]]
    BY <2>2, <2>3
  <2>7. a = b
    BY <2>4, <2>5, <2>6
  <2> QED BY <2>7 DEF a, b, q
<1> QED BY <1>1, <1>3, <1>5, <1>7, <1>8, <1>9, <1>10 DEF r

\* An entry is written, and its list with it.
Adds(c, g, e, s, d) ==
  /\ Standing(c, g) /\ c.cur_container # NULL /\ Here(c).kind = "SUBFORMS"
  /\ e \in CellsOf(c) /\ At(c, e) = Unset /\ e.block = c.block /\ HoldsRecord(c, Field(e, 2))
  /\ Trail(c.block, g, e) = s /\ \A k \in Names : Trail(c.block, g, Field(Field(e, 2), k)) = Append(s, k)
  /\ d = [Set(Set(c, e, EntryCell(c, e)), c.cur_container, [Here(c) EXCEPT !.ptr = e]) EXCEPT !.cur_container = e]

LEMMA EntryAdded ==
  ASSUME NEW c, NEW g, NEW e, NEW s, NEW d, Adds(c, g, e, s, d)
  PROVE  /\ Named(d, g) /\ Place(d, g) = s
         /\ \E y, z : /\ Tree(d, g) = Written(Written(Tree(c, g), s, y), Place(c, g), z)
                      /\ y.kind = "ENTRY" /\ y.fields = Record(s) /\ y.parent = Place(c, g)
                      /\ y.next = Tree(c, g)[Place(c, g)].ptr
                      /\ z.kind = "SUBFORMS" /\ z.ptr = s /\ z.parent = Tree(c, g)[Place(c, g)].parent
<1> DEFINE T == Tree(c, g)  l == Place(c, g)  b == c.block  p == c.cur_container  w == Here(c)
           x == EntryCell(c, e)  d1 == Set(c, e, x)  y == View(b, g, x)
           v == [w EXCEPT !.ptr = e]  d2 == Set(d1, p, v)  z == View(b, g, v)
<1>1. /\ Standing(c, g) /\ Named(c, g) /\ Ok(c) /\ p # NULL /\ w.kind = "SUBFORMS"
      /\ e \in CellsOf(c) /\ e \in Ptr /\ At(c, e) = Unset /\ HoldsRecord(c, Field(e, 2)) /\ e.block = b
      /\ Trail(b, g, e) = s /\ \A k \in Names : Trail(b, g, Field(Field(e, 2), k)) = Append(s, k)
      /\ d = [d2 EXCEPT !.cur_container = e]
  BY DEF Adds, Standing, Named, CellsOf
<1>2. /\ p \in CellsOf(c) /\ w = At(c, p) /\ w \in CellT /\ CellOk(c, w) /\ T[l] = View(b, g, w)
      /\ p \in Ptr /\ Somewhere(c, p)
  BY <1>1, HereTree DEF CellsOf, Somewhere
<1>3. T[l].ptr = Trail(b, g, w.ptr) /\ T[l].parent = Trail(b, g, w.parent)
  <2> HIDE DEF T, l, w
  <2> QED BY <1>1, <1>2 DEF View
<1>4. x \in CellT /\ CellOk(c, x) /\ x.kind = "ENTRY" /\ x.ptr = Field(e, 2) /\ x.next = w.ptr /\ x.parent = p
  <2>1. Field(e, 2) \in Ptr
    <3>1. ASSUME NEW q \in Ptr PROVE Field(q, 2) \in Ptr
      <4>1. q.i \in Nat /\ q.i + 2 - 1 \in Nat /\ Field(q, 2) = [block |-> q.block, i |-> q.i + 2 - 1]
        BY DEF Field, Ptr
      <4> QED BY <4>1 DEF Ptr
    <3> QED BY <1>1, <3>1
  <2>2. w.ptr \in Ptr /\ IsEntry(c, w.ptr)
    BY <1>1, <1>2 DEF CellT, CellOk
  <2> HIDE DEF w, p
  <2>3. x = Cell("ENTRY", None, Field(e, 2), w.ptr, p)
    BY DEF EntryCell, w, p
  <2> HIDE DEF x
  <2> QED BY <1>1, <1>2, <2>1, <2>2, <2>3, NullPtr DEF Cell, CellT, CellOk
<1>5. y.kind = "ENTRY" /\ y.fields = Record(s) /\ y.parent = l /\ y.next = T[l].ptr
  <2> HIDE DEF x, T, w
  <2>1. y.fields = [k \in Names |-> Trail(b, g, Field(Field(e, 2), k))]
    BY <1>4 DEF View
  <2>2. y.fields = Record(s)
    BY <1>1, <2>1 DEF Record
  <2> QED BY <1>3, <1>4, <2>2 DEF View, Place
<1> HIDE DEF x, w, y
<1>6. Writes(c, g, e, x, d1)
  BY <1>1, <1>4 DEF Writes
<1> HIDE DEF d1
<1>7. Named(d1, g) /\ d1.block = b /\ CellsOf(d1) = CellsOf(c) /\ d1.cur_container = p
  BY <1>6, TreeSet
<1>8. At(d1, e) = x /\ \A q \in CellsOf(c) : q # e => At(d1, q) = At(c, q)
  BY <1>6, TreeSet
<1>9. Tree(d1, g) = Written(T, s, y)
  <2>1. Tree(d1, g) = Written(T, Trail(b, g, e), y)
    BY <1>6, TreeSet DEF y
  <2> QED BY <1>1, <2>1
<1>10. p # e /\ At(d1, p) = w
  <2>1. At(c, p) # Unset
    BY <1>1, <1>2 DEF Unset, Cell
  <2> QED BY <1>1, <1>2, <1>8, <2>1
<1>11. v \in CellT /\ CellOk(d1, v) /\ v.kind = "SUBFORMS" /\ v.parent = w.parent /\ v.ptr = e
  <2>1. v \in CellT /\ v.kind = "SUBFORMS" /\ v.parent = w.parent /\ v.ptr = e
    BY <1>1, <1>2 DEF CellT
  <2> HIDE DEF v
  <2>2. IsEntry(d1, e)
    <3>1. d1.block \in Nat \ {0} /\ Leads(d1, e) /\ e.i \in Nat
      BY <1>1, <1>7 DEF Named, Ok, Context, CellsOf, Ptr
    <3>2. e.block = d1.block /\ e.i \in 1..Len(d1.subinputs) /\ DOMAIN d1.subinputs = 1..Len(d1.subinputs)
      BY <1>1, <1>7, <3>1 DEF Leads, Named, Ok, Context
    <3>3. d1.subinputs[e.i] = x
      BY <1>8, <3>1, <3>2 DEF At
    <3> QED BY <1>4, <3>2, <3>3 DEF IsEntry
  <2>3. Somewhere(d1, w.parent)
    <3>1. w.parent \in Ptr /\ Somewhere(c, w.parent)
      BY <1>2 DEF CellT, CellOk
    <3>2. \A q \in Ptr : Leads(c, q) => Leads(d1, q)
      BY <1>7 DEF CellsOf
    <3> QED BY <3>1, <3>2 DEF Somewhere
  <2> QED BY <2>1, <2>2, <2>3 DEF CellOk
<1> HIDE DEF v
<1>12. Writes(d1, g, p, v, d2)
  BY <1>1, <1>2, <1>7, <1>10, <1>11 DEF Writes
<1> HIDE DEF d2
<1>13. Named(d2, g) /\ d2.block = b /\ CellsOf(d2) = CellsOf(c)
  BY <1>7, <1>12, TreeSet
<1>14. Tree(d2, g) = Written(Written(T, s, y), l, z)
  <2>1. Tree(d2, g) = Written(Tree(d1, g), Trail(d1.block, g, p), View(d1.block, g, v))
    BY <1>12, TreeSet
  <2>2. Trail(d1.block, g, p) = l /\ View(d1.block, g, v) = z
    BY <1>7 DEF Place
  <2> QED BY <1>9, <2>1, <2>2, Zenon
<1>15. z.kind = "SUBFORMS" /\ z.ptr = s /\ z.parent = T[l].parent
  <2>1. z.kind = "SUBFORMS" /\ z.ptr = Trail(b, g, e) /\ z.parent = Trail(b, g, w.parent)
    BY <1>11 DEF View
  <2> HIDE DEF z
  <2> QED BY <1>1, <1>3, <2>1
<1>16. Goes(d2, g, e, d)
  BY <1>1, <1>13 DEF Goes, CellsOf, Somewhere
<1>17. Named(d, g) /\ Tree(d, g) = Tree(d2, g)
  BY <1>16, TreePlace
<1>18. Place(d, g) = s
  <2>1. d.cur_container = e /\ d.block = d2.block
    BY <1>16, TreePlace
  <2> QED BY <1>1, <1>13, <2>1 DEF Place
<1> HIDE DEF z, T, l
<1> QED BY <1>5, <1>14, <1>15, <1>17, <1>18, Zenon DEF T, l

LEMMA BeginEntryStep == ASSUME FormInv, BeginEntry PROVE FormInv' /\ F!Item
<1> DEFINE T == Tree(ctx, paths)  l == Place(ctx, paths)  m == Size(T[l])  s == Append(l, m + 1)
           h == <<s>> \o Record(s)  head == Here(ctx).ptr
<1>1. /\ Named(ctx, paths) /\ Ok(ctx) /\ TreeOk(T) /\ OnWay(T, l) /\ Standing(ctx, paths) /\ phase = "send"
      /\ ctx.cur_container # NULL /\ Here(ctx).kind = "SUBFORMS" /\ UNCHANGED <<phase, got>>
  BY SoundStands DEF FormInv, Sound, Placed, Named, BeginEntry
<1>2. /\ l \in DOMAIN T /\ l \in Path /\ l \in Seq(Nat) /\ l # <<>> /\ Here(ctx) \in CellT /\ CellOk(ctx, Here(ctx))
      /\ T[l] = View(ctx.block, paths, Here(ctx))
  BY <1>1, HereTree DEF Path
<1>3. T[l].kind = "SUBFORMS" /\ T[l].ptr = Trail(ctx.block, paths, head) /\ m \in Nat
  <2>1. T[l].kind = "SUBFORMS" /\ T[l].ptr = Trail(ctx.block, paths, head)
    <3> HIDE DEF T, l, m
    <3> QED BY <1>1, <1>2 DEF View
  <2> QED BY <1>1, <1>2, <2>1 DEF TreeOk, NodeOk, ListOk
<1>4. s \in Path /\ s \in Seq(Nat) /\ Len(s) >= 2 /\ Front(s) = l /\ m + 1 \in Nat
  <2>1. m + 1 \in Nat /\ Len(l) \in Nat /\ Len(l) >= 1
    BY <1>2, <1>3 DEF Path
  <2> HIDE DEF l, m
  <2>2. s \in Path /\ Len(s) = Len(l) + 1 /\ Front(s) = l
    BY <1>2, <2>1, Paths
  <2> QED BY <2>1, <2>2 DEF Path
<1>5. s = Append(PathOf(ctx.cur_container), IF head = NULL THEN 1 ELSE Last(PathOf(head)) + 1)
  <2>1. head \in Ptr /\ Somewhere(ctx, head)
    BY <1>1, <1>2, PointersLead
  <2>2. PathOf(head) = T[l].ptr /\ PathOf(ctx.cur_container) = l
    BY <1>3, <2>1, PlaceNow
  <2>3. head = NULL <=> T[l].ptr = <<>>
    <3>1. head = NULL => T[l].ptr = <<>>
      BY <1>1, <1>3, TrailIs
    <3>2. head # NULL => T[l].ptr \in Path
      BY <1>1, <1>3, <2>1, TrailIs DEF Somewhere, CellsOf
    <3> QED BY <3>1, <3>2 DEF Path
  <2> HIDE DEF T, l, head
  <2>4. m + 1 = IF head = NULL THEN 1 ELSE Last(PathOf(head)) + 1
    BY <2>2, <2>3 DEF Size
  <2> QED BY <2>2, <2>4
<1> HIDE DEF T, l, m, s, h, head
<1>6. /\ h \in Seq(Path) /\ Len(h) = Fields + 1 /\ Fields \in Nat
      /\ ToSet(h) = {s} \cup {Append(s, k) : k \in Names}
      /\ h[1] = s /\ \A k \in Names : k + 1 \in 1..Len(h) /\ h[k + 1] = Append(s, k)
      /\ \A i \in 1..Len(h) : Len(h[i]) >= 2 /\ (h[i] = s \/ \E k \in Names : h[i] = Append(s, k))
      /\ \A i, j \in 1..Len(h) : h[i] = h[j] => i = j
  <2>1. paths \in Seq(Path)
    BY <1>1 DEF Named
  <2>2. /\ h \in Seq(Path) /\ Len(h) = Fields + 1 /\ Fields \in Nat
        /\ ToSet(h) = {s} \cup {Append(s, k) : k \in Names}
    BY <1>4, <2>1, EntryPathsAre DEF h
  <2>3. h[1] = s /\ \A k \in Names : k + 1 \in 1..Len(h) /\ h[k + 1] = Append(s, k)
    BY <1>4, <2>1, EntryPathsAre DEF h
  <2>4. \A i \in 1..Len(h) : Len(h[i]) >= 2 /\ (h[i] = s \/ \E k \in Names : h[i] = Append(s, k))
    BY <1>4, <2>1, EntryPathsAre DEF h
  <2>5. \A i, j \in 1..Len(h) : h[i] = h[j] => i = j
    BY <1>4, <2>1, EntryPathsAre DEF h
  <2> QED BY <2>2, <2>3, <2>4, <2>5
<1>7. paths' = paths \o h
  <2>1. paths' = Append(paths, s) \o Record(s)
    BY <1>5 DEF BeginEntry, head
  <2>2. paths \in Seq(Path)
    BY <1>1 DEF Named
  <2>3. Append(paths, s) \o Record(s) = paths \o h
    BY <1>4, <2>2, EntryPathsAre DEF h
  <2> QED BY <2>1, <2>3
<1>8. s \notin DOMAIN T /\ \A k \in Names : Append(s, k) \notin DOMAIN T
  <2>1. \A k \in Nat : s \notin DOMAIN T /\ Append(s, k) \notin DOMAIN T
    BY <1>1, <1>2, <1>3, FreshPaths DEF s, m
  <2>2. 1 \in Nat /\ \A k \in Names : k \in Nat
    BY DEF Names
  <2> QED BY <2>1, <2>2
<1>9. NewPaths(ctx, paths, h)
  <2>1. DOMAIN T = PathsOf(ctx, paths)
    BY <1>1, TreeAt DEF T
  <2>2. \A i \in 1..Len(h) : h[i] \notin DOMAIN T
    BY <1>6, <1>8
  <2> QED BY <1>6, <2>1, <2>2 DEF NewPaths
<1>10. PICK c \in CheckInputSpace(ctx, Fields + 1) :
         LET e == Fresh(c, Fields + 1)
         IN ctx' = [Set(Set(c, e, EntryCell(c, e)), c.cur_container, [Here(c) EXCEPT !.ptr = e])
                    EXCEPT !.cur_container = e]
  BY DEF BeginEntry
<1> DEFINE e == Fresh(c, Fields + 1)  X == Extend(T, {s} \cup {Append(s, k) : k \in Names})  U == Tree(ctx', paths')
<1>11. Grown(h, c)
  BY <1>6, <1>9, <1>10 DEF Grown
<1>12. /\ Standing(c, paths') /\ Ok(c) /\ Place(c, paths') = l
       /\ Len(c.subinputs) = Len(paths) + (Fields + 1) /\ Len(paths) \in Nat
       /\ \A i \in 1..Fields + 1 : LET p == [block |-> c.block, i |-> Len(paths) + i]
                                   IN p \in CellsOf(c) /\ Trail(c.block, paths', p) = h[i] /\ At(c, p) = Unset
  <2>1. Standing(c, paths') /\ Ok(c)
    BY <1>7, <1>11, SpaceTree
  <2>2. Place(c, paths') = l
    BY <1>7, <1>11, SpaceTree DEF l
  <2>3. Len(c.subinputs) = Len(paths) + Len(h) /\ Len(paths) \in Nat
    BY <1>11, SpaceTree
  <2>4. \A i \in 1..Len(h) : LET p == [block |-> c.block, i |-> Len(paths) + i]
                             IN p \in CellsOf(c) /\ Trail(c.block, paths', p) = h[i] /\ At(c, p) = Unset
    BY <1>7, <1>11, SpaceTree
  <2>5. Len(h) = Fields + 1
    BY <1>6
  <2> QED BY <2>1, <2>2, <2>3, <2>4, <2>5
<1>13. Tree(c, paths') = X
  <2>1. Tree(c, paths') = Extend(T, ToSet(h))
    BY <1>7, <1>11, SpaceTree DEF T
  <2>2. ToSet(h) = {s} \cup {Append(s, k) : k \in Names}
    BY <1>6
  <2> QED BY <2>1, <2>2
<1>14. c.cur_container # NULL /\ Here(c).kind = "SUBFORMS"
  <2>1. Fields + 1 \in Nat
    BY <1>6
  <2> QED BY <1>1, <1>10, <2>1, SpaceOk DEF Same
<1>15. /\ e = [block |-> c.block, i |-> Len(paths) + 1] /\ Field(e, 2) = [block |-> c.block, i |-> Len(paths) + 2]
       /\ c.block \in Nat \ {0}
  <2>1. c.block \in Nat \ {0}
    BY <1>12 DEF Ok, Context
  <2>2. (Len(paths) + (Fields + 1)) - (Fields + 1) + 1 = Len(paths) + 1 /\ Len(paths) + 1 + 2 - 1 = Len(paths) + 2
    BY <1>6, <1>12
  <2>3. e = [block |-> c.block, i |-> Len(paths) + 1]
    BY <1>12, <2>2 DEF Fresh
  <2> HIDE DEF e
  <2> QED BY <2>1, <2>2, <2>3 DEF Field
<1>16. HoldsRecord(c, Field(e, 2))
  <2>1. Len(paths) + 2 + Fields <= Len(paths) + (Fields + 1) + 1 /\ Len(paths) + 2 >= 1
    BY <1>6, <1>12
  <2> HIDE DEF e
  <2> QED BY <1>12, <1>15, <2>1 DEF HoldsRecord
<1>17. e \in CellsOf(c) /\ Trail(c.block, paths', e) = s /\ At(c, e) = Unset
  <2>1. 1 \in 1..Fields + 1
    BY <1>6
  <2> HIDE DEF e
  <2> QED BY <1>6, <1>12, <1>15, <2>1
<1>18. \A k \in Names : Trail(c.block, paths', Field(Field(e, 2), k)) = Append(s, k)
  <2> TAKE k \in Names
  <2>1. k + 1 \in 1..Fields + 1 /\ k \in Nat
    BY <1>6 DEF Names
  <2>2. Len(paths) + 2 + k - 1 = Len(paths) + (k + 1)
    BY <1>12, <2>1
  <2> HIDE DEF e
  <2>3. Field(Field(e, 2), k) = [Field(e, 2) EXCEPT !.i = @ + k - 1]
    BY DEF Field
  <2>4. Field(Field(e, 2), k) = [block |-> c.block, i |-> Len(paths) + (k + 1)]
    <3> DEFINE q == Field(e, 2)
    <3>1. q = [block |-> c.block, i |-> Len(paths) + 2]
      BY <1>15
    <3> HIDE DEF q
    <3>2. [q EXCEPT !.i = @ + k - 1] = [block |-> c.block, i |-> Len(paths) + 2 + k - 1]
      BY <3>1
    <3> QED BY <2>2, <2>3, <3>2 DEF q
  <2> QED BY <1>6, <1>12, <2>1, <2>4
<1>19. ctx' = [Set(Set(c, e, EntryCell(c, e)), c.cur_container, [Here(c) EXCEPT !.ptr = e]) EXCEPT !.cur_container = e]
  BY <1>10
<1> HIDE DEF e
<1>20. Adds(c, paths', e, s, ctx')
  BY <1>12, <1>14, <1>15, <1>16, <1>17, <1>18, <1>19 DEF Adds
<1>21. Named(ctx', paths') /\ Place(ctx', paths') = s
  BY <1>20, EntryAdded
<1>22. PICK y, z : /\ U = Written(Written(X, s, y), l, z)
                   /\ y.kind = "ENTRY" /\ y.fields = Record(s) /\ y.parent = l /\ y.next = X[l].ptr
                   /\ z.kind = "SUBFORMS" /\ z.ptr = s /\ z.parent = X[l].parent
  <2>1. \E y, z : /\ Tree(ctx', paths') = Written(Written(Tree(c, paths'), s, y), Place(c, paths'), z)
                 /\ y.kind = "ENTRY" /\ y.fields = Record(s) /\ y.parent = Place(c, paths')
                 /\ y.next = Tree(c, paths')[Place(c, paths')].ptr
                 /\ z.kind = "SUBFORMS" /\ z.ptr = s /\ z.parent = Tree(c, paths')[Place(c, paths')].parent
    BY <1>20, EntryAdded
  <2>2. Place(c, paths') = l
    BY <1>12
  <2> HIDE DEF X
  <2> QED BY <1>13, <2>1, <2>2
<1>23. X[l] = T[l] /\ DOMAIN T \subseteq DOMAIN X /\ (\A r \in DOMAIN T : X[r] = T[r])
       /\ s \in DOMAIN X /\ \A r \in DOMAIN X : r \notin DOMAIN T => X[r].kind = "UNSET"
  BY <1>2 DEF Extend, Blank
<1> HIDE DEF X, U
<1>24. TreeOk(U)
  <2>1. X = Extend(T, {s} \cup {Append(s, k) : k \in Names}) /\ s = Append(l, Size(T[l]) + 1)
    BY DEF X, s, m
  <2>2. TreeOk(T) /\ l \in DOMAIN T /\ T[l].kind = "SUBFORMS"
    BY <1>1, <1>2, <1>3
  <2>3. y.kind = "ENTRY" /\ y.fields = Record(s) /\ y.parent = l /\ y.next = T[l].ptr
    BY <1>22, <1>23
  <2>4. z.kind = "SUBFORMS" /\ z.ptr = s /\ U = Written(Written(X, s, y), l, z)
    BY <1>22
  <2> QED BY <2>1, <2>2, <2>3, <2>4, EntryTree
<1>25. /\ DOMAIN U = DOMAIN X /\ U[l] = z /\ U[s] = y /\ s # l
       /\ \A r \in DOMAIN X : r # s /\ r # l => U[r] = X[r]
  BY <1>2, <1>8, <1>22, <1>23 DEF Written
<1>26. OnWay(U, s)
  <2>1. \A r \in Above(l) : r \in DOMAIN T /\ HolderOk(T[r], r)
    BY <1>1 DEF OnWay
  <2>2. HolderOk(z, l)
    <3>1. l \in Above(l)
      BY <1>1, <1>2, WayOut
    <3>2. HolderOk(T[l], l) /\ z.parent = T[l].parent
      BY <1>22, <1>23, <2>1, <3>1
    <3> QED BY <1>3, <1>22, <3>2 DEF HolderOk, Holders
  <2>3. \A r \in Above(l) : r \in DOMAIN U /\ HolderOk(U[r], r)
    <3> TAKE r \in Above(l)
    <3>1. r \in DOMAIN T /\ r # s /\ r \in DOMAIN X /\ X[r] = T[r]
      BY <1>8, <1>23, <2>1
    <3> QED BY <1>25, <2>1, <2>2, <3>1
  <2>4. OnWay(U, l)
    BY <1>2, <2>3 DEF OnWay
  <2>5. HolderOk(U[s], s)
    BY <1>22, <1>25 DEF HolderOk, Holders
  <2> QED BY <1>4, <1>23, <1>25, <2>4, <2>5, WayIn DEF s
<1>27. FormInv'
  BY <1>1, <1>21, <1>24, <1>26 DEF FormInv, Sound, Placed, U
<1>28. FormOf(U) = PutIn(FormOf(T), s, "entry")
  <2>1. What(y) = "entry" /\ What(z) = "subforms" /\ What(T[l]) = "subforms"
    BY <1>3, <1>22 DEF What
  <2>2. DOMAIN T \subseteq DOMAIN U /\ s \in DOMAIN U /\ U[s].kind # "UNSET" /\ What(U[s]) = "entry"
    BY <1>22, <1>23, <1>25, <2>1
  <2>3. \A r \in DOMAIN T : r # s => What(U[r]) = What(T[r]) /\ (U[r].kind = "UNSET" <=> T[r].kind = "UNSET")
    BY <1>3, <1>22, <1>23, <1>25, <2>1
  <2>4. \A r \in DOMAIN U : r \notin DOMAIN T /\ r # s => U[r].kind = "UNSET"
    BY <1>2, <1>23, <1>25
  <2> QED BY <2>2, <2>3, <2>4, FormPut
<1>29. Form = FormOf(T) /\ Form' = FormOf(U)
  BY <1>1, <1>21, FormNow, FormThen DEF T, U
<1>30. PathOf(ctx.cur_container) = l /\ PathOf(ctx.cur_container)' = s
  BY <1>21, PlaceNow DEF l
<1>31. F!Count(l) = m
  <2>1. CountIn(FormOf(T), l) = m
    BY <1>1, <1>2, <1>3, CountIs DEF m
  <2> QED BY <1>29, <2>1, FormsAre
<1>32. F!Put(s, "entry") /\ F!In("subforms")
  BY <1>1, <1>28, <1>29, FormsAre, HereForm
<1>33. F!Item
  BY <1>1, <1>30, <1>31, <1>32 DEF F!Item, s
<1> QED BY <1>27, <1>33

-----------------------------------------------------------------------------
(* The places to which the browser and the handler go.                      *)

\* The container that p points at gets q for its parent, and the request is at r then.
Reparents(p, q, r) ==
  /\ FormInv /\ p \in CellsOf(ctx) /\ At(ctx, p).kind \in {"SUBFORM", "SUBFORMS"}
  /\ q \in Ptr /\ Somewhere(ctx, q) /\ r \in Ptr /\ Somewhere(ctx, r)
  /\ paths' = paths
  /\ ctx' = [Set(ctx, p, [At(ctx, p) EXCEPT !.parent = q]) EXCEPT !.cur_container = r]

LEMMA Reparented ==
  ASSUME NEW p, NEW q, NEW r, Reparents(p, q, r)
  PROVE  LET T == Tree(ctx, paths)  U == Tree(ctx', paths')  s == Trail(ctx.block, paths, p)
         IN /\ Named(ctx', paths') /\ TreeOk(U) /\ Place(ctx', paths') = Trail(ctx.block, paths, r)
            /\ Form' = Form /\ s \in DOMAIN T /\ DOMAIN U = DOMAIN T
            /\ U[s].kind = T[s].kind /\ U[s].parent = Trail(ctx.block, paths, q)
            /\ \A t \in DOMAIN T : t # s => U[t] = T[t]
<1> DEFINE T == Tree(ctx, paths)  U == Tree(ctx', paths')  s == Trail(ctx.block, paths, p)
           x == At(ctx, p)  y == [x EXCEPT !.parent = q]  d == Set(ctx, p, y)
<1>1. /\ Named(ctx, paths) /\ TreeOk(T) /\ Ok(ctx) /\ p \in CellsOf(ctx) /\ x.kind \in {"SUBFORM", "SUBFORMS"}
      /\ q \in Ptr /\ Somewhere(ctx, q) /\ r \in Ptr /\ Somewhere(ctx, r)
      /\ paths' = paths /\ ctx' = [d EXCEPT !.cur_container = r]
  BY DEF Reparents, FormInv, Sound, Named
<1>2. x \in CellT /\ CellOk(ctx, x)
  BY <1>1, AtCell DEF CellsOf
<1>3. y \in CellT /\ y.kind = x.kind /\ y.val = x.val /\ y.ptr = x.ptr /\ y.next = x.next /\ y.parent = q
  BY <1>1, <1>2 DEF CellT
<1> HIDE DEF x, y
<1>4. CellOk(ctx, y)
  BY <1>1, <1>2, <1>3 DEF CellOk
<1>5. Writes(ctx, paths, p, y, d)
  BY <1>1, <1>3, <1>4 DEF Writes, x
<1> HIDE DEF T, U, s, d
<1>6. Named(d, paths) /\ d.block = ctx.block /\ CellsOf(d) = CellsOf(ctx)
  BY <1>5, TreeSet
<1>7. Tree(d, paths) = Written(T, s, View(ctx.block, paths, y))
  BY <1>5, TreeSet DEF T, s
<1>8. Goes(d, paths, r, ctx')
  BY <1>1, <1>6 DEF Goes, Somewhere, CellsOf
<1>9. Named(ctx', paths') /\ ctx'.cur_container = r /\ ctx'.block = ctx.block /\ U = Tree(d, paths)
  BY <1>1, <1>6, <1>8, TreePlace DEF U
<1>10. s \in DOMAIN T /\ T[s] = View(ctx.block, paths, x)
  BY <1>1, TreeAt DEF T, s, x
<1> DEFINE v == View(ctx.block, paths, y)
<1>11. /\ v.kind = T[s].kind /\ v.val = T[s].val /\ v.fields = T[s].fields /\ v.ptr = T[s].ptr
       /\ v.parent = Trail(ctx.block, paths, q) /\ T[s].kind \in {"SUBFORM", "SUBFORMS"}
  BY <1>1, <1>3, <1>10 DEF View
<1> HIDE DEF v
<1>12. U = [T EXCEPT ![s] = v]
  BY <1>7, <1>9 DEF Written, v
<1>13. TreeOk(U)
  BY <1>1, <1>10, <1>11, <1>12, ParentTree
<1>14. DOMAIN U = DOMAIN T /\ U[s] = v /\ \A t \in DOMAIN T : t # s => U[t] = T[t]
  BY <1>10, <1>12
<1>15. FormOf(U) = FormOf(T)
  <2>1. \A t \in DOMAIN T : What(U[t]) = What(T[t]) /\ (U[t].kind = "UNSET" <=> T[t].kind = "UNSET")
    BY <1>11, <1>14 DEF What
  <2> QED BY <1>14, <2>1, FormSame
<1>16. Form' = Form
  BY <1>1, <1>9, <1>15, FormNow, FormThen DEF T, U
<1>17. Place(ctx', paths') = Trail(ctx.block, paths, r)
  BY <1>1, <1>9 DEF Place
<1> QED BY <1>9, <1>10, <1>11, <1>13, <1>14, <1>16, <1>17 DEF T, U, s

\* Only the place of the request changes.
Turns(r) ==
  /\ FormInv /\ r \in Ptr /\ Somewhere(ctx, r)
  /\ paths' = paths /\ ctx' = [ctx EXCEPT !.cur_container = r]

LEMMA Turned ==
  ASSUME NEW r, Turns(r)
  PROVE  /\ Named(ctx', paths') /\ Tree(ctx', paths') = Tree(ctx, paths)
         /\ Place(ctx', paths') = Trail(ctx.block, paths, r) /\ Form' = Form
<1>1. Goes(ctx, paths, r, ctx') /\ Named(ctx, paths) /\ paths' = paths
  BY DEF Turns, Goes, FormInv, Sound
<1>2. /\ Named(ctx', paths') /\ ctx'.cur_container = r /\ ctx'.block = ctx.block
      /\ Tree(ctx', paths') = Tree(ctx, paths)
  BY <1>1, TreePlace
<1>3. Place(ctx', paths') = Trail(ctx.block, paths, r)
  BY <1>1, <1>2 DEF Place
<1>4. Form' = Form
  BY <1>1, <1>2, FormNow, FormThen
<1> QED BY <1>2, <1>3, <1>4

\* Where the container that the request is in is, and what is above it.
LEMMA HereNode ==
  ASSUME FormInv, ctx.cur_container # NULL
  PROVE  LET T == Tree(ctx, paths)  l == Place(ctx, paths)
         IN /\ Named(ctx, paths) /\ Ok(ctx) /\ TreeOk(T) /\ OnWay(T, l) /\ l \in DOMAIN T /\ l # <<>> /\ l \in Path
            /\ T[l].kind = Here(ctx).kind /\ Here(ctx).kind \in Holders
            /\ ctx.cur_container \in CellsOf(ctx) /\ Here(ctx) = At(ctx, ctx.cur_container)
            /\ Trail(ctx.block, paths, ctx.cur_container) = l
            /\ Here(ctx).parent \in Ptr /\ Somewhere(ctx, Here(ctx).parent)
            /\ Trail(ctx.block, paths, Here(ctx).parent) = Front(l)
            /\ OnWay(T, Front(l)) /\ l \notin Above(Front(l))
            /\ PathOf(ctx.cur_container) = l
<1> DEFINE T == Tree(ctx, paths)  l == Place(ctx, paths)
<1>1. Named(ctx, paths) /\ Ok(ctx) /\ TreeOk(T) /\ OnWay(T, l) /\ Standing(ctx, paths) /\ Sound(ctx, paths, phase)
  BY SoundStands DEF FormInv, Sound, Placed, Named
<1>2. /\ l \in DOMAIN T /\ l \in Path /\ l # <<>> /\ Here(ctx) \in CellT /\ CellOk(ctx, Here(ctx))
      /\ Here(ctx).kind \in Holders /\ T[l] = View(ctx.block, paths, Here(ctx))
      /\ ctx.cur_container \in CellsOf(ctx) /\ Here(ctx) = At(ctx, ctx.cur_container)
  BY <1>1, HereTree DEF Path
<1>3. T[l].kind = Here(ctx).kind
  <2> HIDE DEF T, l
  <2> QED BY <1>2 DEF View
<1>4. Here(ctx).parent \in Ptr /\ Somewhere(ctx, Here(ctx).parent)
  BY <1>1, <1>2, PointersLead
<1>5. Trail(ctx.block, paths, Here(ctx).parent) = Front(l)
  BY <1>1, HereParent
<1>6. OnWay(T, Front(l)) /\ l \notin Above(Front(l))
  <2> HIDE DEF T, l
  <2> QED BY <1>1, <1>2, WayOut
<1>7. Trail(ctx.block, paths, ctx.cur_container) = l /\ PathOf(ctx.cur_container) = l
  BY PlaceNow DEF Place
<1> QED BY <1>1, <1>2, <1>3, <1>4, <1>5, <1>6, <1>7

\* A container that is left is forgotten by the one below it.
LEMMA Departed ==
  ASSUME FormInv, ctx.cur_container # NULL, Here(ctx).kind \in {"SUBFORM", "SUBFORMS"},
         phase = "handle" => Here(ctx).kind = "SUBFORM", UNCHANGED <<phase, paths>>,
         ctx' = [Set(ctx, ctx.cur_container, [Here(ctx) EXCEPT !.parent = NULL]) EXCEPT !.cur_container = Here(ctx).parent]
  PROVE  FormInv' /\ Form' = Form /\ PathOf(ctx.cur_container)' = Front(PathOf(ctx.cur_container))
<1> DEFINE T == Tree(ctx, paths)  l == Place(ctx, paths)  U == Tree(ctx', paths')
<1>1. /\ TreeOk(T) /\ l \in DOMAIN T /\ l # <<>> /\ T[l].kind = Here(ctx).kind
      /\ OnWay(T, Front(l)) /\ l \notin Above(Front(l)) /\ PathOf(ctx.cur_container) = l
      /\ Trail(ctx.block, paths, Here(ctx).parent) = Front(l)
      /\ Trail(ctx.block, paths, ctx.cur_container) = l /\ Here(ctx) = At(ctx, ctx.cur_container)
  BY HereNode
<1>2. Reparents(ctx.cur_container, NULL, Here(ctx).parent)
  <2>1. ctx.cur_container \in CellsOf(ctx) /\ Here(ctx).parent \in Ptr /\ Somewhere(ctx, Here(ctx).parent)
    BY HereNode
  <2>2. NULL \in Ptr /\ Somewhere(ctx, NULL)
    BY NullPtr DEF Somewhere
  <2> QED BY <1>1, <2>1, <2>2 DEF Reparents
<1>3. Named(ctx', paths') /\ TreeOk(U) /\ Form' = Form
  BY <1>2, Reparented
<1>4. Place(ctx', paths') = Front(l)
  BY <1>1, <1>2, Reparented
<1>5. DOMAIN U = DOMAIN T /\ \A t \in DOMAIN T : t # l => U[t] = T[t]
  BY <1>1, <1>2, Reparented
<1> HIDE DEF T, l, U
<1>6. \A t \in Above(Front(l)) : t \in DOMAIN T /\ U[t] = T[t]
  BY <1>1, <1>5 DEF OnWay
<1>7. OnWay(U, Front(l))
  BY <1>1, <1>5, <1>6, WayKept
<1>8. phase = "handle" /\ Front(l) # <<>> => U[Front(l)].kind # "SUBFORMS"
  <2> SUFFICES ASSUME phase = "handle", Front(l) # <<>>
               PROVE  U[Front(l)].kind # "SUBFORMS"
    OBVIOUS
  <2>1. SonOk(T, l) /\ T[l].kind = "SUBFORM"
    BY <1>1 DEF TreeOk, NodeOk
  <2>2. Front(l) \in DOMAIN T /\ T[Front(l)].kind # "SUBFORMS"
    BY <2>1 DEF SonOk
  <2>3. Front(l) # l
    BY <2>1, <2>2, <1>1, WayOut
  <2> QED BY <1>5, <2>2, <2>3
<1>9. FormInv'
  BY <1>3, <1>4, <1>7, <1>8 DEF FormInv, Sound, Placed, U
<1>10. PathOf(ctx.cur_container)' = Front(PathOf(ctx.cur_container))
  BY <1>1, <1>4, PlaceNow
<1> QED BY <1>3, <1>9, <1>10

LEMMA EndContainerStep == ASSUME FormInv, EndContainer PROVE FormInv' /\ F!Close
<1> DEFINE T == Tree(ctx, paths)  l == Place(ctx, paths)
<1>1. phase = "send" /\ ctx.cur_container # NULL /\ UNCHANGED <<phase, got, paths>>
  BY DEF EndContainer
<1>2. Here(ctx).kind \in Holders /\ PathOf(ctx.cur_container) = l /\ l # <<>>
  BY <1>1, HereNode
<1>3. FormInv' /\ Form' = Form /\ PathOf(ctx.cur_container)' = Front(PathOf(ctx.cur_container))
  <2>1. CASE Here(ctx).kind = "ENTRY"
    <3>1. Turns(Here(ctx).parent)
      <4>1. ctx' = [ctx EXCEPT !.cur_container = Here(ctx).parent]
        BY <2>1 DEF EndContainer
      <4>2. Here(ctx).parent \in Ptr /\ Somewhere(ctx, Here(ctx).parent)
        BY <1>1, HereNode
      <4> QED BY <1>1, <4>1, <4>2 DEF Turns
    <3>2. Named(ctx', paths') /\ Tree(ctx', paths') = T /\ Form' = Form
      BY <3>1, Turned
    <3>3. Place(ctx', paths') = Front(l)
      BY <1>1, <3>1, Turned, HereNode
    <3>4. TreeOk(T) /\ OnWay(T, Front(l))
      BY <1>1, HereNode
    <3>5. FormInv'
      BY <1>1, <3>2, <3>3, <3>4 DEF FormInv, Sound, Placed
    <3> QED BY <1>2, <3>2, <3>3, <3>5, PlaceNow
  <2>2. CASE Here(ctx).kind # "ENTRY"
    <3>1. Here(ctx).kind \in {"SUBFORM", "SUBFORMS"}
      BY <1>2, <2>2 DEF Holders
    <3>2. ctx' = [Set(ctx, ctx.cur_container, [Here(ctx) EXCEPT !.parent = NULL]) EXCEPT !.cur_container = Here(ctx).parent]
      BY <2>2 DEF EndContainer
    <3> QED BY <1>1, <3>1, <3>2, Departed
  <2> QED BY <2>1, <2>2
<1> HIDE DEF l
<1>4. F!Close
  BY <1>1, <1>2, <1>3 DEF F!Close, F!Front, Front
<1> QED BY <1>3, <1>4

LEMMA LeaveSubformStep == ASSUME FormInv, LeaveSubform PROVE FormInv' /\ F!Leave
<1>1. /\ phase = "handle" /\ ctx.cur_container # NULL /\ Here(ctx).kind = "SUBFORM" /\ UNCHANGED <<phase, got, paths>>
      /\ ctx' = [Set(ctx, ctx.cur_container, [Here(ctx) EXCEPT !.parent = NULL]) EXCEPT !.cur_container = Here(ctx).parent]
  BY DEF LeaveSubform
<1>2. FormInv' /\ Form' = Form /\ PathOf(ctx.cur_container)' = Front(PathOf(ctx.cur_container))
  BY <1>1, Departed
<1>3. PathOf(ctx.cur_container) # <<>> /\ F!What(PathOf(ctx.cur_container)) = "subform"
  BY <1>1, HereForm
<1>4. F!Leave
  BY <1>1, <1>2, <1>3 DEF F!Leave, F!Front, Front
<1> QED BY <1>2, <1>4

-----------------------------------------------------------------------------
(* What the handler does.                                                   *)

\* A field that is asked for.
LEMMA AskedNode ==
  ASSUME FormInv, IsRecord(ctx), NEW n \in Names
  PROVE  LET T == Tree(ctx, paths)  l == Place(ctx, paths)  s == Append(l, n)
         IN /\ Named(ctx, paths) /\ Ok(ctx) /\ TreeOk(T) /\ OnWay(T, l) /\ s \in DOMAIN T
            /\ n \in Nat /\ l \in Seq(Nat) /\ s \in Path /\ s # <<>> /\ Front(s) = l /\ s \notin Above(l)
            /\ INP(ctx, n) \in CellsOf(ctx) /\ INP(ctx, n) \in Ptr /\ Somewhere(ctx, INP(ctx, n))
            /\ Trail(ctx.block, paths, INP(ctx, n)) = s
            /\ Asked(n) = At(ctx, INP(ctx, n)) /\ Asked(n) \in CellT /\ CellOk(ctx, Asked(n))
            /\ T[s] = View(ctx.block, paths, Asked(n)) /\ T[s].kind = Asked(n).kind
            /\ Append(PathOf(ctx.cur_container), n) = s /\ F!What(s) = What(Asked(n))
            /\ ctx.cur_container \in Ptr /\ Somewhere(ctx, ctx.cur_container)
            /\ Trail(ctx.block, paths, ctx.cur_container) = l /\ PathOf(ctx.cur_container) = l
<1> DEFINE T == Tree(ctx, paths)  l == Place(ctx, paths)  s == Append(l, n)
<1>1. Named(ctx, paths) /\ Ok(ctx) /\ TreeOk(T) /\ OnWay(T, l) /\ Standing(ctx, paths)
  BY SoundStands DEF FormInv, Sound, Placed, Named
<1>2. /\ INP(ctx, n) \in CellsOf(ctx) /\ At(ctx, INP(ctx, n)) \in CellT /\ CellOk(ctx, At(ctx, INP(ctx, n)))
      /\ Trail(ctx.block, paths, INP(ctx, n)) = s /\ s \in DOMAIN T
      /\ T[s] = View(ctx.block, paths, At(ctx, INP(ctx, n)))
      /\ n \in Nat /\ l \in Seq(Nat) /\ Front(s) = l /\ s # <<>> /\ s \notin Above(l)
  BY <1>1, InpTree
<1>3. INP(ctx, n) \in Ptr /\ Somewhere(ctx, INP(ctx, n)) /\ s \in Path
  <2>1. DOMAIN T \subseteq Path
    BY <1>1, TreeAt
  <2> QED BY <1>2, <2>1 DEF CellsOf, Somewhere
<1>4. Asked(n) = At(ctx, INP(ctx, n))
  BY DEF Asked
<1>5. T[s].kind = Asked(n).kind
  <2> HIDE DEF T, s
  <2> QED BY <1>2, <1>4 DEF View
<1>6. PathOf(ctx.cur_container) = l /\ Trail(ctx.block, paths, ctx.cur_container) = l
  BY PlaceNow DEF Place
<1>7. F!What(s) = What(Asked(n))
  BY <1>4, <1>6, FieldForm
<1>8. ctx.cur_container \in Ptr /\ Somewhere(ctx, ctx.cur_container)
  BY <1>1 DEF Ok, Context
<1> QED BY <1>1, <1>2, <1>3, <1>4, <1>5, <1>6, <1>7, <1>8

LEMMA ReadStep ==
  ASSUME FormInv, NEW n \in Names, phase = "handle", IsRecord(ctx), Asked(n).kind \in {"UNSET", "NORMAL", "FIL"},
         got' = Asked(n).val, UNCHANGED <<ctx, phase, paths>>
  PROVE  FormInv' /\ F!Read(n)
<1>1. FormInv'
  BY DEF FormInv
<1>2. Form' = Form /\ PathOf(ctx.cur_container)' = PathOf(ctx.cur_container)
  <2>1. Named(ctx, paths) /\ Named(ctx', paths')
    BY <1>1 DEF FormInv, Sound
  <2>2. Form' = Form
    BY <2>1, FormNow, FormThen
  <2> QED BY <2>2, PlaceNow
<1>3. F!What(Append(PathOf(ctx.cur_container), n)) = What(Asked(n))
  BY AskedNode
<1>4. What(Asked(n)) = Asked(n).val
  BY DEF What
<1>5. F!Read(n)
  BY <1>2, <1>3, <1>4 DEF F!Read
<1> QED BY <1>1, <1>5

LEMMA GetInputStep == ASSUME FormInv, NEW n \in Names, GetInput(n) PROVE FormInv' /\ F!Read(n)
BY ReadStep DEF GetInput, Asks

LEMMA GetFileInputStep == ASSUME FormInv, NEW n \in Names, GetFileInput(n) PROVE FormInv' /\ F!Read(n)
BY ReadStep DEF GetFileInput, Asks

\* A subform, or a list, that the handler enters.
LEMMA Visited ==
  ASSUME FormInv, IsRecord(ctx), NEW n \in Names, Asked(n).kind \in {"SUBFORM", "SUBFORMS"}, NEW r,
         Reparents(INP(ctx, n), ctx.cur_container, r)
  PROVE  LET T == Tree(ctx, paths)  U == Tree(ctx', paths')  s == Append(Place(ctx, paths), n)
         IN /\ Named(ctx', paths') /\ TreeOk(U) /\ Form' = Form /\ Place(ctx', paths') = Trail(ctx.block, paths, r)
            /\ DOMAIN U = DOMAIN T /\ U[s].kind = Asked(n).kind /\ OnWay(U, s)
            /\ \A t \in DOMAIN T : t # s => U[t] = T[t]
<1> DEFINE T == Tree(ctx, paths)  U == Tree(ctx', paths')  l == Place(ctx, paths)  s == Append(l, n)
<1>1. /\ OnWay(T, l) /\ s \in DOMAIN T /\ n \in Nat /\ Front(s) = l /\ s \notin Above(l)
      /\ Trail(ctx.block, paths, INP(ctx, n)) = s /\ T[s].kind = Asked(n).kind
      /\ Trail(ctx.block, paths, ctx.cur_container) = l
  BY AskedNode
<1>2. Named(ctx', paths') /\ TreeOk(U) /\ Form' = Form /\ Place(ctx', paths') = Trail(ctx.block, paths, r)
  BY Reparented
<1>3. DOMAIN U = DOMAIN T /\ U[s].kind = T[s].kind /\ U[s].parent = l
  <2>1. DOMAIN U = DOMAIN T
    BY Reparented
  <2>2. U[s].kind = T[s].kind
    BY <1>1, Reparented
  <2>3. U[s].parent = l
    <3>1. U[Trail(ctx.block, paths, INP(ctx, n))].parent = Trail(ctx.block, paths, ctx.cur_container)
      BY Reparented
    <3> QED BY <1>1, <3>1
  <2> QED BY <2>1, <2>2, <2>3
<1>4. \A t \in DOMAIN T : t # s => U[t] = T[t]
  BY <1>1, Reparented
<1> HIDE DEF T, U, l
<1>5. \A t \in Above(l) : U[t] = T[t]
  BY <1>1, <1>4 DEF OnWay
<1>6. OnWay(U, l)
  BY <1>1, <1>3, <1>5, WayKept
<1>7. HolderOk(U[s], s)
  BY <1>1, <1>3 DEF HolderOk, Holders
<1>8. OnWay(U, s)
  BY <1>1, <1>3, <1>6, <1>7, WayIn
<1> QED BY <1>1, <1>2, <1>3, <1>4, <1>8 DEF T, U, l

LEMMA EnterSubformStep == ASSUME FormInv, NEW n \in Names, EnterSubform(n) PROVE FormInv' /\ F!Enter(n)
<1> DEFINE U == Tree(ctx', paths')  s == Append(Place(ctx, paths), n)
<1>1. /\ phase = "handle" /\ IsRecord(ctx) /\ Asked(n).kind = "SUBFORM" /\ UNCHANGED <<phase, got, paths>>
      /\ ctx' = [Set(ctx, INP(ctx, n), [Asked(n) EXCEPT !.parent = ctx.cur_container]) EXCEPT !.cur_container = INP(ctx, n)]
  BY DEF EnterSubform, Asks
<1>2. /\ INP(ctx, n) \in CellsOf(ctx) /\ INP(ctx, n) \in Ptr /\ Somewhere(ctx, INP(ctx, n))
      /\ ctx.cur_container \in Ptr /\ Somewhere(ctx, ctx.cur_container)
      /\ Asked(n) = At(ctx, INP(ctx, n)) /\ Trail(ctx.block, paths, INP(ctx, n)) = s
      /\ Append(PathOf(ctx.cur_container), n) = s /\ F!What(s) = What(Asked(n))
  BY <1>1, AskedNode
<1>3. Reparents(INP(ctx, n), ctx.cur_container, INP(ctx, n))
  BY <1>1, <1>2 DEF Reparents
<1>4. Named(ctx', paths') /\ TreeOk(U) /\ Form' = Form /\ U[s].kind = "SUBFORM" /\ OnWay(U, s)
  BY <1>1, <1>3, Visited
<1>5. Place(ctx', paths') = s
  BY <1>1, <1>2, <1>3, Visited
<1> HIDE DEF s
<1>6. FormInv'
  BY <1>4, <1>5 DEF FormInv, Sound, Placed
<1>7. PathOf(ctx.cur_container)' = s /\ F!What(s) = "subform"
  BY <1>1, <1>2, <1>5, PlaceNow DEF What
<1>8. F!Enter(n)
  BY <1>1, <1>2, <1>4, <1>7 DEF F!Enter
<1> QED BY <1>6, <1>8

\* A list that is asked for: its size, and where its head is.
LEMMA AskedList ==
  ASSUME FormInv, IsRecord(ctx), NEW n \in Names, Asked(n).kind = "SUBFORMS"
  PROVE  LET T == Tree(ctx, paths)  s == Append(Place(ctx, paths), n)  m == Size(T[s])
         IN /\ F!What(s) = "subforms" /\ F!Count(s) = m /\ m \in Nat
            /\ Asked(n).ptr \in Ptr /\ Somewhere(ctx, Asked(n).ptr) /\ (Asked(n).ptr = NULL <=> m = 0)
            /\ m # 0 => /\ Trail(ctx.block, paths, Asked(n).ptr) = Append(s, m)
                        /\ Append(s, m) \in DOMAIN T /\ Append(s, m) # s /\ T[Append(s, m)].kind = "ENTRY"
<1> DEFINE T == Tree(ctx, paths)  s == Append(Place(ctx, paths), n)  m == Size(T[s])
<1>1. /\ Named(ctx, paths) /\ Ok(ctx) /\ TreeOk(T) /\ s \in DOMAIN T /\ s \in Path /\ s # <<>>
      /\ Asked(n) \in CellT /\ CellOk(ctx, Asked(n)) /\ T[s] = View(ctx.block, paths, Asked(n))
      /\ T[s].kind = "SUBFORMS" /\ F!What(s) = What(Asked(n))
  BY AskedNode
<1>2. Form = FormOf(T)
  BY <1>1, FormNow
<1>3. Asked(n).ptr \in Ptr /\ Somewhere(ctx, Asked(n).ptr)
  BY <1>1, PointersLead
<1>4. /\ Trail(ctx.block, paths, NULL) = <<>>
      /\ \A p \in CellsOf(ctx) : Trail(ctx.block, paths, p) \in Path
  BY <1>1, TrailIs
<1> HIDE DEF T, s
<1>5. F!What(s) = "subforms"
  BY <1>1 DEF What
<1>6. T[s].ptr = Trail(ctx.block, paths, Asked(n).ptr)
  BY <1>1 DEF View
<1>7. m \in Nat /\ T[s].ptr = (IF m = 0 THEN <<>> ELSE Append(s, m)) /\ \A i \in 1..m : Append(s, i) \in DOMAIN T
  BY <1>1 DEF TreeOk, NodeOk, ListOk
<1>8. F!Count(s) = m
  <2>1. CountIn(FormOf(T), s) = m
    BY <1>1, CountIs
  <2> QED BY <1>2, <2>1, FormsAre
<1> HIDE DEF m
<1>9. Asked(n).ptr = NULL <=> T[s].ptr = <<>>
  BY <1>3, <1>4, <1>6 DEF Somewhere, CellsOf, Path
<1>10. s \in Seq(Nat)
  BY <1>1 DEF Path
<1>11. Append(s, m) \in Path /\ Append(s, m) # s /\ Front(Append(s, m)) = s /\ Last(Append(s, m)) = m
  BY <1>7, <1>10, Paths
<1>12. Asked(n).ptr = NULL <=> m = 0
  BY <1>7, <1>9, <1>11 DEF Path
<1>13. m # 0 => /\ Trail(ctx.block, paths, Asked(n).ptr) = Append(s, m)
                /\ Append(s, m) \in DOMAIN T /\ T[Append(s, m)].kind = "ENTRY"
  <2> SUFFICES ASSUME m # 0
               PROVE  /\ Trail(ctx.block, paths, Asked(n).ptr) = Append(s, m)
                      /\ Append(s, m) \in DOMAIN T /\ T[Append(s, m)].kind = "ENTRY"
    OBVIOUS
  <2>1. Append(s, m) \in DOMAIN T
    BY <1>7
  <2>2. SonOk(T, Append(s, m))
    BY <1>1, <2>1 DEF TreeOk, NodeOk
  <2> QED BY <1>1, <1>6, <1>7, <1>11, <2>1, <2>2 DEF SonOk
<1> QED BY <1>3, <1>5, <1>7, <1>8, <1>11, <1>12, <1>13 DEF T, s, m

LEMMA EnterSubformsStep == ASSUME FormInv, NEW n \in Names, EnterSubforms(n) PROVE FormInv' /\ F!EnterList(n)
<1> DEFINE T == Tree(ctx, paths)  U == Tree(ctx', paths')  s == Append(Place(ctx, paths), n)  m == Size(T[s])
<1>1. /\ phase = "handle" /\ IsRecord(ctx) /\ Asked(n).kind = "SUBFORMS" /\ UNCHANGED <<phase, got, paths>>
  BY DEF EnterSubforms, Asks
<1>2. /\ F!What(s) = "subforms" /\ F!Count(s) = m /\ m \in Nat
      /\ Asked(n).ptr \in Ptr /\ Somewhere(ctx, Asked(n).ptr) /\ (Asked(n).ptr = NULL <=> m = 0)
  BY <1>1, AskedList
<1>3. m # 0 => /\ Trail(ctx.block, paths, Asked(n).ptr) = Append(s, m)
               /\ Append(s, m) \in DOMAIN T /\ Append(s, m) # s /\ T[Append(s, m)].kind = "ENTRY"
  BY <1>1, AskedList
<1>4. /\ INP(ctx, n) \in CellsOf(ctx) /\ ctx.cur_container \in Ptr /\ Somewhere(ctx, ctx.cur_container)
      /\ Asked(n) = At(ctx, INP(ctx, n)) /\ Append(PathOf(ctx.cur_container), n) = s
  BY <1>1, AskedNode
<1>5. CASE m = 0
  <2>1. ctx' = ctx
    BY <1>2, <1>5 DEF EnterSubforms
  <2>2. FormInv'
    BY <1>1, <2>1 DEF FormInv
  <2>3. Form' = Form /\ PathOf(ctx.cur_container)' = PathOf(ctx.cur_container)
    <3>1. Named(ctx, paths) /\ Named(ctx', paths')
      BY <2>2 DEF FormInv, Sound
    <3>2. Form' = Form
      BY <1>1, <2>1, <3>1, FormNow, FormThen
    <3> QED BY <1>1, <2>1, <3>2, PlaceNow
  <2> HIDE DEF s, m
  <2>4. F!EnterList(n)
    BY <1>1, <1>2, <1>4, <1>5, <2>3 DEF F!EnterList
  <2> QED BY <2>2, <2>4
<1>6. CASE m # 0
  <2>1. ctx' = [Set(ctx, INP(ctx, n), [Asked(n) EXCEPT !.parent = ctx.cur_container]) EXCEPT !.cur_container = Asked(n).ptr]
    BY <1>2, <1>6 DEF EnterSubforms
  <2>2. Reparents(INP(ctx, n), ctx.cur_container, Asked(n).ptr)
    BY <1>1, <1>2, <1>4, <2>1 DEF Reparents
  <2>3. Named(ctx', paths') /\ TreeOk(U) /\ Form' = Form /\ OnWay(U, s) /\ DOMAIN U = DOMAIN T
    BY <1>1, <2>2, Visited
  <2>4. \A t \in DOMAIN T : t # s => U[t] = T[t]
    BY <1>1, <2>2, Visited
  <2>5. Place(ctx', paths') = Append(s, m)
    BY <1>1, <1>3, <1>6, <2>2, Visited
  <2> HIDE DEF s, m, T, U
  <2>6. U[Append(s, m)].kind = "ENTRY" /\ Append(s, m) \in DOMAIN U
    BY <1>3, <1>6, <2>3, <2>4
  <2>7. HolderOk(U[Append(s, m)], Append(s, m))
    BY <2>6 DEF HolderOk, Holders
  <2>8. OnWay(U, Append(s, m))
    BY <1>2, <2>3, <2>6, <2>7, WayIn
  <2>9. FormInv'
    BY <2>3, <2>5, <2>6, <2>8 DEF FormInv, Sound, Placed, U
  <2>10. PathOf(ctx.cur_container)' = Append(s, m)
    BY <2>5, PlaceNow
  <2>11. F!EnterList(n)
    BY <1>1, <1>2, <1>4, <1>6, <2>3, <2>10 DEF F!EnterList
  <2> QED BY <2>9, <2>11
<1> QED BY <1>5, <1>6

\* The list that the entry of the request is in, and the entry before it.
LEMMA HereEntry ==
  ASSUME FormInv, ctx.cur_container # NULL, Here(ctx).kind = "ENTRY"
  PROVE  LET T == Tree(ctx, paths)  l == Place(ctx, paths)  up == Front(l)  k == Last(l)  list == At(ctx, Here(ctx).parent)
         IN /\ k \in Nat /\ k >= 1 /\ up \in Path /\ OnWay(T, up) /\ (Here(ctx).next = NULL <=> k = 1)
            /\ Here(ctx).next \in Ptr /\ Somewhere(ctx, Here(ctx).next)
            /\ k # 1 => /\ Trail(ctx.block, paths, Here(ctx).next) = Append(up, k - 1)
                        /\ k - 1 \in Nat /\ Append(up, k - 1) \in DOMAIN T /\ T[Append(up, k - 1)].kind = "ENTRY"
            /\ list.parent \in Ptr /\ Somewhere(ctx, list.parent)
            /\ Trail(ctx.block, paths, list.parent) = Front(up) /\ OnWay(T, Front(up))
            /\ Front(up) # <<>> => T[Front(up)].kind # "SUBFORMS"
<1> DEFINE T == Tree(ctx, paths)  l == Place(ctx, paths)  up == Front(l)  k == Last(l)  list == At(ctx, Here(ctx).parent)
<1>1. /\ Named(ctx, paths) /\ Ok(ctx) /\ TreeOk(T) /\ l \in DOMAIN T /\ l \in Path /\ T[l].kind = "ENTRY"
      /\ Here(ctx).parent \in Ptr /\ Somewhere(ctx, Here(ctx).parent)
      /\ Trail(ctx.block, paths, Here(ctx).parent) = up /\ OnWay(T, up)
  BY HereNode
<1>2. T[l] = View(ctx.block, paths, Here(ctx)) /\ Here(ctx) \in CellT /\ CellOk(ctx, Here(ctx))
  BY SoundStands, HereTree DEF FormInv
<1>3. /\ Trail(ctx.block, paths, NULL) = <<>>
      /\ \A p \in CellsOf(ctx) : Trail(ctx.block, paths, p) \in Path
  BY <1>1, TrailIs
<1>4. Here(ctx).next \in Ptr /\ Somewhere(ctx, Here(ctx).next)
  BY <1>1, <1>2, PointersLead
<1> DEFINE q == Here(ctx).parent
<1>5. up # <<>> => q \in CellsOf(ctx) /\ T[up] = View(ctx.block, paths, list)
  <2> SUFFICES ASSUME up # <<>>
               PROVE  q \in CellsOf(ctx) /\ T[up] = View(ctx.block, paths, list)
    OBVIOUS
  <2>1. q \in CellsOf(ctx)
    BY <1>1, <1>3 DEF Somewhere, CellsOf
  <2>2. T[Trail(ctx.block, paths, q)] = View(ctx.block, paths, At(ctx, q))
    BY <1>1, <2>1, TreeAt
  <2> QED BY <1>1, <2>1, <2>2
<1> HIDE DEF T, l
<1>6. T[l].next = Trail(ctx.block, paths, Here(ctx).next)
  BY <1>1, <1>2 DEF View
<1>7. SonOk(T, l) /\ EntryOk(T, l)
  BY <1>1 DEF TreeOk, NodeOk
<1>8. /\ up # <<>> /\ T[up].kind = "SUBFORMS" /\ up \in DOMAIN T /\ k \in 1..Size(T[up])
      /\ T[l].next = (IF k = 1 THEN <<>> ELSE Append(up, k - 1))
  BY <1>1, <1>7 DEF SonOk, EntryOk
<1>9. up \in Path /\ up \in Seq(Nat) /\ k \in Nat /\ k >= 1
  BY <1>1, <1>8, Unappend DEF Path
<1>10. k # 1 => /\ k - 1 \in Nat /\ Append(up, k - 1) \in DOMAIN T /\ T[Append(up, k - 1)].kind = "ENTRY"
                /\ Append(up, k - 1) \in Path
  <2> SUFFICES ASSUME k # 1
               PROVE  /\ k - 1 \in Nat /\ Append(up, k - 1) \in DOMAIN T /\ T[Append(up, k - 1)].kind = "ENTRY"
                      /\ Append(up, k - 1) \in Path
    OBVIOUS
  <2>1. Size(T[up]) \in Nat /\ \A i \in 1..Size(T[up]) : Append(up, i) \in DOMAIN T
    BY <1>1, <1>8 DEF TreeOk, NodeOk, ListOk
  <2> HIDE DEF k, up
  <2>2. k - 1 \in Nat /\ k - 1 \in 1..Size(T[up])
    BY <1>8, <1>9, <2>1
  <2>3. Append(up, k - 1) \in DOMAIN T /\ Front(Append(up, k - 1)) = up /\ Append(up, k - 1) \in Path
    BY <1>9, <2>1, <2>2, Paths
  <2>4. SonOk(T, Append(up, k - 1))
    BY <1>1, <2>3 DEF TreeOk, NodeOk
  <2> QED BY <1>8, <2>2, <2>3, <2>4 DEF SonOk
<1> HIDE DEF k, up
<1>11. Here(ctx).next = NULL <=> k = 1
  <2>1. Here(ctx).next = NULL <=> T[l].next = <<>>
    BY <1>3, <1>4, <1>6 DEF Somewhere, CellsOf, Path
  <2> QED BY <1>8, <1>10, <2>1 DEF Path
<1>12. list \in CellT /\ CellOk(ctx, list)
  BY <1>1, <1>5, <1>8, AtCell DEF CellsOf
<1>13. list.parent \in Ptr /\ Somewhere(ctx, list.parent)
  BY <1>1, <1>12, PointersLead
<1> HIDE DEF list
<1>14. T[up].parent = Trail(ctx.block, paths, list.parent)
  BY <1>5, <1>8 DEF View
<1>15. T[up].parent = Front(up) /\ OnWay(T, Front(up))
  <2>1. up \in Above(up) /\ OnWay(T, Front(up))
    BY <1>1, <1>8, WayOut
  <2> QED BY <1>1, <1>8, <2>1 DEF OnWay, HolderOk
<1>16. Front(up) # <<>> => T[Front(up)].kind # "SUBFORMS"
  BY <1>1, <1>8 DEF TreeOk, NodeOk, SonOk
<1> QED BY <1>1, <1>4, <1>6, <1>8, <1>9, <1>10, <1>11, <1>13, <1>14, <1>15, <1>16 DEF T, l, k, up, list

LEMMA NextEntryStep == ASSUME FormInv, NextEntry PROVE FormInv' /\ F!NextEntry
<1> DEFINE T == Tree(ctx, paths)  l == Place(ctx, paths)  up == Front(l)  k == Last(l)  list == At(ctx, Here(ctx).parent)
<1>1. phase = "handle" /\ ctx.cur_container # NULL /\ Here(ctx).kind = "ENTRY" /\ UNCHANGED <<phase, got, paths>>
  BY DEF NextEntry
<1>2. /\ k \in Nat /\ k >= 1 /\ up \in Path /\ OnWay(T, up) /\ (Here(ctx).next = NULL <=> k = 1)
      /\ Here(ctx).next \in Ptr /\ Somewhere(ctx, Here(ctx).next)
      /\ list.parent \in Ptr /\ Somewhere(ctx, list.parent)
      /\ Trail(ctx.block, paths, list.parent) = Front(up) /\ OnWay(T, Front(up))
  BY <1>1, HereEntry
<1>3. k # 1 => /\ Trail(ctx.block, paths, Here(ctx).next) = Append(up, k - 1)
               /\ k - 1 \in Nat /\ Append(up, k - 1) \in DOMAIN T /\ T[Append(up, k - 1)].kind = "ENTRY"
  BY <1>1, HereEntry
<1>4. Front(up) # <<>> => T[Front(up)].kind # "SUBFORMS"
  BY <1>1, HereEntry
<1>5. TreeOk(T) /\ PathOf(ctx.cur_container) = l /\ F!In("entry")
  BY <1>1, HereNode, HereForm
<1> DEFINE r == IF Here(ctx).next # NULL THEN Here(ctx).next ELSE list.parent
           w == IF k > 1 THEN Append(up, k - 1) ELSE Front(up)
<1>6. Turns(r)
  <2>1. ctx' = [ctx EXCEPT !.cur_container = r]
    BY DEF NextEntry
  <2>2. r \in Ptr /\ Somewhere(ctx, r)
    BY <1>2
  <2> HIDE DEF r
  <2> QED BY <1>1, <2>1, <2>2 DEF Turns
<1>7. Trail(ctx.block, paths, r) = w
  <2>1. CASE k = 1
    <3>1. r = list.parent /\ w = Front(up)
      BY <1>2, <2>1
    <3> QED BY <1>2, <3>1
  <2>2. CASE k # 1
    <3>1. Here(ctx).next # NULL /\ k > 1
      BY <1>2, <2>2
    <3>2. r = Here(ctx).next /\ w = Append(up, k - 1)
      BY <3>1
    <3> QED BY <1>3, <2>2, <3>2
  <2> QED BY <2>1, <2>2
<1> HIDE DEF r, list
<1>8. Named(ctx', paths') /\ Tree(ctx', paths') = T /\ Form' = Form /\ Place(ctx', paths') = w
  BY <1>6, <1>7, Turned
<1> HIDE DEF T, up, k
<1>9. OnWay(T, w) /\ (w # <<>> => T[w].kind # "SUBFORMS")
  <2>1. CASE k > 1
    <3>1. HolderOk(T[Append(up, k - 1)], Append(up, k - 1))
      BY <1>3, <2>1 DEF HolderOk, Holders
    <3>2. OnWay(T, Append(up, k - 1))
      BY <1>2, <1>3, <2>1, <3>1, WayIn
    <3> QED BY <1>3, <2>1, <3>2
  <2>2. CASE ~(k > 1)
    BY <1>2, <1>4, <2>2
  <2> QED BY <2>1, <2>2
<1> HIDE DEF w
<1>10. FormInv'
  BY <1>5, <1>8, <1>9 DEF FormInv, Sound, Placed
<1>11. PathOf(ctx.cur_container)' = w
  BY <1>8, PlaceNow
<1> HIDE DEF l
<1>12. F!NextEntry
  BY <1>1, <1>5, <1>8, <1>11 DEF F!NextEntry, F!Front, Front, F!Last, Last, w, up, k
<1> QED BY <1>10, <1>12

LEMMA AttemptStep == ASSUME FormInv, Retry PROVE FormInv' /\ F!Again
<1>1. phase = "handle" /\ got' = Start /\ UNCHANGED <<phase, paths>> /\ ctx' = [ctx EXCEPT !.cur_container = NULL]
  BY DEF Retry, ResetKeepRequest
<1>2. Turns(NULL)
  BY <1>1, NullPtr DEF Turns, Somewhere
<1>3. Named(ctx', paths') /\ Tree(ctx', paths') = Tree(ctx, paths) /\ Form' = Form
  BY <1>2, Turned
<1>4. Place(ctx', paths') = <<>>
  <2>1. Trail(ctx.block, paths, NULL) = <<>>
    BY TrailIs DEF FormInv, Sound
  <2> QED BY <1>2, <2>1, Turned
<1>5. FormInv'
  BY <1>3, <1>4, WayTop DEF FormInv, Sound, Placed
<1>6. PathOf(ctx.cur_container)' = <<>>
  BY <1>4, PlaceNow
<1>7. F!Again
  BY <1>1, <1>3, <1>6 DEF F!Again, F!Start, Start
<1> QED BY <1>5, <1>7

-----------------------------------------------------------------------------
(* Requests, one after the other.                                           *)

LEMMA SubmitStep == ASSUME Closed, FormInv, Submit PROVE FormInv' /\ F!Submit
<1>1. phase = "send" /\ ctx.cur_container = NULL /\ phase' = "handle" /\ UNCHANGED <<ctx, got, paths>>
  BY DEF Submit
<1>2. PathOf(ctx.cur_container) = <<>>
  BY <1>1, HereForm
<1>3. Place(ctx, paths) = <<>>
  BY <1>2, PlaceNow
<1>4. FormInv'
  BY <1>1, <1>3 DEF FormInv, Sound, Placed
<1>5. Form' = Form
  <2>1. Named(ctx, paths) /\ Named(ctx', paths')
    BY <1>4 DEF FormInv, Sound
  <2> QED BY <1>1, <2>1, FormNow, FormThen
<1>6. PathOf(ctx.cur_container)' = <<>>
  BY <1>1, <1>3, PlaceNow
<1>7. F!Submit
  BY <1>1, <1>2, <1>5, <1>6 DEF F!Submit
<1> QED BY <1>4, <1>7

LEMMA EndStep == ASSUME FormInv, NewRequest PROVE FormInv' /\ F!End
<1>1. ctx \in Context
  BY DEF FormInv, Sound, Named, Ok
<1>2. ctx' = [inputs |-> [n \in Names |-> Unset], subinputs |-> <<>>, block |-> ctx.block, cur_container |-> NULL]
  BY <1>1 DEF NewRequest, Reset, Context
<1>3. ctx.block \in Nat \ {0} /\ phase' = "send" /\ got' = Start /\ paths' = <<>>
  BY <1>1 DEF NewRequest, Context
<1>4. Sound(ctx', <<>>, phase') /\ FormOf(Tree(ctx', <<>>)) = {} /\ Place(ctx', <<>>) = <<>>
  BY <1>2, <1>3, BlankSound
<1>5. FormInv'
  BY <1>3, <1>4 DEF FormInv
<1>6. Form' = {}
  <2>1. Named(ctx', paths')
    BY <1>5 DEF FormInv, Sound
  <2> QED BY <1>3, <1>4, <2>1, FormThen
<1>7. PathOf(ctx.cur_container)' = <<>>
  BY <1>3, <1>4, PlaceNow
<1>8. F!End
  BY <1>3, <1>6, <1>7 DEF F!End, F!Start, Start
<1> QED BY <1>5, <1>8

LEMMA FormStarts == ASSUME Init PROVE FormInv /\ F!Init
<1>1. /\ ctx = [inputs |-> [n \in Names |-> Unset], subinputs |-> <<>>, block |-> 1, cur_container |-> NULL]
      /\ phase = "send" /\ got = Start /\ paths = <<>> /\ 1 \in Nat \ {0}
  BY DEF Init
<1>2. Sound(ctx, <<>>, phase) /\ FormOf(Tree(ctx, <<>>)) = {} /\ Place(ctx, <<>>) = <<>>
  BY <1>1, BlankSound
<1>3. FormInv
  BY <1>1, <1>2 DEF FormInv
<1>4. Form = {}
  <2>1. Named(ctx, paths)
    BY <1>3 DEF FormInv, Sound
  <2> QED BY <1>1, <1>2, <2>1, FormNow
<1>5. PathOf(ctx.cur_container) = <<>>
  BY <1>1, <1>2, PlaceNow
<1> QED BY <1>1, <1>3, <1>4, <1>5 DEF F!Init, F!Start, Start

LEMMA FormStutters ==
  ASSUME FormInv, UNCHANGED vars
  PROVE  FormInv' /\ UNCHANGED <<Form, PathOf(ctx.cur_container), phase, got>>
<1>1. UNCHANGED <<ctx, phase, got, paths>>
  BY DEF vars
<1>2. FormInv'
  BY <1>1 DEF FormInv
<1>3. Form' = Form
  <2>1. Named(ctx, paths) /\ Named(ctx', paths')
    BY <1>2 DEF FormInv, Sound
  <2> QED BY <1>1, <2>1, FormNow, FormThen
<1> QED BY <1>1, <1>2, <1>3, PlaceNow

\* Each step of a request is one of the form: a field written, opened, read or entered, a place
\* left, a list walked, an attempt begun again, or the end.
LEMMA FormSteps ==
  ASSUME Fitting, Closed, FormInv, [Next]_vars
  PROVE  FormInv' /\ [F!Next]_<<Form, PathOf(ctx.cur_container), phase, got>>
<1>1. CASE \E n \in Names : \E v \in Values : SetInput(n, v) \/ SetFileInput(n, v)
  <2>1. PICK n \in Names, v \in Values : SetInput(n, v) \/ SetFileInput(n, v)
    BY <1>1
  <2>2. FormInv' /\ F!Write(n, v)
    BY <2>1, SetInputStep, SetFileInputStep
  <2> QED BY <2>2, FormsAre DEF F!Next
<1>2. CASE \E n \in Names : BeginSubform(n) \/ BeginSubforms(n)
  <2>1. PICK n \in Names : BeginSubform(n) \/ BeginSubforms(n)
    BY <1>2
  <2>2. FormInv' /\ F!Open(n)
    BY <2>1, BeginSubformStep, BeginSubformsStep
  <2> QED BY <2>2, FormsAre DEF F!Next
<1>3. CASE \E n \in Names : GetInput(n) \/ GetFileInput(n)
  <2>1. PICK n \in Names : GetInput(n) \/ GetFileInput(n)
    BY <1>3
  <2>2. FormInv' /\ F!Read(n)
    BY <2>1, GetInputStep, GetFileInputStep
  <2> QED BY <2>2, FormsAre DEF F!Next
<1>4. CASE \E n \in Names : EnterSubform(n)
  BY <1>4, EnterSubformStep, FormsAre DEF F!Next
<1>5. CASE \E n \in Names : EnterSubforms(n)
  BY <1>5, EnterSubformsStep, FormsAre DEF F!Next
<1>6. CASE BeginEntry
  BY <1>6, BeginEntryStep DEF F!Next
<1>7. CASE EndContainer
  BY <1>7, EndContainerStep DEF F!Next
<1>8. CASE Submit
  BY <1>8, SubmitStep DEF F!Next
<1>9. CASE LeaveSubform
  BY <1>9, LeaveSubformStep DEF F!Next
<1>10. CASE NextEntry
  BY <1>10, NextEntryStep DEF F!Next
<1>11. CASE Retry
  BY <1>11, AttemptStep DEF F!Next
<1>12. CASE Refuse \/ NewRequest
  <2>1. NewRequest
    BY <1>12 DEF Refuse
  <2> QED BY <2>1, EndStep DEF F!Next
<1>13. CASE UNCHANGED vars
  BY <1>13, FormStutters
<1> QED BY <1>1, <1>2, <1>3, <1>4, <1>5, <1>6, <1>7, <1>8, <1>9, <1>10, <1>11, <1>12, <1>13 DEF Next

(* The handler finds the form that the browser has sent, whatever the block *)
(* of cells does and however many attempts have failed on the way: read by  *)
(* their paths, the cells of uw_set_input to uw_next_entry behave as the    *)
(* tree of Forms does.  For the application's own forms, which fit and      *)
(* close what they open; the code checks neither.                           *)
THEOREM FormIsRefined == ASSUME Fitting, Closed PROVE Spec => SameForm
<1>1. Init => FormInv /\ F!Init
  BY FormStarts
<1>2. FormInv /\ [Next]_vars => FormInv' /\ [F!Next]_<<Form, PathOf(ctx.cur_container), phase, got>>
  BY FormSteps
<1> QED BY <1>1, <1>2, PTL DEF Spec, SameForm, F!Spec
===============================================================================
