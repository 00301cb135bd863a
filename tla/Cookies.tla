-------------------------------- MODULE Cookies --------------------------------
(***************************************************************************)
(* Cookies and the signatures that protect forms and remote calls: the     *)
(* headers a handler writes, the signatures its page carries, which        *)
(* uw_commit renews when a cookie was set after one was written, and the   *)
(* cookies of the browser, which all of its tabs share.  A tab has one     *)
(* request at a time; each request has a context.  A signature is the      *)
(* cookies it is a keyed hash of.                                          *)
(***************************************************************************)
EXTENDS Integers, Sequences, SequencesExt, FiniteSets

CONSTANTS Tabs, CookieNames, CookieValues,
          StartOf,     \* StartOf[n]: the names that n begins with, case apart
          SetsOnce,    \* a handler sets a cookie once
          MaxLines     \* Set-Cookie lines of an attempt

NoCookie == "none"
ASSUME CookiesAssumption ==
  /\ NoCookie \notin CookieValues /\ SetsOnce \in BOOLEAN /\ MaxLines \in Nat
  /\ StartOf \in [CookieNames -> SUBSET CookieNames] /\ \A n \in CookieNames : n \in StartOf[n]

\* No name is the beginning of another.
NamesApart == \A n \in CookieNames : StartOf[n] = {n}

VARIABLES
  jar,       \* the cookies of the browser
  pc,        \* per tab: "blank", "handler", "answer" (on its way), "page"
  kind,      \* per tab: what was asked for, "page" or "rpc"; then what is answered
  header,    \* per tab: the cookies of the request
  out,       \* per tab: the Set-Cookie lines of outHeaders
  page,      \* per tab: signatures in forms of ctx->page, and in its script
  usedSig, needsResig,
  shown,     \* per tab: the signatures of the page it shows
  meant,     \* ghost: what the attempt has done to the cookies
  changed,   \* ghost: how the cookies were changed since the page it shows was asked for:
             \* "no", by an "rpc" of the page, in an "other" way
  meanwhile  \* ghost: the same, for the request it has made

context == <<header, out, page, usedSig, needsResig>>
cookieVars == <<jar, pc, kind, context, shown, meant, changed, meanwhile>>

NoCookies == [n \in CookieNames |-> NoCookie]
NoPage == [forms |-> {}, script |-> {}]
Put(fun, t, v) == [fun EXCEPT ![t] = v]

-----------------------------------------------------------------------------
\* uw_Basis_get_cookie: the first line whose name, compared up to its "=" and without
\* regard to case, is the beginning of n, else the request, where names are compared whole.
GetCookie(t, n) ==
  LET k == SelectInSeq(out[t], LAMBDA l : l.name \in StartOf[n])
  IN IF k > 0 THEN out[t][k].value ELSE header[t][n]

\* The application's cookie_sig.
CookieSig(t) == [n \in CookieNames |-> GetCookie(t, n)]

\* What a browser makes of Set-Cookie lines: the last one that sets a cookie counts.
Apply(cookies, lines) == [n \in CookieNames |->
  LET k == SelectLastInSeq(lines, LAMBDA l : l.name = n)
  IN IF k > 0 THEN lines[k].value ELSE cookies[n]]

CookiesInit ==
  /\ jar = NoCookies
  /\ pc = [t \in Tabs |-> "blank"] /\ kind = [t \in Tabs |-> "page"] /\ header = [t \in Tabs |-> NoCookies]
  /\ out = [t \in Tabs |-> <<>>] /\ page = [t \in Tabs |-> NoPage] /\ shown = [t \in Tabs |-> NoPage]
  /\ usedSig = [t \in Tabs |-> FALSE] /\ needsResig = [t \in Tabs |-> FALSE]
  /\ meant = [t \in Tabs |-> <<>>] /\ changed = [t \in Tabs |-> "no"] /\ meanwhile = [t \in Tabs |-> "no"]

\* uw_reset_keep_request
ResetHeaders(t) == out' = Put(out, t, <<>>)
ResetContext(t) ==
  /\ ResetHeaders(t)
  /\ page' = Put(page, t, NoPage)
  /\ usedSig' = Put(usedSig, t, FALSE) /\ needsResig' = Put(needsResig, t, FALSE)
  /\ meant' = Put(meant, t, <<>>)

Begin(t, what) ==
  /\ pc' = Put(pc, t, "handler") /\ kind' = Put(kind, t, what)
  /\ header' = Put(header, t, jar) /\ ResetContext(t)
  /\ meanwhile' = Put(meanwhile, t, "no")
  /\ UNCHANGED <<jar, shown, changed>>

\* "Wrong cookie signature"
WrongSignature(t) ==
  /\ pc' = Put(pc, t, "blank") /\ shown' = Put(shown, t, NoPage) /\ changed' = Put(changed, t, "no")
  /\ UNCHANGED <<jar, kind, context, meant, meanwhile>>

Ask(t)    == pc[t] \in {"blank", "page"} /\ Begin(t, "page")
Checked(t, sig, what) == IF sig = jar THEN Begin(t, what) ELSE WrongSignature(t)
SubmitForm(t) == pc[t] = "page" /\ \E sig \in shown[t].forms : Checked(t, sig, "page")
Rpc(t)    == pc[t] = "page" /\ \E sig \in shown[t].script : Checked(t, sig, "rpc")

-----------------------------------------------------------------------------
\* Mutant: a signature that was written stays.
NoteCookieNot(t) == UNCHANGED needsResig

\* set_cookie
NoteCookie(t) == needsResig' = IF usedSig[t] THEN Put(needsResig, t, TRUE) ELSE needsResig

\* uw_Basis_set_cookie and uw_Basis_clear_cookie.
SetCookie(t, n, v) ==
  /\ pc[t] = "handler" /\ Len(out[t]) < MaxLines
  /\ SetsOnce => \A l \in Range(out[t]) : l.name # n
  /\ out' = Put(out, t, Append(out[t], [name |-> n, value |-> v]))
  /\ meant' = Put(meant, t, Append(meant[t], [name |-> n, value |-> v]))
  /\ NoteCookie(t)
  /\ UNCHANGED <<jar, pc, kind, header, page, usedSig, shown, changed, meanwhile>>
ClearCookie(t, n) == SetCookie(t, n, NoCookie)

\* uw_Basis_sigString, in a form of the page.
SigString(t) ==
  /\ pc[t] = "handler" /\ kind[t] = "page"
  /\ usedSig' = Put(usedSig, t, TRUE)
  /\ page' = [page EXCEPT ![t].forms = @ \cup {CookieSig(t)}]
  /\ UNCHANGED <<jar, pc, kind, header, out, needsResig, shown, meant, changed, meanwhile>>

RetryHandler(t) ==
  /\ pc[t] = "handler" /\ ResetContext(t)
  /\ UNCHANGED <<jar, pc, kind, header, shown, changed, meanwhile>>

Answer(t, what, lines, p) ==
  /\ pc[t] = "handler" /\ pc' = Put(pc, t, "answer") /\ kind' = Put(kind, t, what)
  /\ out' = Put(out, t, lines) /\ page' = Put(page, t, p)
  /\ UNCHANGED <<jar, header, usedSig, needsResig, shown, changed, meanwhile>>

\* uw_commit: every signature in a form is written again.
Resigned(t) == IF needsResig[t] /\ page[t].forms # {} THEN {CookieSig(t)} ELSE page[t].forms

\* A page; uw_Basis_get_settings has put the signature into its script.
ReturnPage(t) ==
  /\ kind[t] = "page"
  /\ Answer(t, "page", out[t], [forms |-> Resigned(t), script |-> {CookieSig(t)}])
  /\ UNCHANGED meant

\* The value of a remote call; uw_get_real_script sends the new signature with it.
ReturnValue(t) ==
  /\ kind[t] = "rpc"
  /\ Answer(t, "rpc", out[t], [forms |-> {}, script |-> IF out[t] = <<>> THEN {} ELSE {CookieSig(t)}])
  /\ UNCHANGED meant

\* Mutant: the headers go with the page.
OldHeadersNot(t) == <<>>

\* old_headers and the loop of uw_redirect keep the cookies.
OldHeaders(t) == out[t]

\* uw_redirect, uw_return_blob: the page is thrown away.
ReturnIndirectly(t) ==
  /\ kind[t] = "page"
  /\ \E what \in {"redirect", "blob"} : Answer(t, what, OldHeaders(t), NoPage)
  /\ UNCHANGED meant

\* An error that is not retried: uw_reset_keep_error_message.
Fail(t) == Answer(t, "error", <<>>, NoPage) /\ meant' = Put(meant, t, <<>>)

-----------------------------------------------------------------------------
\* The browser: new cookies, and then what the answer is for.
Worse(c, d) == IF c = "other" THEN c ELSE d
Receive(t) ==
  /\ pc[t] = "answer"
  /\ jar' = Apply(jar, out[t])
  /\ shown' = Put(shown, t,
       CASE kind[t] = "page" -> page[t]
         [] kind[t] = "rpc" -> [shown[t] EXCEPT !.script = IF page[t].script = {} THEN @ ELSE page[t].script]
         [] kind[t] = "blob" -> shown[t]
         [] OTHER -> NoPage)
  /\ pc' = Put(pc, t, IF kind[t] \in {"redirect", "error"} THEN "blank" ELSE "page")
  /\ ResetContext(t) /\ kind' = Put(kind, t, "page") /\ header' = Put(header, t, NoCookies)
  /\ LET by(u, c) == IF jar' = jar THEN c ELSE IF u = t /\ kind[t] = "rpc" THEN Worse(c, "rpc") ELSE "other" IN
     /\ changed' = [u \in Tabs |-> IF pc'[u] = "blank" THEN "no"
                      ELSE IF u = t /\ kind[t] = "page" THEN meanwhile[t] ELSE by(u, changed[u])]
     /\ meanwhile' = [u \in Tabs |-> IF pc'[u] \in {"blank", "page"} THEN "no" ELSE by(u, meanwhile[u])]

Handle(t) ==
  \/ \E n \in CookieNames : ClearCookie(t, n) \/ \E v \in CookieValues : SetCookie(t, n, v)
  \/ SigString(t) \/ RetryHandler(t) \/ ReturnPage(t) \/ ReturnValue(t) \/ ReturnIndirectly(t) \/ Fail(t)

CookiesNext == \E t \in Tabs : Ask(t) \/ SubmitForm(t) \/ Rpc(t) \/ Handle(t) \/ Receive(t)

CookiesSpec == CookiesInit /\ [][CookiesNext]_cookieVars

-----------------------------------------------------------------------------
(* The signatures a page carries are those of the cookies its browser has, wherever the     *)
(* handler has set them, unless cookies were changed by another tab, or by a download, or,  *)
(* for its forms, by a remote call of the page: no one else is told "Wrong cookie           *)
(* signature".  For names that are apart and handlers that set a cookie once: of several    *)
(* lines uw_Basis_get_cookie takes the first that begins alike, and a browser the last.     *)
SignedForTheJar ==
  \A t \in Tabs : pc[t] = "page" =>
    /\ changed[t] = "no" => shown[t].forms \subseteq {jar}
    /\ changed[t] # "other" => shown[t].script \subseteq {jar}

(* An answer of whatever kind changes the browser's cookies as the attempt that was         *)
(* answered has, and as no attempt that was given up or failed has.                         *)
CookiesOfTheAnswer == [][\A t \in Tabs : Receive(t) => jar' = Apply(jar, meant[t])]_cookieVars

=============================================================================
