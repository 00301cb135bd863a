-------------------------------- MODULE Values --------------------------------
(***************************************************************************)
(* The ways values take out of a handler and back: arguments in a URL,     *)
(* which may itself be an attribute of the page, text and script of a      *)
(* page, the fields of a form, literals of a query, and columns of a       *)
(* table.  The conversions are those of module Text.                       *)
(***************************************************************************)
EXTENDS Text, FiniteSets

CONSTANTS
  Strings,   \* character strings, as sequences of code points
  Chars, Ints, Times, Blobs,
  Wrap,      \* an unsigned int is a number below: 2^32, fewer in a run
  MaxArgs,   \* arguments in a URL
  MaxLetters \* characters of the strings in a URL

VARIABLES
  place,    \* where the text is
  sent,     \* the values it was made from
  text,
  received, \* what has been read of it
  spare     \* bytes reserved for the last text of the runtime, less the bytes written

valueVars == <<place, sent, text, received, spare>>

V(type, S) == {[type |-> type, is |-> v] : v \in S}
Arguments == V("string", Strings) \cup V("char", Chars) \cup V("int", Ints)
             \cup V("time", Times) \cup V("bool", BOOLEAN)
Letters(v) == IF v.type = "string" THEN Len(v.is) ELSE 0
String(s) == [type |-> "string", is |-> s]

-----------------------------------------------------------------------------
\* C divides towards zero; the remainder, which is negative before 1970, becomes unsigned.
Quotient(n)  == IF n < 0 THEN -((-n) \div Micros) ELSE n \div Micros
Remainder(n) == (n - Quotient(n) * Micros) % Wrap
Microseconds(t) == t[1] * Micros + t[2]

\* Integers of 64 bits, in factors that TLC can compute; a time is written as one.
Word(n) == n \in Int /\ (n \div 2^30) \div 2^30 \in -8..7

ASSUME ValuesAssumption ==
  /\ Strings \subseteq Seq(1..LastCode) /\ Chars \subseteq Code
  /\ \A n \in Ints : Word(n)
  /\ \A t \in Times : Word(Microseconds(t)) /\ t[2] \in 0..(Micros - 1)
  /\ Wrap \in Nat /\ Wrap > Micros
  /\ Blobs \subseteq Seq(0..255)

\* The functions that write an argument, uw_Basis_urlify<type>_w.
Urlified(v) ==
  CASE v.type = "string" -> Urlify(v.is)
    [] v.type = "char"   -> Urlify(IF v.is = 0 THEN <<>> ELSE <<v.is>>)
    [] v.type = "int"    -> Decimal(v.is)
    [] v.type = "time"   -> Decimal(Microseconds(v.is))
    [] v.type = "bool"   -> <<IF v.is THEN Digit(1) ELSE Digit(0)>>

\* Mutant: three bytes for each byte, and none for the mark.
RoomTight(v) == IF v.type = "string" THEN 1 + 3 * Len(Bytes(v.is)) ELSE 50

\* What uw_check reserves for it.
Room(v) ==
  CASE v.type = "string" -> IF v.is = <<>> THEN 1 ELSE 12 * Len(Bytes(v.is)) + Len(Marked(v.is))
    [] v.type = "char"   -> IF v.is = 0 THEN 1 ELSE 12 + Len(Marked(<<v.is>>))
    [] v.type = "bool"   -> 2
    [] OTHER -> 50

\* The functions that read one, uw_Basis_unurlify<type>; {} when uw_error is called.
Unurlified(type, t) ==
  CASE type = "string" -> {UnurlifyTo(t, FALSE)}
    [] type = "char"   -> {b[1] : b \in {c \in {UnurlifyTo(t, FALSE)} : Len(c) = 1}}
    [] type = "int"    -> {Atoll(t)}
    [] type = "time"   -> {<<Quotient(Atoll(t)), Remainder(Atoll(t))>>}
    [] type = "bool"   -> {t \notin {<<>>, <<Digit(0)>>, <<111, 102, 102>>}}

ValuesInit == place = "handler" /\ sent = <<>> /\ text = <<>> /\ received = <<>> /\ spare = 0

\* A text of the runtime: it ends with a zero byte.
Write(where, v, t, reserved, end) ==
  /\ place' = where /\ sent' = <<v>> /\ text' = t \o end
  /\ spare' = reserved - (Len(t) + 1)
  /\ UNCHANGED received

Argument(v) ==
  /\ place \in {"handler", "url"} /\ Len(sent) < MaxArgs
  /\ FoldLeft(LAMBDA n, w : n + Letters(w), Letters(v), sent) <= MaxLetters
  /\ \E t \in {Urlified(v)} \cup (IF v.type = "string" THEN {Uf(v.is)} ELSE {}) :
       /\ text' = (IF sent = <<>> THEN <<>> ELSE Append(text, B.slash)) \o t
       /\ spare' = IF t = Urlified(v) THEN Room(v) - (Len(t) + 1) ELSE 0
  /\ place' = "url" /\ sent' = Append(sent, v)
  /\ UNCHANGED received

\* A link in the page: the URL becomes the value of an attribute.
Link ==
  /\ place = "url" /\ place' = "attribute"
  /\ text' = Append(Attrify(text), B.quot)
  /\ spare' = 6 * Len(text) - (Len(Attrify(text)) + 1)
  /\ UNCHANGED <<sent, received>>

\* The user follows it.
Click ==
  /\ place = "attribute" /\ place' = "request"
  /\ text' = Markup(text, B.quot).is
  /\ spare' = 0
  /\ UNCHANGED <<sent, received>>

\* A remote call of the script: no markup is in between.
Call == place = "url" /\ place' = "request" /\ spare' = 0 /\ UNCHANGED <<sent, text, received>>

ReadArgument ==
  /\ place = "request" /\ Len(received) < Len(sent)
  /\ LET t == Advance(text)
         r == Unurlified(sent[Len(received) + 1].type, t.is)
     IN IF r = {} THEN place' = "error" /\ UNCHANGED <<text, received>>
        ELSE /\ \E v \in r : received' = Append(received, v)
             /\ text' = t.rest
             /\ place' = IF Len(received) + 1 = Len(sent) THEN "done" ELSE place
  /\ UNCHANGED <<sent, spare>>

-----------------------------------------------------------------------------
\* uw_Basis_htmlifyString and uw_Basis_htmlifyString_w (where a character that may need
\* its six bytes for each of its own reserves its zero byte too); markup of the page follows.
Show(s) ==
  /\ place = "handler"
  /\ \/ Write("markup", String(s), Htmlify(s, FALSE), 53 * Len(Bytes(s)) + 1, <<B.lt>>)
     \/ Write("markup", String(s), Htmlify(s, TRUE), 6 * Len(Bytes(s)) + 1, <<B.lt>>)

ToScript(s) ==
  /\ place = "handler"
  /\ Write("script", String(s), Jsify(s), 10 * Len(Bytes(s)) + 3, <<>>)

\* A form input: the browser encodes it, uw_Basis_unurlifyString_fromClient reads it.
Fill(s) == place = "handler" /\ Write("form", String(s), FormEncode(s), Len(FormEncode(s)) + 1, <<>>)

\* The result of a remote call, which uu of urweb.js reads.
Reply(s) ==
  /\ place = "handler"
  /\ Write("reply", String(s), Urlify(s), IF s = <<>> THEN 2 ELSE Room(String(s)) + 1, <<>>)

\* A literal of a query; the rest of the statement follows.
Query(s) ==
  /\ place = "handler"
  /\ \E estrings \in BOOLEAN :
       Write("literal", String(s), Sqlify(Bytes(s), estrings),
             2 * Len(Bytes(s)) + 3 + IF estrings THEN 1 ELSE 0, <<>>)

Read(t) == received' = <<t.is>> /\ text' = t.rest /\ place' = "done" /\ spare' = 0 /\ UNCHANGED sent

View ==
  \/ place = "markup" /\ Read(Markup(text, B.lt))
  \/ place = "script" /\ Read(Script(text))
  \/ place = "form" /\ Read([is |-> UnurlifyTo(text, TRUE), rest |-> <<>>])
  \/ place = "reply" /\ Read([is |-> UnurlifyTo(text, FALSE), rest |-> <<>>])
  \/ place = "literal" /\ Read(Literal(text))

\* A blob goes into a table, and comes back as the server's bytea_output has it.
QueryBlob(b) ==
  /\ place = "handler"
  /\ Write("blob", [type |-> "blob", is |-> b], SqlifyBlob(b), 5 * Len(b) + 4, <<>>)
Stored ==
  /\ place = "blob" /\ place' = "column"
  /\ LET b == Scan(ByteaByte, Literal(text).is).is
     IN text' = ByteaHex(b) \/ text' = ByteaEscape(b)
  /\ UNCHANGED <<sent, received, spare>>
Fetch ==
  /\ place = "column" /\ Read([is |-> StringToBlob(text), rest |-> <<>>])

Finish == place \in {"done", "error"} /\ sent' = <<>> /\ place' = "handler" /\ text' = <<>> /\ received' = <<>> /\ spare' = 0

ValuesNext ==
  \/ \E v \in Arguments : Argument(v)
  \/ \E s \in Strings : Show(s) \/ ToScript(s) \/ Fill(s) \/ Reply(s) \/ Query(s)
  \/ \E b \in Blobs : QueryBlob(b)
  \/ Link \/ Click \/ Call \/ ReadArgument \/ View \/ Stored \/ Fetch \/ Finish

ValuesSpec == ValuesInit /\ [][ValuesNext]_valueVars

-----------------------------------------------------------------------------
\* What stands for a value in the runtime: bytes, both fields of a time.
Runtime(v) == IF v.type = "string" THEN Bytes(v.is) ELSE v.is

\* A time before 1970 with a fraction of a second.
Early(v) == v.type = "time" /\ Microseconds(v.is) < 0 /\ v.is[2] # 0

(* What arrives is what was sent, argument by argument, and its reader stops where its     *)
(* writer did: no value ends a literal, a text or an argument early or goes on behind it.  *)
(* uw_error is called only for a character that is no single byte other than zero.  Only a *)
(* time before 1970 with a fraction of a second arrives as another (uw_Basis_eq_time).     *)
Faithful ==
  /\ \A i \in 1..Len(received) : received[i] = Runtime(sent[i]) \/ Early(sent[i])
  /\ place = "done" => Len(received) = Len(sent) /\ Len(text) <= 1
  /\ place = "error" => LET v == sent[Len(received) + 1] IN v.type = "char" /\ v.is \notin 1..127

(* A conversion writes no byte more than it has reserved, except that the empty string, the *)
(* zero character and characters of four bytes are one byte short in a URL, and that a      *)
(* literal counts two bytes for each byte, while an octal escape takes four.                *)
RoomEnough ==
  spare < 0 =>
    \/ place = "url" /\ spare = -1
       /\ LET v == sent[Len(sent)] IN v = String(<<>>) \/ (v.type = "char" /\ (v.is = 0 \/ v.is > 65535))
    \/ place = "literal" /\ \E b \in Range(Bytes(sent[1].is)) : ~PrintByte(b)

(* The string functions, which walk over bytes, do with them what their names say of       *)
(* characters.                                                                             *)
First(s, P(_)) == SelectInSeq(s, P) - 1
CharacterWise(s) ==
  LET b == Bytes(s) IN
  /\ Strlen(b) = Len(s)
  /\ \A n \in -1..(Len(s) + 1) : StrlenGe(b, n) = (Len(s) >= n)
  /\ \A n \in -1..(Len(s) + 1) : Strsub(b, n) = IF n \in 0..(Len(s) - 1) THEN ToString(s[n + 1]) ELSE "error"
  /\ \A n \in 0..(Len(s) + 1) : Strsuffix(b, n) = Bytes(SubSeq(s, n + 1, Len(s)))
  /\ \A n, m \in 0..Len(s) : n + m <= Len(s) => Substring(b, n, m) = Bytes(SubSeq(s, n + 1, n + m))
  /\ \A c \in Chars : Strindex(b, c) = First(s, LAMBDA x : x = c) /\ Strsindex(b, Utf8(c)) = Strindex(b, c)
  /\ \A c, d \in Range(s) \cup {97} :
       Strcspn(b, Bytes(<<c, d>>)) = LET k == First(s, LAMBDA x : x \in {c, d}) IN IF k < 0 THEN Len(s) ELSE k
Characters == place = "markup" => CharacterWise(sent[1].is)

=============================================================================
