--------------------------------- MODULE Text ---------------------------------
(***************************************************************************)
(* The conversions of src/urweb/src/c/urweb.c between values and the texts *)
(* that stand for them in URLs, markup, JavaScript and SQL, and the string *)
(* functions of the standard library.  A character is its code point, a    *)
(* text of the runtime the bytes of its UTF-8 form (well-formed).  The     *)
(* readers at the other end, browser and database, are given by the rules  *)
(* of their languages.                                                     *)
(***************************************************************************)
EXTENDS Integers, Sequences, SequencesExt

CONSTANT Micros   \* microseconds in a second

ASSUME TextAssumption == Micros \in Nat \ {0}

\* The bytes that have a meaning in one of the languages.
B == [sp |-> 32, quot |-> 34, hash |-> 35, percent |-> 37, amp |-> 38, apos |-> 39, plus |-> 43,
      minus |-> 45, dot |-> 46, slash |-> 47, zero |-> 48, semi |-> 59, lt |-> 60, E |-> 69, back |-> 92,
      under |-> 95, u |-> 117, x |-> 120, open |-> 123, close |-> 125]

AmpLt   == <<38, 108, 116, 59>>             \* &lt;
AmpAmp  == <<38, 97, 109, 112, 59>>         \* &amp;
AmpQuot == <<38, 113, 117, 111, 116, 59>>   \* &quot;

Alnum(c)   == c \in 48..57 \cup 65..90 \cup 97..122
\* uw_Basis_isprint, UCHAR_POSIX_PRINT of ICU: neither control characters, the separators of
\* lines and paragraphs, surrogates, nor unassigned code points, of which only those that never
\* will be characters are told apart.
NoCharacter(c) == c \in 64976..65007 \/ c % 65536 \in {65534, 65535}
IsPrint(c) == c \in 32..126 \/ (c >= 160 /\ c \notin {8232, 8233} \cup 55296..57343 /\ ~NoCharacter(c))
PrintByte(c) == c \in 32..126                     \* isprint of libc, on one byte

\* printf: %u (and %lld with its sign), and Places digits in a base.
Digit(d) == IF d < 10 THEN 48 + d ELSE 55 + d
Places(n, base, k) == [i \in 1..k |-> Digit((n \div base ^ (k - i)) % base)]
Numeral[k \in Nat] == IF k < 10 THEN <<Digit(k)>> ELSE Append(Numeral[k \div 10], Digit(k % 10))
Decimal(n) == IF n < 0 THEN <<B.minus>> \o Numeral[-n] ELSE Numeral[n]

\* The number the digits at the front of a text stand for, and how many there are.
DigitValue(b) == IF b \in 48..57 THEN b - 48 ELSE IF b \in 65..70 THEN b - 55 ELSE b - 87
Number(t, base) == FoldLeft(LAMBDA n, b : n * base + DigitValue(b), 0, t)
Digits(t) == LET k == SelectInSeq(t, LAMBDA b : b \notin 48..57)
             IN IF k = 0 THEN Len(t) ELSE k - 1
Atoll(t) ==
  IF t # <<>> /\ t[1] = B.minus THEN -Number(SubSeq(t, 2, 1 + Digits(Tail(t))), 10)
                                  ELSE Number(SubSeq(t, 1, Digits(t)), 10)

-----------------------------------------------------------------------------
LastCode == 1114111   \* the last code point
Code == 0..LastCode

\* U8_APPEND_UNSAFE, U8_NEXT and U8_FWD_1 of ICU.
More(c) == 128 + (c % 64)
Utf8(c) ==
  IF c < 128 THEN <<c>>
  ELSE IF c < 2048  THEN <<192 + c \div 64, More(c)>>
  ELSE IF c < 65536 THEN <<224 + c \div 4096, More(c \div 64), More(c)>>
  ELSE <<240 + c \div 262144, More(c \div 4096), More(c \div 64), More(c)>>
Bytes(s) == FlattenSeq([i \in 1..Len(s) |-> Utf8(s[i])])
Width(lead) == IF lead < 128 THEN 1 ELSE IF lead < 224 THEN 2 ELSE IF lead < 240 THEN 3 ELSE 4
CharAt(b, o) ==
  LET w == Width(b[o + 1]) IN
  FoldLeft(LAMBDA c, x : c * 64 + (x % 64),
           b[o + 1] % (IF w = 1 THEN 128 ELSE 2 ^ (7 - w)), SubSeq(b, o + 2, o + w))

\* Where the loops that call U8_FWD_1 are after n steps: they stop at the end.
Offset(b, n) ==
  LET at[k \in Nat] ==
        IF k = 0 THEN 0 ELSE LET o == at[k - 1] IN IF o = Len(b) THEN o ELSE o + Width(b[o + 1])
  IN at[n]

Strlen(b)         == CHOOSE n \in 0..Len(b) : Offset(b, n) = Len(b) /\ (n = 0 \/ Offset(b, n - 1) < Len(b))
StrlenGe(b, n)    == n <= 0 \/ Offset(b, n - 1) < Len(b)
Strsub(b, n)      == IF n < 0 \/ Offset(b, n) = Len(b) THEN "error" ELSE ToString(CharAt(b, Offset(b, n)))
Strsuffix(b, n)   == SubSeq(b, Offset(b, n) + 1, Len(b))
Substring(b, start, len) == SubSeq(b, Offset(b, start) + 1, Offset(b, start + len))

\* aux_strchr: the index of a character, or -1.
Strindex(b, ch) ==
  LET here == {n \in 0..Len(b) : Offset(b, n) < Len(b) /\ CharAt(b, Offset(b, n)) = ch}
  IN IF here = {} THEN -1 ELSE CHOOSE n \in here : \A m \in here : n <= m
Strcspn(b, chs) ==
  CHOOSE n \in 0..Strlen(b) :
    /\ n = Strlen(b) \/ Strindex(chs, CharAt(b, Offset(b, n))) >= 0
    /\ \A m \in 0..(n - 1) : Strindex(chs, CharAt(b, Offset(b, m))) < 0

\* Mutant: the place of the bytes themselves.
StrsindexBytes(b, needle) ==
  LET at == {o \in 0..Len(b) : o + Len(needle) <= Len(b) /\ SubSeq(b, o + 1, o + Len(needle)) = needle}
  IN IF at = {} THEN -1 ELSE CHOOSE p \in at : \A q \in at : p <= q

\* strstr finds bytes; the steps up to them are counted.
Strsindex(b, needle) ==
  LET at == {o \in 0..Len(b) : o + Len(needle) <= Len(b) /\ SubSeq(b, o + 1, o + Len(needle)) = needle}
      o  == CHOOSE p \in at : \A q \in at : p <= q
  IN IF at = {} THEN -1 ELSE CHOOSE n \in 0..o : Offset(b, n) >= o /\ (n = 0 \/ Offset(b, n - 1) < o)

-----------------------------------------------------------------------------
\* The writers.
Each(Escape(_), s) == FlattenSeq([i \in 1..Len(s) |-> Escape(s[i])])

\* uw_Basis_urlifyString; aux_urlifyChar writes a dot and two digits for each byte.
UrlChar(c) ==
  IF c = B.sp THEN <<B.plus>> ELSE IF Alnum(c) THEN <<c>>
  ELSE Each(LAMBDA b : <<B.dot>> \o Places(b, 16, 2), Utf8(c))

\* Mutant: an underscore at the front is no different.
MarkedNever(s) == <<>>

\* An underscore at the front is doubled, for the reader drops one.
Marked(s) == IF s[1] = B.under THEN <<B.under>> ELSE <<>>
Urlify(s) == IF s = <<>> THEN <<B.under>> ELSE Marked(s) \o Each(UrlChar, s)

\* uf of urweb.js: encodeURIComponent with dots for its percent signs.
Unreserved(c) == Alnum(c) \/ c \in {33, 39, 40, 41, 42, 45, 95, 126}
Uf(s) ==
  IF s = <<>> THEN <<B.under>>
  ELSE Marked(s) \o Each(LAMBDA c : IF Unreserved(c) THEN <<c>>
                                    ELSE Each(LAMBDA b : <<B.dot>> \o Places(b, 16, 2), Utf8(c)), s)

\* What a browser makes of the value of a field.
FormEncode(s) ==
  Each(LAMBDA c : IF c = B.sp THEN <<B.plus>> ELSE IF Alnum(c) \/ c \in {42, 45, 46, 95} THEN <<c>>
                  ELSE Each(LAMBDA b : <<B.percent>> \o Places(b, 16, 2), Utf8(c)), s)

\* uw_Basis_htmlifyString, and with raw letters uw_Basis_htmlifyString_w.
Entity(c) == <<B.amp, B.hash>> \o Decimal(c) \o <<B.semi>>
HtmlifyChar(c, raw) ==
  CASE c = B.lt  -> AmpLt
    [] c = B.amp -> AmpAmp
    [] OTHER        -> IF IsPrint(c) /\ (raw \/ c < 128) THEN Utf8(c) ELSE Entity(c)
Htmlify(s, raw) == Each(LAMBDA c : HtmlifyChar(c, raw), s)

\* uw_Basis_attrifyString, on bytes.
AttrifyByte(b) == IF b = B.quot THEN AmpQuot ELSE IF b = B.amp THEN AmpAmp ELSE <<b>>
Attrify(t) == Each(AttrifyByte, t)

\* uw_Basis_jsifyString, with its quotes.
JsifyChar(c) ==
  CASE c \in {B.quot, B.back}        -> <<B.back, c>>
    [] c \in {B.apos, B.lt, B.amp} -> <<B.back>> \o Places(c, 8, 3)
    [] OTHER -> IF IsPrint(c) THEN Utf8(c)
                ELSE IF c < 65536 THEN <<B.back, B.u>> \o Places(c, 16, 4)
                ELSE <<B.back, B.u, B.open>> \o Places(c, 16, 6) \o <<B.close>>
Jsify(s) == <<B.quot>> \o Each(JsifyChar, s) \o <<B.quot>>

\* uw_Basis_sqlifyString with uw_Estrings and without, uw_Basis_sqlifyBlob; on bytes.
Octal(b) == Places(b, 8, 3)
SqlByte(b, estrings) ==
  CASE b = B.apos -> <<IF estrings THEN B.back ELSE b, b>>
    [] b = B.back -> IF estrings THEN <<b, b>> ELSE <<b>>
    [] OTHER -> IF PrintByte(b) \/ ~estrings THEN <<b>> ELSE <<B.back>> \o Octal(b)
Sqlify(t, estrings) ==
  (IF estrings THEN <<B.E>> ELSE <<>>) \o <<B.apos>>
  \o Each(LAMBDA b : SqlByte(b, estrings), t) \o <<B.apos>>
BlobByte(b) ==
  CASE b = B.apos -> <<B.back, b>>
    [] b = B.back -> <<b, b, b, b>>
    [] OTHER -> IF PrintByte(b) THEN <<b>> ELSE <<B.back, B.back>> \o Octal(b)
SqlifyBlob(t) == <<B.E, B.apos>> \o Each(BlobByte, t) \o <<B.apos>>

-----------------------------------------------------------------------------
\* The readers.  At each place of a text: the bytes read there, and how far it goes on.
Stop == [is |-> <<>>, len |-> 0]
Is(bytes, len) == [is |-> bytes, len |-> len]

Scan(Step(_, _), t) ==
  LET from[i \in 1..(Len(t) + 1)] ==
        LET e == IF i > Len(t) THEN Stop ELSE Step(t, i)
            r == from[i + e.len]
        IN IF e.len = 0 THEN [is |-> <<>>, rest |-> SubSeq(t, i, Len(t))]
                        ELSE [r EXCEPT !.is = e.is \o @]
  IN from[1]

Hex(t, i, n) == Number(SubSeq(t, i, i + n - 1), 16)
Oct(t, i)    == Number(SubSeq(t, i, i + 2), 8)

\* uw_unurlifyString_to, and uu of urweb.js, which undoes the same.
UrlByte(t, i, fromClient) ==
  CASE t[i] = B.plus -> Is(<<B.sp>>, 1)
    [] t[i] = B.percent \/ (t[i] = B.dot /\ ~fromClient) -> Is(<<Hex(t, i + 1, 2)>>, 3)
    [] OTHER -> Is(<<t[i]>>, 1)
Unmarked(t) ==
  CASE t # <<>> /\ t[1] = B.under -> Tail(t)
    [] Len(t) >= 3 /\ t[1] \in {B.percent, B.dot} /\ t[2] = 53 /\ t[3] \in {70, 102} -> SubSeq(t, 4, Len(t))
    [] OTHER -> t
UnurlifyTo(t, fromClient) ==
  Scan(LAMBDA u, i : UrlByte(u, i, fromClient), IF fromClient THEN t ELSE Unmarked(t)).is

\* uw_unurlify_advance: the text up to a slash, and what is behind it.
Advance(t) ==
  LET k == SelectInSeq(t, LAMBDA b : b = B.slash) IN
  IF k = 0 THEN [is |-> t, rest |-> <<>>]
           ELSE [is |-> SubSeq(t, 1, k - 1), rest |-> SubSeq(t, k + 1, Len(t))]

\* HTML: character references; the text ends where markup begins, an attribute at its quote.
\* (That 128 to 159 are characters of windows-1252 in a reference is left out.)
MarkupByte(t, i, end) ==
  LET At(e) == i + Len(e) - 1 <= Len(t) /\ SubSeq(t, i, i + Len(e) - 1) = e
      n == Digits(SubSeq(t, i + 2, Len(t)))
  IN CASE t[i] = end -> Stop
       [] At(AmpLt) -> Is(<<B.lt>>, 4) [] At(AmpAmp) -> Is(<<B.amp>>, 5)
       [] At(AmpQuot) -> Is(<<B.quot>>, 6)
       [] At(<<B.amp, B.hash>>) -> Is(Utf8(Number(SubSeq(t, i + 2, i + 1 + n), 10)), n + 3)
       [] OTHER -> Is(<<t[i]>>, 1)
Markup(t, end) == Scan(LAMBDA u, i : MarkupByte(u, i, end), t)

\* JavaScript: a string literal, after its first quote.
ScriptByte(t, i) ==
  IF t[i] = B.quot THEN Stop ELSE IF t[i] # B.back THEN Is(<<t[i]>>, 1)
  ELSE CASE t[i + 1] = B.zero -> Is(Utf8(Oct(t, i + 1)), 4)
         [] t[i + 1] = B.u -> IF t[i + 2] = B.open THEN Is(Utf8(Hex(t, i + 3, 6)), 10) ELSE Is(Utf8(Hex(t, i + 2, 4)), 6)
         [] OTHER -> Is(<<t[i + 1]>>, 2)
Script(t) == Scan(ScriptByte, Tail(t))

\* SQL: a literal, after its first quote; with and without escapes.
SqlRead(t, i, escapes) ==
  CASE t[i] = B.apos -> IF i < Len(t) /\ t[i + 1] = B.apos THEN Is(<<t[i]>>, 2) ELSE Stop
    [] escapes /\ t[i] = B.back ->
         IF t[i + 1] \in 48..55 THEN Is(<<Oct(t, i + 1)>>, 4) ELSE Is(<<t[i + 1]>>, 2)
    [] OTHER -> Is(<<t[i]>>, 1)
Literal(t) ==
  IF t[1] = B.E THEN Scan(LAMBDA u, i : SqlRead(u, i, TRUE), SubSeq(t, 3, Len(t)))
                   ELSE Scan(LAMBDA u, i : SqlRead(u, i, FALSE), Tail(t))

\* bytea of PostgreSQL: what it reads, and the two forms it writes.
ByteaByte(t, i) ==
  IF t[i] # B.back THEN Is(<<t[i]>>, 1)
  ELSE IF t[i + 1] = B.back THEN Is(<<t[i]>>, 2) ELSE Is(<<Oct(t, i + 1)>>, 4)
ByteaHex(t) == <<B.back, B.x>> \o Each(LAMBDA b : Places(b, 16, 2), t)
ByteaEscape(t) ==
  Each(LAMBDA b : IF b = B.back THEN <<b, b>> ELSE IF PrintByte(b) THEN <<b>> ELSE <<B.back>> \o Octal(b), t)

\* uw_Basis_stringToBlob_error.
BlobStep(t, i) ==
  LET Number3 == i + 3 <= Len(t) /\ \A k \in 1..3 : t[i + k] \in 48..57
  IN CASE t[i] = B.back /\ i < Len(t) /\ t[i + 1] = B.back -> Is(<<t[i]>>, 2)
       [] t[i] = B.back /\ Number3 -> Is(<<Oct(t, i + 1)>>, 4)
       [] OTHER -> Is(<<t[i]>>, 1)
StringToBlob(t) ==
  IF Len(t) >= 2 /\ SubSeq(t, 1, 2) = <<B.back, B.x>>
  THEN Scan(LAMBDA u, i : Is(<<Hex(u, i, 2)>>, 2), SubSeq(t, 3, Len(t))).is
  ELSE Scan(BlobStep, t).is

=============================================================================
