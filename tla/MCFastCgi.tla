----------------------------- MODULE MCFastCgi -----------------------------
(* FastCgi with web servers that send good, bad and shared requests.        *)
EXTENDS FastCgi, TLC

CONSTANTS c1, c2, w1, w2

Rec(type, i, content, padding) ==
  [type |-> type, id |-> i, content |-> content, padding |-> padding]
P(n, v) == [name |-> n, value |-> v]
Begin(i) == Rec("BEGIN_REQUEST", i, <<"RESPONDER">>, 0)
Get == <<P("REQUEST_METHOD", "GET"), P("SCRIPT_NAME", "/")>>
Post(n) == <<P("CONTENT_LENGTH", n), P("REQUEST_METHOD", "POST"), P("SCRIPT_NAME", "/")>>
Page(i) == <<Begin(i), Rec("PARAMS", i, Get, 1), Rec("PARAMS", i, <<>>, 0)>>
\* Without CONTENT_LENGTH, the length is looked up as a header.
Announced(n) == <<Begin(1), Rec("PARAMS", 1, <<P("HTTP_CONTENT_LENGTH", n)>>, 0), Rec("PARAMS", 1, <<>>, 0)>>
Form(stdin) == <<Begin(1), Rec("PARAMS", 1, Post(2), 0), Rec("PARAMS", 1, <<>>, 0)>> \o stdin

\* Records with padding, and a body in two records.
Good == { Page(1), Form(<<Rec("STDIN", 1, <<"a">>, 1), Rec("STDIN", 1, <<"b">>, 0)>>) }
\* Records of another request.
Shared == { <<Begin(1), Rec("PARAMS", 2, Post(1), 0), Rec("PARAMS", 1, Post(1), 0),
              Rec("PARAMS", 1, <<>>, 0), Rec("STDIN", 2, <<"x">>, 0), Rec("STDIN", 1, <<"a">>, 0)>> }
\* A body that ends early, one that is too long, a request without a path, parameters
\* that break off, a record too large for the buffer, and records out of place.
Bad == { Form(<<Rec("STDIN", 1, <<>>, 0)>>),
         Announced(1) \o <<Rec("STDIN", 1, <<"a", "b">>, 0)>>,
         Announced(1) \o <<Rec("ABORT_REQUEST", 1, <<>>, 0)>>,
         Announced(0), Announced(-1),
         <<Begin(1), Rec("PARAMS", 1, Get \o <<P("malformed", "")>>, 0)>>,
         <<Begin(1), Rec("PARAMS", 1, Get, 2)>>,
         <<Begin(1), Rec("STDIN", 1, <<>>, 0)>>,
         <<Rec("PARAMS", 1, <<>>, 0)>>, <<Rec("BEGIN_REQUEST", 1, <<"FILTER">>, 0)>> }

\* One web server sends whatever it likes while another is well-behaved.
MCStreams == (c1 :> Good \union Shared \union Bad) @@ (c2 :> {Page(2)})
=============================================================================
