------------------------------- MODULE MCHttp -------------------------------
(* Http with browsers that send good, bad, large and pipelined requests.    *)
EXTENDS Http

CONSTANTS c1, c2, w1, w2

R(method, header, contentLength, close) ==
  [method |-> method, header |-> header, contentLength |-> contentLength,
   malformed |-> FALSE, close |-> close]

\* A Content-Length that is no number.
NoNumber(r) == [r EXCEPT !.malformed = TRUE]

\* Pipelined pages, a form after a page, a form that makes the buffer grow, a header
\* too large for it, a Content-Length that is no number, and no request line.
MCStreams == {
  <<R("GET", 2, 0, FALSE), R("GET", 1, 0, FALSE), R("GET", 1, 0, TRUE)>>,
  <<R("GET", 2, 0, FALSE), R("POST", 2, 2, FALSE)>>,
  <<R("POST", 2, 4, TRUE)>>,
  <<R("GET", 9, 0, FALSE)>>,
  <<NoNumber(R("POST", 1, 0, FALSE))>>,
  <<R("GET", 1, 0, FALSE), R("bad", 1, 0, FALSE)>> }

\* A page asked for behind a form, before the form is answered.
MCPipelined == { <<R("POST", 2, 2, FALSE), R("GET", 1, 0, TRUE)>> }

\* A Content-Length below 0, which leaves the end of the header or more of it.
MCNegative == { <<R("GET", 3, n, FALSE), R("GET", 1, 0, TRUE)>> : n \in {-3, -1} }
=============================================================================
