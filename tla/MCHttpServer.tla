----------------------------- MODULE MCHttpServer -----------------------------
(* Streams of one to three messages, well formed or not, for TLC.           *)
EXTENDS HttpServer

T(k, n) == [kind |-> k, n |-> n]

(* Bytes: a = 97, % = 37, + = 43, & = 38, = is 61, space = 32, / = 47,      *)
(* "4" = 52; 200 and 201 are above 127.                                     *)
P(key, val) == [key |-> key, val |-> val, bare |-> FALSE]
Bare(key)   == [key |-> key, val |-> <<>>, bare |-> TRUE]

Targets == <<
  [path |-> <<47, 97>>, params |-> <<>>],
  [path |-> <<47, 32, 43>>, params |-> <<P(<<97>>, <<32, 43>>), P(<<97>>, <<97>>)>>],
  [path |-> <<47, 37, 52, 97, 47>>, params |-> <<P(<<38, 61>>, <<37>>), P(<<>>, <<>>), P(<<97>>, <<>>)>>],
  [path |-> <<47, 200>>, params |-> <<P(<<97>>, <<97>>)>>],
  [path |-> <<47, 37>>, params |-> <<Bare(<<97>>)>>],
  [path |-> <<47>>, params |-> <<P(<<97>>, <<97>>), Bare(<<97>>)>>],
  [path |-> <<97, 37, 47>>, params |-> <<P(<<200>>, <<97>>), P(<<201>>, <<37, 32>>)>>],
  [path |-> <<47>>, params |-> <<>>],
  [path |-> <<47>>, params |-> <<>>] >>

Get(n)   == <<T("request", n), NL>>
Keep     == <<T("connection", 1), NL>>
Close    == <<T("connection", 0), NL>>
Length(n) == <<T("length", n), NL>>
Other    == <<T("field", 0), NL>>
End      == <<NL>>

Messages ==
  { Get(1) \o Keep \o End,                                  \* kept alive
    Get(2) \o End,                                          \* short
    Get(3) \o Close \o Keep \o End,                         \* the first value counts
    Get(4) \o Keep \o Length(2) \o End \o <<T("junk", 0), NL>>,
    Get(5) \o Length(1) \o Other \o End \o <<T("request", 6)>>,
    Get(7) \o <<T("junk", 0), NL>>,                         \* a bad header
    Get(6) \o Keep \o End,                                  \* a bad query
    Get(7) \o Keep \o <<T("junk", 0), NL>>,                \* refused, but "keep-alive"
    <<NL>>,                                                 \* a bad request line
    <<T("request", 8), T("junk", 0), NL>>,                  \* too long
    Get(9) \o <<T("field", 0), T("junk", 0), T("junk", 0)>> } \* too long, unfinished

Streams ==
  Messages \cup {a \o b : a, b \in Messages}
           \cup {Get(1) \o Keep \o End \o a \o b : a, b \in Messages}
===============================================================================
