---------------------------- MODULE MCHttpParser ----------------------------
(* A few URLs, answers and requests for TLC.                                *)
EXTENDS HttpMessages

OnePart == {
  [schema |-> s, userinfo |-> u, v6 |-> v, host |-> h, port |-> o, path |-> t,
   query |-> q, fragment |-> f] :
     s \in {<< <<"h", "a">> >>, << <<"h", "0">> >>, << <<>> >>},
     u \in {<<>>, << <<>> >>, << <<"a", ":", "0">> >>, << <<"a", "@", "a">> >>},
     v \in BOOLEAN,
     h \in {<<"h", ".", "0">>, <<":", ":", "0">>, <<":", "%", "a">>, <<>>, <<"a", "_">>},
     o \in {<<>>, << <<>> >>, << <<"8", "0">> >>, << <<"1", "0", "0">> >>, << <<"0", "a">> >>},
     t \in {<<>>, <<"/", "a">>, <<"/", "@", ":", "/">>},
     q \in {<<>>, << <<>> >>, << <<"?", "a", "/">> >>},
     f \in {<<>>, << <<"?", "#">> >>}}

Commands == {[text |-> WriteUrl(x), is |-> x] : x \in OnePart}

CRLF == <<"CR", "LF">>
OK   == <<"2", "0", "0">>

Answer(status, minor, fields, body) ==
  [status |-> status, minor |-> minor, eol |-> CRLF, fields |-> fields, body |-> body, trailers |-> <<>>]

Data(d) == [size |-> <<>>, ext |-> <<>>, data |-> d]
Chunk(n, d) == [size |-> n, ext |-> <<>>, data |-> d]

Length(digits) == Field("length", <<digits>>)
Coding(c) == Field("coding", <<c>>)
Chunked == Coding(<<"chunk", "ed">>)
Conn(elems) == Field("connection", elems)
Other(v) == Field("other", <<v>>)

Two == Answer(OK, "1", <<Length(<<"0", "2">>), Other(<<"x">>)>>, <<Data(<<"0", "LF">>)>>)
None0 == Answer(OK, "1", <<Length(<<"0">>)>>, <<>>)
Bare == Answer(<<"2", "0", "4">>, "1", <<>>, <<>>)

Chunks == [Answer(OK, "1", <<Chunked>>,
             <<[Chunk(<<"2">>, <<"CR", "LF">>) EXCEPT !.ext = <<";", "x">>],
               Chunk(<<"1">>, <<"0">>), Chunk(<<"0">>, <<>>)>>)
           EXCEPT !.trailers = <<Other(<<"x">>)>>]

(* Answers for each form of Connection.                                     *)
Lists == {
  <<Conn(<<Close>>)>>,
  <<Conn(<<KeepAlive>>)>>,
  <<Conn(<<Close, KeepAlive>>)>>,
  <<Conn(<< <<"x">>, Close>>)>>,
  <<Conn(<< <<>>, Close>>)>>,
  <<Conn(<<KeepAlive, <<>>, Close>>)>>,
  <<Conn(<< <<"keep">>, Close>>)>>,
  <<Conn(<<KeepAlive>>), Conn(<<Close>>)>>,
  <<Field("proxy", <<Close>>)>>,
  <<[Conn(<< <<"x">>, Close>>) EXCEPT !.sep = <<",", "TAB">>]>>,
  <<[Conn(<<Close>>) EXCEPT !.post = <<"SP">>]>>,
  <<[Conn(<<Close>>) EXCEPT !.post = <<"TAB">>]>>,
  <<[Conn(<<Close>>) EXCEPT !.fold = <<"x">>]>>,
  <<Conn(<<Upgraded>>), Field("upgrade", << <<"x">> >>)>>,
  <<Field("other", << <<>> >>)>>}

Connections == {Answer(OK, v, Append(l, Length(<<"1">>)), <<Data(<<"x">>)>>) : v \in {"0", "1"}, l \in Lists}

X(n) == [i \in 1 .. n |-> "x"]

(* Lengths about the limit, of which the last that is taken is 59, or 2f.   *)
AtLimit ==
  {Answer(OK, "1", <<Length(<<"5", "9">>)>>, <<Data(X(59))>>),
   Answer(OK, "1", <<Chunked>>, <<Chunk(<<"2", "f">>, X(47)), Chunk(<<"0">>, <<>>)>>)}
  \cup {Answer(OK, "1", <<Length(n)>>, <<>>) :
          n \in {<<"6", "0">>, <<"6", "2">>, <<"6", "3">>, <<"6", "4">>, <<"2", "5", "6">>}}
  \cup {Answer(OK, "1", <<Chunked>>, <<Chunk(n, <<>>)>>) :
          n \in {<<"3", "0">>, <<"3", "a">>, <<"3", "f">>, <<"4", "0">>, <<"f", "f">>}}

(* Headers longer than the limit, or than half of it, and long trailers and *)
(* lines of chunks.                                                         *)
Long ==
  {Answer(OK, "1", <<Length(<<"0">>), Other(X(n))>>, <<>>) : n \in {30, 50, 51}}
  \cup {[Chunks EXCEPT !.trailers = <<Other(X(n))>>] : n \in {44, 73, 74}}
  \cup {[Chunks EXCEPT !.body[1].ext = <<";">> \o X(n)] : n \in {76, 77}}

Unsure == {
  Answer(OK, "1", <<Length(<<"1">>), Chunked>>, <<Chunk(<<"0">>, <<>>)>>),
  Answer(OK, "1", <<Length(<<"1">>), Length(<<"1">>)>>, <<Data(<<"x">>)>>),
  Answer(OK, "1", <<Length(<<"1", "a">>)>>, <<>>),
  Answer(OK, "1", <<[Length(<<"1">>) EXCEPT !.fold = <<"1">>]>>, <<>>)}

Odd == {
  Answer(OK, "1", <<Length(<<"0", "SP", "2">>)>>, <<Data(<<"x", "x">>)>>),
  Answer(OK, "1", <<Length(<<>>), Length(<<"1">>)>>, <<Data(<<"x">>)>>),
  Answer(OK, "1", <<>>, <<Data(<<"x", "CR">>)>>),
  Answer(OK, "1", <<Coding(<<"x">>)>>, <<Data(<<"x", "x">>)>>),
  [None0 EXCEPT !.eol = <<"LF">>],
  Answer(<<"1", "0", "1">>, "1", <<Conn(<<Upgraded>>), Field("upgrade", << <<"x">> >>)>>, <<>>),
  Bare}

Stream1(messages) == MakeStream("RESPONSE", messages, <<>>)

Request(method, target, minor, fields, body) ==
  [method |-> method, target |-> target, minor |-> minor, eol |-> CRLF, fields |-> fields,
   body |-> body, trailers |-> <<>>]

Get  == Request("GET", <<"/", "a", "?", "a">>, "1", <<>>, <<>>)
Post == Request("POST", <<"h", ":", "/", "/", "h", "/", "#", "a">>, "1", <<Length(<<"1">>)>>, <<Data(<<"x">>)>>)
Final == Request("GET", <<"/">>, "1", <<Conn(<<Close>>)>>, <<>>)
Old  == Request("GET", <<"*">>, "0", <<>>, <<>>)
Via  == Request("CONNECT", <<"h", ":", "8">>, "1", <<>>, <<>>)

LfChunks == [Chunks EXCEPT !.eol = <<"LF">>]

Ordinary == {Two, Chunks, LfChunks, None0, Bare}

Single == {<<Stream1(<<a, b>>)>> : a \in Connections, b \in {None0, Chunks}}
  \cup {<<Stream1(<<a, b, c>>)>> : a \in Ordinary, b \in Ordinary, c \in {Two}}
  \cup {<<Stream1(<<None0, a>>)>> : a \in Unsure \cup Odd \cup AtLimit}
  \cup {<<Stream1(<<a, None0>>)>> : a \in Long}

(* A connection that breaks: an answer of which the end, or more, is lost,  *)
(* as it is or with something else behind it.                               *)
Parts(m) == LET w == WriteMessage("RESPONSE", m) IN {SubSeq(w, 1, k) : k \in 1 .. Len(w) - 2}

Junk == {<<"x">>, <<"CTL">>, <<"LF", "LF">>, <<"CR", "CR">>}

Tails == Parts(Chunks) \cup Parts(Two) \cup {<<"CR", "LF", "H">>} \cup Junk
  \cup {t \o <<"CTL">> : t \in Parts(Chunks) \cup Parts(Two)}

Broken == {<<MakeStream("RESPONSE", <<None0>>, t), Stream1(<<None0>>)>> : t \in Tails}

Requests == {<<MakeStream("REQUEST", m, <<>>)>> :
               m \in {<<Get, Post, Get>>, <<Post, Final>>, <<Final, Get>>, <<Old, Get>>, <<Via>>, <<Via, Get>>}}

AllPlans == Single \cup Broken \cup Requests
===============================================================================
