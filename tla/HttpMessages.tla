---------------------------- MODULE HttpMessages ----------------------------
(***************************************************************************)
(* What HttpParser is checked against: URLs and messages as their parts,    *)
(* how they are written, and what they say, from the parts alone.           *)
(***************************************************************************)
EXTENDS HttpParser

(* A URL as its parts: an absent part is the empty sequence of sequences,   *)
(* a present one a sequence of one.                                         *)
Opt(pre, part) == IF part = <<>> THEN <<>> ELSE pre \o part[1]

WriteUrl(x) ==
  Opt(<<>>, x.schema) \o <<":", "/", "/">>
    \o (IF x.userinfo = <<>> THEN <<>> ELSE Append(x.userinfo[1], "@"))
    \o (IF x.v6 THEN <<"[">> \o x.host \o <<"]">> ELSE x.host)
    \o Opt(<<":">>, x.port) \o x.path \o Opt(<<"?">>, x.query) \o Opt(<<"#">>, x.fragment)

All(part, set) == \A i \in 1 .. Len(part) : part[i] \in set

V6Host(h) ==
  \E k \in 1 .. Len(h) :
    /\ All(SubSeq(h, 1, k), Hex \cup {":", "."})
    /\ \/ k = Len(h)
       \/ /\ h[k + 1] = "%" /\ Len(h) > k + 1
          /\ All(SubSeq(h, k + 2, Len(h)), ZoneChar)

(* A fragment is refused right behind the host: the server states know no # *)
IsUrl(x) ==
  /\ x.schema # <<>> /\ x.schema[1] # <<>> /\ All(x.schema[1], Alpha)
  /\ x.userinfo # <<>> => All(x.userinfo[1], Userinfo)
  /\ x.host # <<>> /\ IF x.v6 THEN V6Host(x.host) ELSE All(x.host, HostChar)
  /\ x.port # <<>> => x.port[1] # <<>> /\ All(x.port[1], Num) /\ Number(x.port[1]) <= PortMax
  /\ All(x.path, UrlChar)
  /\ x.query # <<>> => All(x.query[1], UrlChar \cup {"?"})
  /\ x.fragment # <<>> => All(x.fragment[1], UrlChar \cup {"?", "#"})
  /\ x.fragment # <<>> => x.path # <<>> \/ x.query # <<>>

Text(part) == IF part = <<>> THEN <<>> ELSE part[1]

-----------------------------------------------------------------------------
(* A field: the elements of its value, what separates them, what follows    *)
(* the last, and a continuation on a line of its own.                       *)
FieldName == [connection |-> <<"con", "nection">>, proxy |-> <<"proxy", "-connection">>,
              length |-> <<"con", "tent-length">>, coding |-> <<"transfer", "-encoding">>,
              upgrade |-> <<"up", "grade">>, other |-> <<"x">>]

Field(name, elems) ==
  [name |-> name, elems |-> elems, sep |-> <<",", "SP">>, post |-> <<>>, fold |-> <<>>]

Joined(seqs, sep) ==
  FoldLeft(LAMBDA acc, i : acc \o (IF i = 1 THEN <<>> ELSE sep) \o seqs[i], <<>>,
           [i \in 1 .. Len(seqs) |-> i])

Flat(seqs) == Joined(seqs, <<>>)

Value(f) == Joined(f.elems, f.sep) \o f.post

(* The script's view of a field: a continued value goes on after the blank. *)
Pair(f) ==
  <<FieldName[f.name], Value(f) \o (IF f.fold = <<>> THEN <<>> ELSE <<"SP">> \o f.fold)>>

WriteField(f, eol) ==
  FieldName[f.name] \o <<":", "SP">> \o Value(f) \o eol
    \o (IF f.fold = <<>> THEN <<>> ELSE <<"SP">> \o f.fold \o eol)

(* A message: its first line, fields, and a body in chunks [size, ext,      *)
(* data]; of a body that is not chunked only the data is written.           *)
IsChunked(m) ==
  \E i \in 1 .. Len(m.fields) :
    /\ m.fields[i].name = "coding" /\ m.fields[i].elems = << <<"chunk", "ed">> >>
    /\ m.fields[i].post \in {<<>>, <<"SP">>} /\ m.fields[i].fold = <<>>

WriteChunk(c) ==
  c.size \o c.ext \o <<"CR", "LF">> \o (IF c.data = <<>> THEN <<>> ELSE c.data \o <<"CR", "LF">>)

FirstLine(type, m) ==
  IF type = "RESPONSE"
  THEN <<"H", "T", "T", "P", "/", "1", ".", m.minor, "SP">> \o m.status \o <<"SP", "x">>
  ELSE <<m.method, "SP">> \o m.target \o <<"SP", "H", "T", "T", "P", "/", "1", ".", m.minor>>

WriteMessage(type, m) ==
  FirstLine(type, m) \o m.eol
    \o Flat([i \in 1 .. Len(m.fields) |-> WriteField(m.fields[i], m.eol)]) \o m.eol
    \o (IF IsChunked(m)
        THEN Flat([i \in 1 .. Len(m.body) |-> WriteChunk(m.body[i])])
               \o Flat([i \in 1 .. Len(m.trailers) |-> WriteField(m.trailers[i], m.eol)]) \o m.eol
        ELSE Flat([i \in 1 .. Len(m.body) |-> m.body[i].data]))

MakeStream(type, messages, tail) ==
  [type |-> type, messages |-> messages,
   sent |-> Flat([i \in 1 .. Len(messages) |-> WriteMessage(type, messages[i])]) \o tail]

-----------------------------------------------------------------------------
(* The elements of Connection the code can see.  It loses those behind a    *)
(* tab, behind an empty element, and the one behind a bare beginning of a   *)
(* known element; a tab after an element, or a continued line, hides the    *)
(* element itself.                                                          *)
Beginnings == {<<"keep">>, <<"clo">>, <<"up">>}

Visible(f) ==
  {i \in 1 .. Len(f.elems) :
     /\ i > 1 => /\ \A k \in 1 .. Len(f.sep) : f.sep[k] # "TAB"
                 /\ f.elems[i - 1] \notin Beginnings
                 /\ \A j \in 1 .. i - 1 : f.elems[j] # <<>>
     /\ i = Len(f.elems) => f.post # <<"TAB">> /\ f.fold = <<>>}

Elements(m) ==
  UNION {{m.fields[i].elems[k] : k \in Visible(m.fields[i])} :
           i \in {j \in 1 .. Len(m.fields) : m.fields[j].name \in {"connection", "proxy"}}}

KeepAlive == <<"keep", "-alive">>
Close     == <<"clo", "se">>
Upgraded  == <<"up", "grade">>

(* Spaces between the digits of a length are passed over.                   *)
LengthFields(m) == {i \in 1 .. Len(m.fields) : m.fields[i].name = "length" /\ Value(m.fields[i]) # <<>>}

Digits(value) == SelectSeq(value, LAMBDA t : t # "SP")

HexNumber(digits) == FoldLeft(LAMBDA v, d : v * 16 + Unhex(d), 0, digits)

LengthOf(m) ==
  IF LengthFields(m) = {} THEN LenMax
  ELSE Number(Digits(Value(m.fields[CHOOSE i \in LengthFields(m) : TRUE])))

(* A number that may not fit: the code compares what the digits but the last*)
(* make with a conservative limit, before it takes the last.  The largest   *)
(* ones that fit are refused, too.                                          *)
TooLarge(n, base) == n \div base > (LenMax - base) \div base

BadLength(f) ==
  ~All(Digits(Value(f)), Num) \/ TooLarge(Number(Digits(Value(f))), 10) \/ f.fold # <<>>

(* A message whose end is not certain, or not to be known, is to be refused.*)
Ambiguous(m) ==
  \/ \E i \in LengthFields(m) : BadLength(m.fields[i])
  \/ Cardinality(LengthFields(m)) > 1
  \/ IsChunked(m) /\ LengthFields(m) # {}
  \/ IsChunked(m) /\ \E i \in 1 .. Len(m.body) :
       ~All(m.body[i].size, Hex) \/ TooLarge(HexNumber(m.body[i].size), 16)

NoBody(m) == m.status[1] = "1" \/ m.status \in {<<"2", "0", "4">>, <<"3", "0", "4">>}

UntilEof(type, m) ==
  type = "RESPONSE" /\ ~IsChunked(m) /\ LengthFields(m) = {} /\ ~NoBody(m)

Keeps(type, m) ==
  /\ IF m.minor = "1" THEN Close \notin Elements(m) ELSE KeepAlive \in Elements(m)
  /\ ~UntilEof(type, m)

(* After these the connection speaks another protocol.                      *)
Switches(type, m) ==
  \/ type = "REQUEST" /\ m.method = "CONNECT"
  \/ /\ Upgraded \in Elements(m)
     /\ \E i \in 1 .. Len(m.fields) : m.fields[i].name = "upgrade"
     /\ type = "REQUEST" \/ m.status = <<"1", "0", "1">>

Said(type, m) ==
  IF type = "REQUEST" THEN [method |-> m.method]
  ELSE [status |-> Number(m.status), keep |-> Keeps(type, m),
        headers |-> [i \in 1 .. Len(m.fields) |-> Pair(m.fields[i])]
                     \o (IF IsChunked(m) THEN [i \in 1 .. Len(m.trailers) |-> Pair(m.trailers[i])]
                         ELSE <<>>),
        body |-> Flat([i \in 1 .. Len(m.body) |-> m.body[i].data])]

WriteFields(fields, eol) == Flat([i \in 1 .. Len(fields) |-> WriteField(fields[i], eol)]) \o eol

(* What is counted as headers, each from 0: the headers with the first line,*)
(* the line before each chunk, and the trailers.                            *)
HeaderLengths(type, m) ==
  {Len(FirstLine(type, m) \o m.eol \o WriteFields(m.fields, m.eol))}
    \cup IF ~IsChunked(m) THEN {}
         ELSE {Len(m.body[i].size \o m.body[i].ext) + 2 : i \in 1 .. Len(m.body)}
                \cup {Len(WriteFields(m.trailers, m.eol))}

LongerThan(k, limit) ==
  \E n \in HeaderLengths(Stream.type, Stream.messages[k]) : n > limit

Refused(k) == Ambiguous(Stream.messages[k]) \/ LongerThan(k, MaxHeader)

(* Each cut inside a name or value counts one byte more towards the limit on*)
(* headers, at most once for each byte counted, so that headers of more than*)
(* half the limit may be refused, at the latest as they end and the count   *)
(* starts anew.                                                             *)
RefusedByCuts ==
  p.errno = "HEADER_OVERFLOW" /\ (uncut.nread = 0 \/ 2 * uncut.nread > MaxHeader)

End(k) == Len(Flat([i \in 1 .. k |-> WriteMessage(Stream.type, Stream.messages[i])]))

Index == 1 .. Len(Stream.messages)

(* The parser gets to the k-th message: each before it ends and leaves the  *)
(* connection to another.                                                   *)
Reached(k) ==
  \A j \in 1 .. k - 1 :
    LET m == Stream.messages[j]
    IN ~Refused(j) /\ Keeps(Stream.type, m) /\ ~Switches(Stream.type, m)

Ended(k) ==
  /\ Reached(k) /\ ~Refused(k) /\ End(k) <= pos
  /\ RefusedByCuts => End(k) < pos
  /\ UntilEof(Stream.type, Stream.messages[k]) => p.closed /\ pos = Len(Stream.sent)

-----------------------------------------------------------------------------
(* Each message is completed at its last byte, however the stream is cut,   *)
(* with its status, whether the connection stays, its headers and its body  *)
(* as they were sent.  Not so for the first answer after a connection lost  *)
(* while the script's buffers held something (wrk.c:379 starts the parser   *)
(* anew, not the buffers), and an answer without a header makes             *)
(* script_response read a pair from beyond the buffer's cursor.             *)
MessagesAreSeen ==
  at > 0 =>
    /\ Len(p.done) = Cardinality({k \in Index : Ended(k)})
    /\ \A k \in 1 .. Len(p.done) :
         LET s == Said(Stream.type, Stream.messages[k])
         IN \/ p.done[k] = s
            \/ k = 1 /\ p.stale
            \/ /\ Stream.type = "RESPONSE" /\ s.headers = <<>>
               /\ p.done[k] = [s EXCEPT !.headers = << << <<>>, <<"BEYOND">> >> >>]

(* A message whose length is stated twice, or not as a number that is sure  *)
(* to fit, or whose headers are too long, is refused by its last byte; what *)
(* follows the last message of a connection always is.  No other message is,*)
(* but one whose headers are longer than half the limit and are cut.        *)
RefusedIffAmbiguous ==
  at > 0 =>
    /\ \A k \in Index : Reached(k) /\ Refused(k) /\ End(k) <= pos => p.errno # "OK"
    /\ p.errno # "OK" =>
         \/ \E k \in Index :
              /\ Reached(k) /\ End(k - 1) < pos
              /\ \/ Refused(k)
                 \/ RefusedByCuts /\ LongerThan(k, MaxHeader \div 2)
                 \/ ~Reached(k + 1) /\ End(k) < pos
         \/ End(Len(Stream.messages)) < Len(Stream.sent) /\ End(Len(Stream.messages)) <= pos

(* Where reads end does not matter: what the parser has said by any byte,   *)
(* with the marks delivered, is what it says of the stream in one read (an  *)
(* error leaves what is marked undelivered).  Except: long headers may be   *)
(* refused because they are cut; and a control character is looked for only *)
(* at the start of a read once a value is of no interest.                   *)
CutsAreInvisible ==
  LET f == Flush(p)
      u == Flush(uncut)
      seen(q) == IF q.errno = "OK" THEN <<q.st, q.done, q.cs, q.headers, q.body, q.closed>>
                 ELSE <<q.errno, q.done>>
  IN at > 0 /\ (\A i \in 1 .. pos : IS_HEADER_CHAR(Stream.sent[i])) =>
       \/ seen(f) = seen(u)
       \/ RefusedByCuts

(* No assert() of the parser fails: those on the count of header bytes, on  *)
(* lengths, flags and marks rely on what other states left behind.          *)
AssertionsHold == p.ok /\ uncut.ok

(* A URL is taken exactly if its parts are good, and each part is what was  *)
(* written, wherever the delimiters of the others may also stand.           *)
UrlIsRead ==
  at = 0 /\ parts.read =>
    LET x == url.is
        part(f) == copy_url_part(url.text, parts.u, f)
        rest == x.path \o Opt(<<"?">>, x.query) \o Opt(<<"#">>, x.fragment)
    IN /\ parts.ok <=> IsUrl(x)
       /\ parts.ok =>
            /\ part("schema") = Text(x.schema) /\ part("userinfo") = Text(x.userinfo)
            /\ part("host") = x.host /\ part("port") = Text(x.port)
            /\ part("path") = x.path /\ part("query") = Text(x.query)
            /\ part("fragment") = Text(x.fragment)
            /\ script_path(url.text, parts.u) = IF x.path = <<>> THEN <<"/">> ELSE rest
===============================================================================
