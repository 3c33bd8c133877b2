---------------------------- MODULE HttpParserProofs ----------------------------
(***************************************************************************)
(* Proofs about HttpParser, for any streams of any bytes, cut anywhere.    *)
(***************************************************************************)
EXTENDS HttpMessages, FiniteSetTheorems, SequenceTheorems, TLAPS

-------------------------------------------------------------------------------
(* What the states of the parser rely on.                                   *)
Fields == {"type", "st", "hs", "flags", "len", "status", "major", "minor", "method", "upgrade",
           "errno", "nread", "marks", "text", "inner", "exit", "ok", "some", "closed", "stale",
           "cs", "allocated", "headers", "body", "done"}

VersionState == {"s_res_http_major", "s_res_http_dot", "s_res_http_minor", "s_res_http_end",
                 "s_req_http_major", "s_req_http_dot", "s_req_http_minor", "s_req_http_end"}

LetterState == {"s_res_H", "s_res_HT", "s_res_HTT", "s_res_HTTP",
                "s_req_http_H", "s_req_http_HT", "s_req_http_HTT", "s_req_http_HTTP",
                "s_res_line_almost_done", "s_header_value_discard_ws_almost_done"}

LineState == {"s_res_first_status_code", "s_res_status_code", "s_res_status_start",
              "s_req_method", "s_req_spaces_before_url", "s_req_http_start",
              "s_req_line_almost_done"}

HeaderState == {"s_header_field_start", "s_header_value_discard_ws",
                "s_header_value_discard_lws", "s_header_value_lws", "s_header_almost_done",
                "s_headers_almost_done"}

SizeState == {"s_chunk_size", "s_chunk_parameters", "s_chunk_size_almost_done"}

ChunkState == SizeState \cup {"s_chunk_size_start", "s_chunk_data", "s_chunk_data_almost_done",
                              "s_chunk_data_done"}

StartState == {"s_dead", "s_start_res", "s_start_req"}

PlainState == StartState \cup VersionState \cup LetterState \cup LineState \cup HeaderState

BodyState == {"s_body_identity", "s_body_identity_eof", "s_chunk_data", "s_chunk_data_almost_done"}

State == PlainState \cup UrlState \cup ChunkState \cup BodyState
           \cup {"s_header_field", "s_header_value", "s_res_status"}

(* What may be marked in a state.                                           *)
MarksOf(s) ==
  CASE s = "s_header_field" -> {"header_field"}
    [] s = "s_header_value" -> {"header_value"}
    [] s \in UrlState -> {"url"}
    [] s = "s_res_status" -> {"status"}
    [] s \in BodyState -> {"body"}
    [] OTHER -> {}

(* What is left of a body, and what it is counted with.                     *)
Lengths(q) ==
  /\ q.len \in 0 .. LenMax
  /\ q.st \in {"s_body_identity", "s_chunk_data"} => q.len # 0
  /\ q.st \in {"s_body_identity", "s_chunk_data"} \cup SizeState => q.len # LenMax
  /\ q.st = "s_chunk_data_almost_done" => q.len = 0
  /\ q.st \in ChunkState => "CHUNKED" \in q.flags

Record(q) == DOMAIN q = Fields /\ q.ok = TRUE

Fits(q) ==
  /\ q.st \in State
  /\ q.marks \subseteq MarksOf(q.st)
  /\ q.st \notin BodyState => q.marks = MarksOf(q.st)
  /\ Lengths(q)
  /\ q.st = "s_header_value" => q.hs \notin {"h_connection", "h_transfer_encoding"}

Sound(q) ==
  /\ Record(q)
  /\ q.errno = "OK" => Fits(q) /\ (q.st = "s_chunk_size_start" => q.nread = 0)
  /\ q.errno # "OK" => q.st # "s_body_identity_eof"

(* At a byte that was counted.                                              *)
Running(q) == Record(q) /\ Fits(q) /\ q.errno = "OK" /\ (q.st = "s_chunk_size_start" => q.nread = 1)

AssertInv == Sound(p) /\ Sound(uncut)

-------------------------------------------------------------------------------
LEMMA NumIs ==
  /\ Num = {"0", "1", "2", "3", "4", "5", "6", "7", "8", "9"}
  /\ \A t \in Num : Digit[t] \in 0 .. 9
  /\ Hex = Num \cup {"a", "f"}
  /\ \A t \in Hex : Unhex(t) \in 0 .. 15
BY DEF Num, Digit, Hex, Unhex

LEMMA PlainSound ==
  ASSUME NEW q, Record(q), q.st \in PlainState, q.marks = {}, q.len \in 0 .. LenMax
  PROVE  Sound(q)
<1>1. q.st \in State /\ q.st \notin ChunkState \cup BodyState \cup {"s_header_value"}
  BY DEF PlainState, State, ChunkState, BodyState, SizeState, StartState, VersionState, LetterState,
         LineState, HeaderState
<1>2. MarksOf(q.st) = {}
  BY DEF MarksOf, PlainState, UrlState, BodyState, StartState, VersionState, LetterState,
         LineState, HeaderState
<1>3. Fits(q)
  BY <1>1, <1>2 DEF Fits, Lengths, ChunkState, BodyState
<1>4. QED
  BY <1>1, <1>3 DEF Sound, ChunkState, BodyState

LEMMA PlainIs ==
  ASSUME NEW q, Running(q), q.st \in PlainState
  PROVE  q.marks = {} /\ q.len \in 0 .. LenMax /\ Record(q) /\ q.errno = "OK"
<1>1. MarksOf(q.st) = {}
  BY DEF MarksOf, PlainState, UrlState, BodyState, StartState, VersionState, LetterState,
         LineState, HeaderState
<1>2. QED
  BY <1>1 DEF Running, Fits, Lengths

LEMMA FailSound ==
  ASSUME NEW q, Record(q), q.st # "s_body_identity_eof", NEW e, e # "OK"
  PROVE  Sound(Fail(q, e))
BY DEF Fail, Sound, Record, Fields

(* The buffers and what is marked.                                          *)
Still(x, q) ==
  /\ x.type = q.type /\ x.nread = q.nread /\ x.done = q.done /\ x.inner = q.inner
  /\ x.some = q.some
  /\ x.cs = q.cs /\ x.allocated = q.allocated /\ x.headers = q.headers /\ x.body = q.body
  /\ x.text = q.text /\ x.marks = q.marks

Ready(q) == Record(q) /\ q.len \in 0 .. LenMax /\ q.errno = "OK"

(* What steers the parser.                                                  *)
Agree(q, r) ==
  /\ q.type = r.type /\ q.st = r.st /\ q.hs = r.hs /\ q.flags = r.flags /\ q.len = r.len
  /\ q.status = r.status /\ q.major = r.major /\ q.minor = r.minor /\ q.method = r.method
  /\ q.upgrade = r.upgrade /\ q.errno = r.errno /\ q.exit = r.exit /\ q.closed = r.closed
  /\ q.done = r.done

(* A state of the start line that marks nothing.                            *)
Plain(x, q) ==
  /\ Record(x) /\ Still(x, q)
  /\ x.errno = "OK" => x.st \in PlainState /\ x.len \in 0 .. LenMax
  /\ x.errno # "OK" => x.st # "s_body_identity_eof"

LEMMA PlainGoes ==
  ASSUME NEW q, Running(q), q.st \in PlainState, NEW x, Plain(x, q)
  PROVE  Sound(x)
<1>1. x.marks = {}
  BY PlainIs DEF Plain, Still
<1>2. CASE x.errno = "OK"
  BY <1>1, <1>2, PlainSound DEF Plain
<1>3. CASE x.errno # "OK"
  BY <1>3 DEF Plain, Sound
<1>4. QED
  BY <1>2, <1>3

LEMMA LiteralPlain ==
  ASSUME NEW q, NEW t, Ready(q), q.st \in LetterState
  PROVE  Plain(Literal(q, t), q)
BY ParserAssumption
   DEF Literal, Letters, Plain, Still, Ready, Record, Fields, To, Fail, PlainState, StartState,
       VersionState, LetterState, LineState, HeaderState

LEMMA LiteralAgree ==
  ASSUME NEW q, NEW r, NEW t, Ready(q), Ready(r), Agree(q, r), q.st \in LetterState
  PROVE  Agree(Literal(q, t), Literal(r, t))
BY DEF Literal, Letters, Agree, Ready, Record, Fields, To, Fail

LEMMA VersionPlain ==
  ASSUME NEW q, NEW t, Ready(q), q.st \in VersionState
  PROVE  Plain(Version(q, t), q)
BY ParserAssumption
   DEF Version, Plain, Still, Ready, Record, Fields, To, Fail, PlainState, StartState,
       VersionState, LetterState, LineState, HeaderState

LEMMA VersionAgree ==
  ASSUME NEW q, NEW r, NEW t, Ready(q), Ready(r), Agree(q, r), q.st \in VersionState
  PROVE  Agree(Version(q, t), Version(r, t))
BY DEF Version, Agree, Ready, Record, Fields, To, Fail

LEMMA DeadPlain ==
  ASSUME NEW q, NEW t, Ready(q), q.st = "s_dead"
  PROVE  Plain(s_dead(q, t), q)
BY ParserAssumption
   DEF s_dead, Plain, Still, Ready, Record, Fields, To, Fail, PlainState, StartState,
       VersionState, LetterState, LineState, HeaderState

LEMMA DeadAgree ==
  ASSUME NEW q, NEW r, NEW t, Ready(q), Ready(r), Agree(q, r), q.st = "s_dead"
  PROVE  Agree(s_dead(q, t), s_dead(r, t))
BY DEF s_dead, Agree, Ready, Record, Fields, To, Fail

LEMMA StartResPlain ==
  ASSUME NEW q, NEW t, Ready(q), q.st = "s_start_res"
  PROVE  Plain(s_start_res(q, t), q)
BY ParserAssumption
   DEF s_start_res, StartMessage, Plain, Still, Ready, Record, Fields, To, Fail, PlainState,
       StartState, VersionState, LetterState, LineState, HeaderState

LEMMA StartResAgree ==
  ASSUME NEW q, NEW r, NEW t, Ready(q), Ready(r), Agree(q, r), q.st = "s_start_res"
  PROVE  Agree(s_start_res(q, t), s_start_res(r, t))
BY DEF s_start_res, StartMessage, Agree, Ready, Record, Fields, To, Fail

LEMMA FirstStatusPlain ==
  ASSUME NEW q, NEW t, Ready(q), q.st = "s_res_first_status_code"
  PROVE  Plain(s_res_first_status_code(q, t), q)
BY ParserAssumption
   DEF s_res_first_status_code, Plain, Still, Ready, Record, Fields, To, Fail, PlainState,
       StartState, VersionState, LetterState, LineState, HeaderState

LEMMA FirstStatusAgree ==
  ASSUME NEW q, NEW r, NEW t, Ready(q), Ready(r), Agree(q, r), q.st = "s_res_first_status_code"
  PROVE  Agree(s_res_first_status_code(q, t), s_res_first_status_code(r, t))
<1>1. CASE t \in Num
  BY <1>1, NumIs DEF s_res_first_status_code, Agree, Ready, Record, Fields, To
<1>2. CASE t = "SP" /\ t \notin Num
  BY <1>2 DEF s_res_first_status_code
<1>3. CASE t # "SP" /\ t \notin Num
  BY <1>3 DEF s_res_first_status_code, Agree, Ready, Record, Fields, Fail
<1>4. QED
  BY <1>1, <1>2, <1>3

LEMMA StartReqPlain ==
  ASSUME NEW q, NEW t, Ready(q), q.st = "s_start_req"
  PROVE  Plain(s_start_req(q, t), q)
BY ParserAssumption
   DEF s_start_req, StartMessage, Plain, Still, Ready, Record, Fields, To, Fail, PlainState,
       StartState, VersionState, LetterState, LineState, HeaderState

LEMMA StartReqAgree ==
  ASSUME NEW q, NEW r, NEW t, Ready(q), Ready(r), Agree(q, r), q.st = "s_start_req"
  PROVE  Agree(s_start_req(q, t), s_start_req(r, t))
<1>1. CASE t \in {"CR", "LF"}
  BY <1>1 DEF s_start_req, Method
<1>2. CASE t \in Method /\ t \notin {"CR", "LF"}
  BY <1>2 DEF s_start_req, StartMessage, Agree, Ready, Record, Fields, To
<1>3. CASE t \notin Method /\ t \notin {"CR", "LF"}
  BY <1>3 DEF s_start_req, StartMessage, Agree, Ready, Record, Fields, Fail
<1>4. QED
  BY <1>1, <1>2, <1>3

LEMMA MethodPlain ==
  ASSUME NEW q, NEW t, Ready(q), q.st = "s_req_method"
  PROVE  Plain(s_req_method(q, t), q)
BY ParserAssumption
   DEF s_req_method, Plain, Still, Ready, Record, Fields, To, Fail, PlainState, StartState,
       VersionState, LetterState, LineState, HeaderState

LEMMA MethodAgree ==
  ASSUME NEW q, NEW r, NEW t, Ready(q), Ready(r), Agree(q, r), q.st = "s_req_method"
  PROVE  Agree(s_req_method(q, t), s_req_method(r, t))
BY DEF s_req_method, Agree, Ready, Record, Fields, To, Fail

LEMMA HttpStartPlain ==
  ASSUME NEW q, NEW t, Ready(q), q.st = "s_req_http_start"
  PROVE  Plain(s_req_http_start(q, t), q)
BY ParserAssumption
   DEF s_req_http_start, Plain, Still, Ready, Record, Fields, To, Fail, PlainState, StartState,
       VersionState, LetterState, LineState, HeaderState

LEMMA HttpStartAgree ==
  ASSUME NEW q, NEW r, NEW t, Ready(q), Ready(r), Agree(q, r), q.st = "s_req_http_start"
  PROVE  Agree(s_req_http_start(q, t), s_req_http_start(r, t))
BY DEF s_req_http_start, Agree, Ready, Record, Fields, To, Fail

LEMMA LineDonePlain ==
  ASSUME NEW q, NEW t, Ready(q), q.st = "s_req_line_almost_done"
  PROVE  Plain(s_req_line_almost_done(q, t), q)
BY ParserAssumption
   DEF s_req_line_almost_done, Plain, Still, Ready, Record, Fields, To, Fail, PlainState,
       StartState, VersionState, LetterState, LineState, HeaderState

LEMMA LineDoneAgree ==
  ASSUME NEW q, NEW r, NEW t, Ready(q), Ready(r), Agree(q, r), q.st = "s_req_line_almost_done"
  PROVE  Agree(s_req_line_almost_done(q, t), s_req_line_almost_done(r, t))
BY DEF s_req_line_almost_done, Agree, Ready, Record, Fields, To, Fail

LEMMA HeaderDonePlain ==
  ASSUME NEW q, NEW t, Ready(q), q.st = "s_header_almost_done"
  PROVE  Plain(s_header_almost_done(q, t), q)
BY ParserAssumption
   DEF s_header_almost_done, Plain, Still, Ready, Record, Fields, To, Fail, PlainState,
       StartState, VersionState, LetterState, LineState, HeaderState

LEMMA HeaderDoneAgree ==
  ASSUME NEW q, NEW r, NEW t, Ready(q), Ready(r), Agree(q, r), q.st = "s_header_almost_done"
  PROVE  Agree(s_header_almost_done(q, t), s_header_almost_done(r, t))
BY DEF s_header_almost_done, Agree, Ready, Record, Fields, To, Fail

-------------------------------------------------------------------------------
(* What is marked, and what the script's buffers will hold once it has been *)
(* delivered.                                                               *)
Bytes == Token \cup {NUL}

Buf(q) == [cs |-> q.cs, allocated |-> q.allocated, headers |-> q.headers, body |-> q.body]

BufOf == [cs : {"FIELD", "VALUE"}, allocated : BOOLEAN, headers : Seq(Bytes), body : Seq(Bytes)]

Put(d, m, piece) ==
  CASE m = "header_field" ->
         [d EXCEPT !.headers =
                     (IF d.cs = "VALUE" THEN Append(d.headers, NUL) ELSE d.headers) \o piece,
                   !.cs = "FIELD", !.allocated = TRUE]
    [] m = "header_value" ->
         [d EXCEPT !.headers =
                     (IF d.cs = "FIELD" THEN Append(d.headers, NUL) ELSE d.headers) \o piece,
                   !.cs = "VALUE", !.allocated = TRUE]
    [] m = "body" -> [d EXCEPT !.body = d.body \o piece]
    [] OTHER -> d

Data(q) ==
  IF q.type = "REQUEST" \/ q.marks = {} THEN Buf(q)
  ELSE LET m == CHOOSE m \in Mark : q.marks = {m} IN Put(Buf(q), m, q.text[m])

Typed(q) ==
  /\ Buf(q) \in BufOf /\ q.nread \in Nat /\ q.marks \subseteq Mark
  /\ q.text \in [Mark -> Seq(Bytes)]
  /\ \A m \in Mark : m \notin q.marks => q.text[m] = <<>>

LEMMA DataIs ==
  ASSUME NEW q, NEW m \in Mark, q.marks = {m}
  PROVE  Data(q) = IF q.type = "REQUEST" THEN Buf(q) ELSE Put(Buf(q), m, q.text[m])
<1>1. \A n \in Mark : q.marks = {n} <=> n = m
  OBVIOUS
<1>2. (CHOOSE n \in Mark : q.marks = {n}) = m
  BY <1>1
<1>3. QED
  BY <1>2 DEF Data

LEMMA PutIs ==
  ASSUME NEW d \in BufOf, NEW m \in Mark, NEW a \in Seq(Bytes)
  PROVE  Put(d, m, a) \in BufOf
<1>1. NUL \in Bytes
  BY DEF Bytes
<1>2. Append(d.headers, NUL) \in Seq(Bytes) /\ d.headers \in Seq(Bytes) /\ d.body \in Seq(Bytes)
  BY <1>1 DEF BufOf
<1>3. /\ Append(d.headers, NUL) \o a \in Seq(Bytes) /\ d.headers \o a \in Seq(Bytes)
      /\ d.body \o a \in Seq(Bytes)
  BY <1>2
<1>4. QED
  BY <1>3 DEF Put, BufOf, Mark

LEMMA PutPut ==
  ASSUME NEW d \in BufOf, NEW m \in Mark, NEW a \in Seq(Bytes), NEW b \in Seq(Bytes)
  PROVE  Put(Put(d, m, a), m, b) = Put(d, m, a \o b)
<1>1. NUL \in Bytes
  BY DEF Bytes
<1>2. Append(d.headers, NUL) \in Seq(Bytes) /\ d.headers \in Seq(Bytes) /\ d.body \in Seq(Bytes)
  BY <1>1 DEF BufOf
<1>3. \A x \in Seq(Bytes) : (x \o a) \o b = x \o (a \o b)
  BY ConcatAssociative
<1>4. CASE m = "header_field"
  BY <1>2, <1>3, <1>4 DEF Put, BufOf
<1>5. CASE m = "header_value"
  BY <1>2, <1>3, <1>5 DEF Put, BufOf
<1>6. CASE m = "body"
  BY <1>2, <1>3, <1>6 DEF Put, BufOf
<1>7. CASE m \in {"url", "status"}
  BY <1>7 DEF Put, BufOf
<1>8. QED
  BY <1>4, <1>5, <1>6, <1>7 DEF Mark

(* CALLBACK_DATA delivers what is marked.                                   *)
Delivered(x, q, m) ==
  /\ Record(x) /\ Typed(x) /\ Agree(x, q) /\ x.nread = q.nread /\ x.inner = q.inner
  /\ x.marks = q.marks \ {m} /\ x.text = [q.text EXCEPT ![m] = <<>>]
  /\ x.some = q.some

LEMMA DeliverIs ==
  ASSUME NEW q, Record(q), Typed(q), NEW m \in Mark, NEW x, x = Deliver(q, m)
  PROVE  /\ Record(x) /\ Agree(x, q) /\ x.nread = q.nread /\ x.inner = q.inner
         /\ x.marks = q.marks /\ x.text = q.text /\ x.some = q.some
         /\ Buf(x) = IF q.type = "REQUEST" THEN Buf(q) ELSE Put(Buf(q), m, q.text[m])
<1>1. CASE q.type = "REQUEST"
  BY <1>1 DEF Deliver, Agree
<1>2. CASE q.type # "REQUEST"
  <2>1. CASE m = "header_field"
    BY <1>2, <2>1 DEF Deliver, header_field, Agree, Record, Fields, Buf, Put
  <2>2. CASE m = "header_value"
    BY <1>2, <2>2 DEF Deliver, header_value, Agree, Record, Fields, Buf, Put
  <2>3. CASE m = "body"
    BY <1>2, <2>3 DEF Deliver, response_body, Agree, Record, Fields, Buf, Put
  <2>4. CASE m \in {"url", "status"}
    BY <1>2, <2>4 DEF Deliver, Agree, Buf, Put
  <2>5. QED
    BY <2>1, <2>2, <2>3, <2>4 DEF Mark
<1>3. QED
  BY <1>1, <1>2

LEMMA CallbackDelivers ==
  ASSUME NEW q, Record(q), Typed(q), q.errno = "OK", NEW m \in Mark
  PROVE  Delivered(CALLBACK_DATA(q, m), q, m)
<1>1. CASE m \notin q.marks
  <2>1. q.marks \ {m} = q.marks /\ [q.text EXCEPT ![m] = <<>>] = q.text
    BY <1>1 DEF Typed
  <2>2. CALLBACK_DATA(q, m) = q
    BY <1>1 DEF CALLBACK_DATA
  <2>3. QED
    BY <2>1, <2>2 DEF Delivered, Agree
<1>2. CASE m \in q.marks
  <2>1. PICK c : c = Claim(q, q.errno = "OK")
    OBVIOUS
  <2>2. /\ Record(c) /\ Agree(c, q) /\ c.nread = q.nread /\ c.inner = q.inner
        /\ c.marks = q.marks /\ c.text = q.text /\ c.some = q.some /\ Buf(c) = Buf(q)
    BY <2>1 DEF Claim, Record, Fields, Agree, Buf
  <2>3. Typed(c)
    BY <2>2 DEF Typed
  <2>4. PICK d : d = Deliver(c, m)
    OBVIOUS
  <2>5. /\ Record(d) /\ Agree(d, c) /\ d.nread = c.nread /\ d.inner = c.inner
        /\ d.marks = c.marks /\ d.text = c.text /\ d.some = c.some
        /\ Buf(d) = IF c.type = "REQUEST" THEN Buf(c) ELSE Put(Buf(c), m, c.text[m])
    BY <2>2, <2>3, <2>4, DeliverIs
  <2>6. PICK x : x = CALLBACK_DATA(q, m)
    OBVIOUS
  <2>7. x = [d EXCEPT !.marks = @ \ {m}, !.text[m] = <<>>]
    BY <1>2, <2>1, <2>4, <2>6 DEF CALLBACK_DATA
  <2>8. /\ Record(x) /\ Agree(x, d) /\ x.nread = d.nread /\ x.inner = d.inner
        /\ x.marks = d.marks \ {m} /\ x.text = [d.text EXCEPT ![m] = <<>>] /\ x.some = d.some
        /\ Buf(x) = Buf(d)
    BY <2>5, <2>7 DEF Record, Fields, Agree, Buf
  <2>9. Buf(x) \in BufOf
    <3>1. Buf(c) \in BufOf /\ c.text[m] \in Seq(Bytes)
      BY <2>3 DEF Typed
    <3>2. QED
      BY <2>5, <2>8, <3>1, PutIs
  <2>10. Agree(x, q)
    BY <2>2, <2>5, <2>8 DEF Agree
  <2>11. x.marks = q.marks \ {m} /\ x.text = [q.text EXCEPT ![m] = <<>>] /\ x.nread = q.nread
    BY <2>2, <2>5, <2>8
  <2>12. <<>> \in Seq(Bytes)
    OBVIOUS
  <2>13. x.text \in [Mark -> Seq(Bytes)]
    BY <2>11, <2>12 DEF Typed
  <2>14. \A n \in Mark : n \notin x.marks => x.text[n] = <<>>
    BY <2>11 DEF Typed
  <2>15. Typed(x)
    BY <2>9, <2>11, <2>13, <2>14 DEF Typed
  <2>16. QED
    BY <2>2, <2>5, <2>6, <2>8, <2>10, <2>11, <2>15 DEF Delivered
<1>3. QED
  BY <1>1, <1>2

LEMMA CallbackData ==
  ASSUME NEW q, Record(q), Typed(q), q.errno = "OK", NEW m \in Mark, q.marks \subseteq {m}
  PROVE  /\ CALLBACK_DATA(q, m).marks = {}
         /\ Buf(CALLBACK_DATA(q, m)) = Data(q) /\ Data(CALLBACK_DATA(q, m)) = Data(q)
<1>1. PICK x : x = CALLBACK_DATA(q, m)
  OBVIOUS
<1>2. Delivered(x, q, m)
  BY <1>1, CallbackDelivers
<1>3. x.marks = {}
  BY <1>2 DEF Delivered
<1>4. Data(x) = Buf(x)
  BY <1>3 DEF Data
<1>5. CASE q.marks = {}
  <2>1. x = q
    BY <1>1, <1>5 DEF CALLBACK_DATA
  <2>2. QED
    BY <1>1, <1>3, <1>4, <2>1
<1>6. CASE q.marks = {m}
  <2>1. PICK c : c = Claim(q, q.errno = "OK")
    OBVIOUS
  <2>2. Record(c) /\ c.type = q.type /\ c.marks = q.marks /\ c.text = q.text /\ Buf(c) = Buf(q)
        /\ c.nread = q.nread
    BY <2>1 DEF Claim, Record, Fields, Buf
  <2>3. Typed(c)
    BY <2>2 DEF Typed
  <2>4. PICK d : d = Deliver(c, m)
    OBVIOUS
  <2>5. Record(d) /\ Buf(d) = IF c.type = "REQUEST" THEN Buf(c) ELSE Put(Buf(c), m, c.text[m])
    BY <2>2, <2>3, <2>4, DeliverIs
  <2>6. x = [d EXCEPT !.marks = @ \ {m}, !.text[m] = <<>>]
    BY <1>1, <1>6, <2>1, <2>4 DEF CALLBACK_DATA
  <2>7. Buf(x) = Buf(d)
    BY <2>5, <2>6 DEF Record, Fields, Buf
  <2>8. Data(q) = IF q.type = "REQUEST" THEN Buf(q) ELSE Put(Buf(q), m, q.text[m])
    BY <1>6, DataIs
  <2>9. QED
    BY <1>1, <1>3, <1>4, <2>2, <2>5, <2>7, <2>8
<1>7. QED
  BY <1>5, <1>6

-------------------------------------------------------------------------------
(* Two parsers that have read the same bytes, cut or not.                   *)
Match(q, r) ==
  /\ Agree(q, r)
  /\ q.errno = "OK" => /\ Data(q) = Data(r)
                       /\ r.nread <= q.nread /\ q.nread <= 2 * r.nread

LEMMA StillTyped ==
  ASSUME NEW q, NEW x, Typed(q), Still(x, q)
  PROVE  Typed(x) /\ Data(x) = Data(q)
BY DEF Still, Typed, Buf, Data

LEMMA StillMatch ==
  ASSUME NEW q, NEW r, NEW x, NEW y, Typed(q), Typed(r), Match(q, r), q.errno = "OK",
         Still(x, q), Still(y, r), Agree(x, y)
  PROVE  Match(x, y)
<1>1. Data(x) = Data(q) /\ Data(y) = Data(r)
  BY StillTyped
<1>2. x.nread = q.nread /\ y.nread = r.nread
  BY DEF Still
<1>3. QED
  BY <1>1, <1>2 DEF Match

LEMMA CallbackMatch ==
  ASSUME NEW q, NEW r, NEW m \in Mark, Record(q), Record(r), Typed(q), Typed(r), Match(q, r),
         q.errno = "OK", q.marks \subseteq {m}, r.marks \subseteq {m}
  PROVE  Match(CALLBACK_DATA(q, m), CALLBACK_DATA(r, m))
<1>0. r.errno = "OK"
  BY DEF Match, Agree
<1>1. PICK x : x = CALLBACK_DATA(q, m)
  OBVIOUS
<1>2. PICK y : y = CALLBACK_DATA(r, m)
  OBVIOUS
<1>3. Agree(x, q) /\ Agree(y, r) /\ x.nread = q.nread /\ y.nread = r.nread
  BY <1>0, <1>1, <1>2, CallbackDelivers DEF Delivered
<1>4. Data(x) = Data(q) /\ Data(y) = Data(r)
  BY <1>0, <1>1, <1>2, CallbackData
<1>5. Agree(x, y)
  BY <1>3 DEF Match, Agree
<1>6. QED
  BY <1>1, <1>2, <1>3, <1>4, <1>5 DEF Match

(* A mark is set, on nothing yet.                                           *)
Begins(x, q, m) ==
  /\ x.type = q.type /\ x.nread = q.nread /\ x.done = q.done /\ x.inner = q.inner
  /\ x.some = q.some
  /\ x.cs = q.cs /\ x.allocated = q.allocated /\ x.headers = q.headers /\ x.body = q.body
  /\ x.text = q.text /\ x.marks = {m}

LEMMA BeginsTyped ==
  ASSUME NEW q, NEW x, NEW m \in Mark, Typed(q), q.marks = {}, Begins(x, q, m)
  PROVE  Typed(x) /\ Data(x) = IF q.type = "REQUEST" THEN Data(q) ELSE Put(Data(q), m, <<>>)
<1>1. Typed(x)
  BY DEF Begins, Typed, Buf
<1>2. x.text[m] = <<>> /\ Buf(x) = Buf(q) /\ x.type = q.type
  BY DEF Begins, Typed, Buf
<1>3. Data(q) = Buf(q)
  BY DEF Data
<1>4. Data(x) = IF x.type = "REQUEST" THEN Buf(x) ELSE Put(Buf(x), m, x.text[m])
  BY DataIs DEF Begins
<1>5. QED
  BY <1>1, <1>2, <1>3, <1>4

LEMMA BeginsMatch ==
  ASSUME NEW q, NEW r, NEW x, NEW y, NEW m \in Mark, Typed(q), Typed(r), Match(q, r),
         q.errno = "OK", q.marks = {}, r.marks = {}, Begins(x, q, m), Begins(y, r, m), Agree(x, y)
  PROVE  Match(x, y)
<1>1. /\ Data(x) = IF q.type = "REQUEST" THEN Data(q) ELSE Put(Data(q), m, <<>>)
      /\ Data(y) = IF r.type = "REQUEST" THEN Data(r) ELSE Put(Data(r), m, <<>>)
  BY BeginsTyped
<1>2. x.nread = q.nread /\ y.nread = r.nread
  BY DEF Begins
<1>3. q.type = r.type /\ Data(q) = Data(r)
  BY DEF Match, Agree
<1>4. QED
  BY <1>1, <1>2, <1>3 DEF Match

-------------------------------------------------------------------------------
(* What an operation makes of the parser q.                                 *)
Clear(q) == Record(q) /\ Typed(q) /\ q.errno = "OK" /\ q.marks = {} /\ q.len \in 0 .. LenMax

Texts(x, q) ==
  \A m \in x.marks : IF m = "body" THEN Len(x.text[m]) > Len(q.text[m])
                     ELSE Len(x.text[m]) <= Len(q.text[m])

Goes(x, q) ==
  /\ Sound(x) /\ x.some = q.some /\ x.nread \in {q.nread, 0}
  /\ x.errno = "OK" => Typed(x) /\ Texts(x, q)
  /\ x.errno # "OK" => Buf(x) \in BufOf

LEMMA RunningClear ==
  ASSUME NEW q, Running(q), Typed(q), q.st \in PlainState
  PROVE  Clear(q)
BY PlainIs DEF Clear

LEMMA ClearGoes ==
  ASSUME NEW q, NEW x, Clear(x), x.st \in PlainState, x.some = q.some, x.nread \in {q.nread, 0}
  PROVE  Goes(x, q)
<1>1. Sound(x)
  BY PlainSound DEF Clear
<1>2. QED
  BY <1>1 DEF Goes, Clear, Texts

LEMMA StillGoes ==
  ASSUME NEW q, NEW x, Clear(q), Plain(x, q)
  PROVE  /\ Goes(x, q) /\ x.inner = q.inner /\ x.nread = q.nread
         /\ x.errno = "OK" => Clear(x) /\ x.st \in PlainState
<1>1. x.nread = q.nread /\ x.inner = q.inner /\ x.some = q.some /\ x.marks = q.marks
  BY DEF Plain, Still
<1>2. CASE x.errno = "OK"
  <2>1. Clear(x)
    BY <1>1, <1>2, StillTyped DEF Plain, Clear
  <2>2. QED
    BY <1>1, <1>2, <2>1, ClearGoes DEF Plain
<1>3. CASE x.errno # "OK"
  <2>1. Buf(x) \in BufOf
    BY DEF Plain, Still, Clear, Typed, Buf
  <2>2. QED
    BY <1>1, <1>3, <2>1 DEF Plain, Sound, Goes
<1>4. QED
  BY <1>2, <1>3

LEMMA FailGoes ==
  ASSUME NEW q, Record(q), Typed(q), q.st # "s_body_identity_eof", NEW e, e # "OK"
  PROVE  Goes(Fail(q, e), q) /\ Fail(q, e).inner = q.inner
<1>1. Sound(Fail(q, e))
  BY FailSound
<1>2. /\ Fail(q, e).some = q.some /\ Fail(q, e).nread = q.nread /\ Fail(q, e).errno = e
      /\ Fail(q, e).inner = q.inner /\ Buf(Fail(q, e)) \in BufOf
  BY DEF Fail, Record, Fields, Buf, Typed
<1>3. QED
  BY <1>1, <1>2 DEF Goes

LEMMA FailMatch ==
  ASSUME NEW q, NEW r, Record(q), Record(r), Agree(q, r), NEW e, e # "OK"
  PROVE  Match(Fail(q, e), Fail(r, e))
BY DEF Fail, Match, Agree, Record, Fields

(* Another state, all else as it is.                                        *)
LEMMA ToIs ==
  ASSUME NEW q, NEW s, Record(q)
  PROVE  /\ Record(To(q, s)) /\ Still(To(q, s), q) /\ To(q, s).st = s
         /\ To(q, s).errno = q.errno /\ To(q, s).len = q.len /\ To(q, s).flags = q.flags
         /\ To(q, s).hs = q.hs
         /\ \A r : Record(r) /\ Agree(q, r) => Agree(To(q, s), To(r, s))
BY DEF To, Record, Fields, Still, Agree

LEMMA ToClear ==
  ASSUME NEW q, NEW s, Clear(q)
  PROVE  Clear(To(q, s)) /\ Data(To(q, s)) = Data(q)
BY ToIs, StillTyped DEF Clear, Still

LEMMA ToGoes ==
  ASSUME NEW q, NEW s \in PlainState, Clear(q)
  PROVE  /\ Goes(To(q, s), q) /\ Clear(To(q, s)) /\ To(q, s).inner = q.inner
         /\ To(q, s).nread = q.nread
BY ToIs, ToClear, ClearGoes DEF Clear, Still

LEMMA ToMatch ==
  ASSUME NEW q, NEW r, NEW s, Record(q), Record(r), Typed(q), Typed(r), Match(q, r), q.errno = "OK"
  PROVE  Match(To(q, s), To(r, s))
<1>1. Agree(To(q, s), To(r, s)) /\ Still(To(q, s), q) /\ Still(To(r, s), r)
  BY ToIs DEF Match
<1>2. QED
  BY <1>1, StillMatch

(* What is marked is delivered on the way to a state that marks nothing.    *)
LEMMA CloseGoes ==
  ASSUME NEW q, Record(q), Typed(q), q.errno = "OK", q.len \in 0 .. LenMax,
         NEW m \in Mark, q.marks \subseteq {m}, NEW s
  PROVE  LET x == CALLBACK_DATA(To(q, s), m)
         IN /\ Clear(x) /\ x.st = s /\ x.some = q.some /\ x.nread = q.nread /\ x.inner = q.inner
            /\ x.len = q.len /\ x.flags = q.flags /\ Data(x) = Data(q) /\ Buf(x) = Data(q)
            /\ s \in PlainState => Goes(x, q)
<1>1. PICK a : a = To(q, s)
  OBVIOUS
<1>2. /\ Record(a) /\ Still(a, q) /\ a.st = s /\ a.errno = "OK" /\ a.len = q.len
      /\ a.flags = q.flags
  BY <1>1, ToIs
<1>3. Typed(a) /\ Data(a) = Data(q)
  BY <1>2, StillTyped
<1>4. PICK x : x = CALLBACK_DATA(a, m)
  OBVIOUS
<1>5. a.marks \subseteq {m}
  BY <1>2 DEF Still
<1>6. Delivered(x, a, m)
  BY <1>2, <1>3, <1>4, CallbackDelivers
<1>7. x.marks = {} /\ Data(x) = Data(a) /\ Buf(x) = Data(a)
  BY <1>2, <1>3, <1>4, <1>5, CallbackData
<1>8. /\ x.some = q.some /\ x.nread = q.nread /\ x.inner = q.inner /\ x.st = s /\ x.len = q.len
      /\ x.flags = q.flags /\ x.errno = "OK"
  BY <1>2, <1>6 DEF Delivered, Agree, Still
<1>9. Clear(x)
  BY <1>6, <1>7, <1>8 DEF Clear, Delivered
<1>10. s \in PlainState => Goes(x, q)
  BY <1>8, <1>9, ClearGoes
<1>11. QED
  BY <1>1, <1>3, <1>4, <1>7, <1>8, <1>9, <1>10

LEMMA CloseMatch ==
  ASSUME NEW q, NEW r, Record(q), Record(r), Typed(q), Typed(r), Match(q, r), q.errno = "OK",
         NEW m \in Mark, q.marks \subseteq {m}, r.marks \subseteq {m}, NEW s
  PROVE  Match(CALLBACK_DATA(To(q, s), m), CALLBACK_DATA(To(r, s), m))
<1>1. PICK a : a = To(q, s)
  OBVIOUS
<1>2. PICK b : b = To(r, s)
  OBVIOUS
<1>3. Match(a, b)
  BY <1>1, <1>2, ToMatch
<1>4. Record(a) /\ Still(a, q) /\ Record(b) /\ Still(b, r) /\ a.errno = "OK"
  BY <1>1, <1>2, ToIs
<1>5. Typed(a) /\ Typed(b) /\ a.marks \subseteq {m} /\ b.marks \subseteq {m}
  BY <1>4, StillTyped DEF Still
<1>6. QED
  BY <1>1, <1>2, <1>3, <1>4, <1>5, CallbackMatch

(* A mark is set on the way to the state that goes on with it.              *)
LEMMA MarkIs ==
  ASSUME NEW q, NEW s, Clear(q), NEW m \in Mark
  PROVE  LET x == MARK(To(q, s), m)
         IN /\ Record(x) /\ Begins(x, q, m) /\ x.st = s /\ x.errno = "OK" /\ x.len = q.len
            /\ x.flags = q.flags /\ x.hs = q.hs
            /\ \A r : Clear(r) /\ Agree(q, r) => Agree(x, MARK(To(r, s), m))
BY DEF Clear, To, MARK, Record, Fields, Begins, Agree

LEMMA BeginsGoes ==
  ASSUME NEW q, Clear(q), NEW m \in Mark \ {"body"}, NEW x, Record(x), Begins(x, q, m),
         x.st \in State \ (PlainState \cup BodyState \cup ChunkState), m \in MarksOf(x.st),
         x.errno = "OK", x.len \in 0 .. LenMax,
         x.st = "s_header_value" => x.hs \notin {"h_connection", "h_transfer_encoding"}
  PROVE  Goes(x, q)
<1>1. MarksOf(x.st) = {m}
  BY DEF MarksOf, State, Mark
<1>2. Typed(x)
  BY BeginsTyped DEF Clear
<1>3. Lengths(x)
  BY DEF Lengths, ChunkState, BodyState
<1>4. Sound(x)
  BY <1>1, <1>3 DEF Sound, Fits, Begins, ChunkState
<1>5. Texts(x, q)
  BY <1>2 DEF Texts, Begins, Typed, Clear
<1>6. QED
  BY <1>2, <1>4, <1>5 DEF Goes, Begins

-------------------------------------------------------------------------------
(* The status line and the request line.                                    *)
LEMMA IdleGoes ==
  ASSUME NEW q, Running(q), Typed(q), "body" \notin q.marks, q.st # "s_chunk_size_start"
  PROVE  Goes(q, q)
<1>1. Sound(q)
  BY DEF Running, Sound
<1>2. \A m \in q.marks : Len(q.text[m]) \in Nat
  BY DEF Typed
<1>3. Texts(q, q)
  BY <1>2 DEF Texts
<1>4. QED
  BY <1>1, <1>3 DEF Goes, Running

LEMMA StatusGoes ==
  ASSUME NEW q, NEW t, Running(q), Typed(q), q.st = "s_res_status"
  PROVE  Goes(s_res_status(q, t), q) /\ s_res_status(q, t).inner = q.inner
<1>1. Record(q) /\ q.errno = "OK" /\ q.len \in 0 .. LenMax /\ q.marks \subseteq {"status"}
  BY DEF Running, Fits, Lengths, MarksOf, UrlState, BodyState
<1>2. "status" \in Mark /\ {"s_res_line_almost_done", "s_header_field_start"} \subseteq PlainState
  BY DEF Mark, PlainState, LetterState, HeaderState
<1>3. CASE t \in {"CR", "LF"}
  BY <1>1, <1>2, <1>3, CloseGoes DEF s_res_status
<1>4. CASE t \notin {"CR", "LF"}
  BY <1>1, <1>4, IdleGoes DEF s_res_status
<1>5. QED
  BY <1>3, <1>4

LEMMA StatusMatch ==
  ASSUME NEW q, NEW r, NEW t, Running(q), Typed(q), Running(r), Typed(r), Match(q, r),
         q.st = "s_res_status"
  PROVE  Match(s_res_status(q, t), s_res_status(r, t))
<1>1. Record(q) /\ q.errno = "OK" /\ q.marks \subseteq {"status"} /\ "status" \in Mark
  BY DEF Running, Fits, MarksOf, UrlState, BodyState, Mark
<1>2. Record(r) /\ r.errno = "OK" /\ r.marks \subseteq {"status"}
  BY DEF Running, Fits, MarksOf, UrlState, BodyState, Match, Agree
<1>3. CASE t \in {"CR", "LF"}
  BY <1>1, <1>2, <1>3, CloseMatch DEF s_res_status
<1>4. CASE t \notin {"CR", "LF"}
  BY <1>4 DEF s_res_status
<1>5. QED
  BY <1>3, <1>4

LEMMA StatusStart ==
  ASSUME NEW q, Clear(q)
  PROVE  LET x == MARK(To(q, "s_res_status"), "status")
         IN /\ Goes(x, q) /\ Running(x) /\ Typed(x) /\ x.st = "s_res_status" /\ x.inner = q.inner
            /\ x.some = q.some /\ x.nread = q.nread /\ x.text = q.text
<1>1. PICK x : x = MARK(To(q, "s_res_status"), "status")
  OBVIOUS
<1>2. "status" \in Mark \ {"body"}
  BY DEF Mark
<1>3. /\ Record(x) /\ Begins(x, q, "status") /\ x.st = "s_res_status" /\ x.errno = "OK"
      /\ x.len = q.len
  BY <1>1, <1>2, MarkIs
<1>4. /\ x.st \in State \ (PlainState \cup BodyState \cup ChunkState)
      /\ "status" \in MarksOf(x.st)
  BY <1>3 DEF State, PlainState, BodyState, ChunkState, MarksOf, UrlState, StartState, VersionState,
              LetterState, LineState, HeaderState, SizeState
<1>5. Goes(x, q)
  BY <1>2, <1>3, <1>4, BeginsGoes DEF Clear
<1>6. Running(x) /\ Typed(x)
  BY <1>3, <1>5 DEF Goes, Sound, Running
<1>7. QED
  BY <1>1, <1>3, <1>5, <1>6 DEF Begins

LEMMA StatusStartGoes ==
  ASSUME NEW q, NEW t, Clear(q)
  PROVE  Goes(s_res_status_start(q, t), q) /\ s_res_status_start(q, t).inner = q.inner
<1>1. PICK x : x = MARK(To(q, "s_res_status"), "status")
  OBVIOUS
<1>2. /\ Goes(x, q) /\ Running(x) /\ Typed(x) /\ x.st = "s_res_status" /\ x.inner = q.inner
      /\ x.some = q.some /\ x.nread = q.nread /\ x.text = q.text
  BY <1>1, StatusStart
<1>3. CASE t \in {"CR", "LF"}
  <2>1. s_res_status_start(q, t) = s_res_status(x, t)
    BY <1>1, <1>3 DEF s_res_status_start
  <2>2. Goes(s_res_status(x, t), x) /\ s_res_status(x, t).inner = x.inner
    BY <1>2, StatusGoes
  <2>3. QED
    BY <1>2, <2>1, <2>2 DEF Goes, Texts
<1>4. CASE t \notin {"CR", "LF"}
  BY <1>1, <1>2, <1>4 DEF s_res_status_start
<1>5. QED
  BY <1>3, <1>4

LEMMA StatusStartMatch ==
  ASSUME NEW q, NEW r, NEW t, Clear(q), Clear(r), Match(q, r)
  PROVE  Match(s_res_status_start(q, t), s_res_status_start(r, t))
<1>1. PICK x : x = MARK(To(q, "s_res_status"), "status")
  OBVIOUS
<1>2. PICK y : y = MARK(To(r, "s_res_status"), "status")
  OBVIOUS
<1>3. Running(x) /\ Typed(x) /\ x.st = "s_res_status" /\ Running(y) /\ Typed(y)
  BY <1>1, <1>2, StatusStart
<1>4. "status" \in Mark
  BY DEF Mark
<1>5. Begins(x, q, "status") /\ Begins(y, r, "status") /\ Agree(x, y)
  BY <1>1, <1>2, <1>4, MarkIs DEF Match
<1>6. Match(x, y)
  BY <1>4, <1>5, BeginsMatch DEF Clear
<1>7. CASE t \in {"CR", "LF"}
  BY <1>1, <1>2, <1>3, <1>6, <1>7, StatusMatch DEF s_res_status_start
<1>8. CASE t \notin {"CR", "LF"}
  BY <1>1, <1>2, <1>6, <1>8 DEF s_res_status_start
<1>9. QED
  BY <1>7, <1>8

LEMMA StatusCodeGoes ==
  ASSUME NEW q, NEW t, Clear(q), q.st = "s_res_status_code"
  PROVE  Goes(s_res_status_code(q, t), q) /\ s_res_status_code(q, t).inner = q.inner
<1>1. Ready(q)
  BY DEF Clear, Ready
<1>2. CASE t \in {"CR", "LF"}
  BY <1>2, NumIs, StatusStartGoes DEF s_res_status_code
<1>3. CASE t \notin {"CR", "LF"}
  <2>1. Plain(s_res_status_code(q, t), q)
    BY <1>1, <1>3 DEF s_res_status_code, Plain, Still, Ready, Record, Fields, To, Fail, PlainState,
                      LineState
  <2>2. QED
    BY <2>1, StillGoes
<1>4. QED
  BY <1>2, <1>3

LEMMA StatusCodeMatch ==
  ASSUME NEW q, NEW r, NEW t, Clear(q), Clear(r), Match(q, r), q.st = "s_res_status_code"
  PROVE  Match(s_res_status_code(q, t), s_res_status_code(r, t))
<1>1. Ready(q) /\ Ready(r) /\ Agree(q, r)
  BY DEF Clear, Ready, Match
<1>2. CASE t \in {"CR", "LF"}
  BY <1>2, NumIs, StatusStartMatch DEF s_res_status_code
<1>3. CASE t \notin {"CR", "LF"}
  <2>1. Still(s_res_status_code(q, t), q)
    BY <1>1, <1>3 DEF s_res_status_code, Still, Ready, Record, Fields, To, Fail
  <2>2. Still(s_res_status_code(r, t), r)
    BY <1>1, <1>3 DEF s_res_status_code, Still, Ready, Record, Fields, To, Fail
  <2>3. Agree(s_res_status_code(q, t), s_res_status_code(r, t))
    BY <1>1, <1>3 DEF s_res_status_code, Agree, Ready, Record, Fields, To, Fail
  <2>4. QED
    BY <2>1, <2>2, <2>3, StillMatch DEF Clear
<1>4. QED
  BY <1>2, <1>3

LEMMA CharIs ==
  ASSUME NEW s, NEW t
  PROVE  parse_url_char(s, t) \in UrlState \cup {"s_dead"}
<1>1. \A x \in UrlRules : x.to \in UrlState
  BY DEF UrlRules, Rule, UrlState
<1>2. parse_url_char(s, t) = Moves(UrlRules, "s_dead", s, t)
  BY DEF parse_url_char
<1>3. PICK r : r = {x \in UrlRules : s \in x.from /\ t \in x.on}
  OBVIOUS
<1>4. CASE r = {}
  BY <1>2, <1>3, <1>4 DEF Moves
<1>5. CASE r # {}
  <2>1. PICK y : y = CHOOSE x \in r : TRUE
    OBVIOUS
  <2>2. y \in UrlRules
    BY <1>3, <1>5, <2>1
  <2>3. Moves(UrlRules, "s_dead", s, t) = y.to
    BY <1>3, <1>5, <2>1 DEF Moves
  <2>4. QED
    BY <1>1, <1>2, <2>2, <2>3
<1>6. QED
  BY <1>4, <1>5

LEMMA UrlIs ==
  /\ \A s \in UrlState : /\ s \in State \ (PlainState \cup BodyState \cup ChunkState)
                         /\ MarksOf(s) = {"url"}
                         /\ s \notin {"s_header_value", "s_chunk_size_start", "s_body_identity_eof"}
  /\ "s_dead" \notin UrlState
BY DEF UrlState, State, PlainState, BodyState, ChunkState, SizeState, StartState, VersionState,
       LetterState, LineState, HeaderState, MarksOf

(* With the URL marked.                                                     *)
UrlOpen(q) ==
  Record(q) /\ Typed(q) /\ q.errno = "OK" /\ q.marks = {"url"} /\ q.len \in 0 .. LenMax

LEMMA UrlGoes ==
  ASSUME NEW q, UrlOpen(q), NEW s, NEW t
  PROVE  Goes(UrlGoesOn(q, s, t), q) /\ UrlGoesOn(q, s, t).inner = q.inner
<1>1. PICK c : c = parse_url_char(s, t)
  OBVIOUS
<1>2. PICK a : a = To(q, c)
  OBVIOUS
<1>3. Record(a) /\ Still(a, q) /\ a.st = c /\ a.errno = "OK" /\ a.len = q.len
  BY <1>2, ToIs DEF UrlOpen
<1>4. a.inner = q.inner /\ a.some = q.some /\ a.nread = q.nread /\ a.marks = {"url"}
      /\ a.text = q.text
  BY <1>3 DEF Still, UrlOpen
<1>5. CASE c = "s_dead"
  <2>1. UrlGoesOn(q, s, t) = Fail(a, "INVALID_URL")
    BY <1>1, <1>2, <1>3, <1>5 DEF UrlGoesOn, Live
  <2>2. Goes(Fail(a, "INVALID_URL"), a) /\ Fail(a, "INVALID_URL").inner = a.inner
    BY <1>3, <1>5, FailGoes, StillTyped DEF UrlOpen
  <2>3. QED
    BY <1>4, <2>1, <2>2 DEF Goes, Texts
<1>6. CASE c # "s_dead"
  <2>1. UrlGoesOn(q, s, t) = a
    BY <1>1, <1>2, <1>3, <1>6 DEF UrlGoesOn, Live
  <2>2. c \in UrlState
    BY <1>1, <1>6, CharIs
  <2>3. Typed(a)
    BY <1>3, StillTyped DEF UrlOpen
  <2>4. Lengths(a)
    BY <1>3, <2>2, UrlIs DEF Lengths, UrlOpen, ChunkState, SizeState, BodyState
  <2>5. Sound(a)
    BY <1>3, <1>4, <2>2, <2>4, UrlIs DEF Sound, Fits
  <2>6. Len(q.text["url"]) \in Nat
    BY DEF UrlOpen, Typed, Mark
  <2>7. Texts(a, q)
    BY <1>4, <2>6 DEF Texts
  <2>8. QED
    BY <1>3, <1>4, <2>1, <2>3, <2>5, <2>7 DEF Goes
<1>7. QED
  BY <1>5, <1>6

LEMMA UrlGoesMatch ==
  ASSUME NEW q, NEW r, UrlOpen(q), UrlOpen(r), Match(q, r), NEW s, NEW t
  PROVE  Match(UrlGoesOn(q, s, t), UrlGoesOn(r, s, t))
<1>1. PICK c : c = parse_url_char(s, t)
  OBVIOUS
<1>2. PICK a : a = To(q, c)
  OBVIOUS
<1>3. PICK b : b = To(r, c)
  OBVIOUS
<1>4. Record(a) /\ a.st = c /\ Record(b) /\ b.st = c
  BY <1>2, <1>3, ToIs DEF UrlOpen
<1>5. Match(a, b)
  BY <1>2, <1>3, ToMatch DEF UrlOpen
<1>6. CASE c = "s_dead"
  BY <1>1, <1>2, <1>3, <1>4, <1>5, <1>6, FailMatch DEF UrlGoesOn, Live, Match
<1>7. CASE c # "s_dead"
  BY <1>1, <1>2, <1>3, <1>4, <1>5, <1>7 DEF UrlGoesOn, Live
<1>8. QED
  BY <1>6, <1>7

(* The mark of the URL, before its first character.                         *)
LEMMA UrlStart ==
  ASSUME NEW q, Clear(q)
  PROVE  /\ UrlOpen(MARK(q, "url")) /\ Begins(MARK(q, "url"), q, "url")
         /\ \A r : Clear(r) /\ Agree(q, r) => Agree(MARK(q, "url"), MARK(r, "url"))
<1>1. PICK x : x = MARK(q, "url")
  OBVIOUS
<1>2. Begins(x, q, "url") /\ Record(x) /\ x.errno = "OK" /\ x.len = q.len
  BY <1>1 DEF Clear, MARK, Begins, Record, Fields
<1>3. "url" \in Mark
  BY DEF Mark
<1>4. Typed(x)
  BY <1>2, <1>3, BeginsTyped DEF Clear
<1>5. \A r : Clear(r) /\ Agree(q, r) => Agree(x, MARK(r, "url"))
  BY <1>1 DEF Clear, MARK, Agree, Record, Fields
<1>6. QED
  BY <1>1, <1>2, <1>4, <1>5 DEF UrlOpen, Clear, Begins

LEMMA SpacesGoes ==
  ASSUME NEW q, NEW t, Clear(q), q.st = "s_req_spaces_before_url"
  PROVE  /\ Goes(s_req_spaces_before_url(q, t), q)
         /\ s_req_spaces_before_url(q, t).inner = q.inner
<1>1. PICK a : a = MARK(q, "url")
  OBVIOUS
<1>2. UrlOpen(a) /\ Begins(a, q, "url")
  BY <1>1, UrlStart
<1>3. a.some = q.some /\ a.nread = q.nread /\ a.text = q.text /\ a.inner = q.inner
  BY <1>2 DEF Begins
<1>4. CASE t = "SP"
  <2>1. q.st \in PlainState
    BY DEF PlainState, LineState
  <2>2. QED
    BY <1>4, <2>1, ClearGoes DEF s_req_spaces_before_url
<1>5. CASE t # "SP"
  <2>1. PICK s : s_req_spaces_before_url(q, t) = UrlGoesOn(a, s, t)
    BY <1>1, <1>5 DEF s_req_spaces_before_url
  <2>2. Goes(UrlGoesOn(a, s, t), a) /\ UrlGoesOn(a, s, t).inner = a.inner
    BY <1>2, UrlGoes
  <2>3. QED
    BY <1>3, <2>1, <2>2 DEF Goes, Texts
<1>6. QED
  BY <1>4, <1>5

LEMMA SpacesMatch ==
  ASSUME NEW q, NEW r, NEW t, Clear(q), Clear(r), Match(q, r), q.st = "s_req_spaces_before_url"
  PROVE  Match(s_req_spaces_before_url(q, t), s_req_spaces_before_url(r, t))
<1>1. PICK a : a = MARK(q, "url")
  OBVIOUS
<1>2. PICK b : b = MARK(r, "url")
  OBVIOUS
<1>3. UrlOpen(a) /\ Begins(a, q, "url") /\ UrlOpen(b) /\ Begins(b, r, "url") /\ Agree(a, b)
  BY <1>1, <1>2, UrlStart DEF Match
<1>4. "url" \in Mark
  BY DEF Mark
<1>5. Match(a, b)
  BY <1>3, <1>4, BeginsMatch DEF Clear
<1>6. CASE t = "SP"
  BY <1>6 DEF s_req_spaces_before_url
<1>7. CASE t # "SP"
  <2>1. PICK s : s = IF q.method = "CONNECT" THEN "s_req_server_start" ELSE q.st
    OBVIOUS
  <2>2. s = IF r.method = "CONNECT" THEN "s_req_server_start" ELSE r.st
    BY <2>1 DEF Match, Agree
  <2>3. /\ s_req_spaces_before_url(q, t) = UrlGoesOn(a, s, t)
        /\ s_req_spaces_before_url(r, t) = UrlGoesOn(b, s, t)
    BY <1>1, <1>2, <1>7, <2>1, <2>2 DEF s_req_spaces_before_url
  <2>4. QED
    BY <1>3, <1>5, <2>3, UrlGoesMatch
<1>8. QED
  BY <1>6, <1>7

(* A request line without a version is one of HTTP/0.9.                     *)
Old(q) == [q EXCEPT !.major = 0, !.minor = 9]

LEMMA OldIs ==
  ASSUME NEW q, Record(q)
  PROVE  /\ Record(Old(q)) /\ Still(Old(q), q) /\ Old(q).errno = q.errno /\ Old(q).len = q.len
         /\ \A r : Record(r) /\ Agree(q, r) => Agree(Old(q), Old(r))
BY DEF Old, Record, Fields, Still, Agree

LEMMA UrlRunning ==
  ASSUME NEW q, Running(q), Typed(q), q.st \in UrlState
  PROVE  UrlOpen(q)
BY UrlIs DEF UrlOpen, Running, Fits, Lengths

Endable(s) == s \notin {"s_req_schema", "s_req_schema_slash", "s_req_schema_slash_slash",
                        "s_req_server_start"}

LEMMA ReqUrlIs ==
  ASSUME NEW q, NEW t
  PROVE  /\ Endable(q.st) /\ t = "SP" =>
              s_req_url(q, t) = CALLBACK_DATA(To(q, "s_req_http_start"), "url")
         /\ Endable(q.st) /\ t = "CR" =>
              s_req_url(q, t) = CALLBACK_DATA(To(Old(q), "s_req_line_almost_done"), "url")
         /\ Endable(q.st) /\ t = "LF" =>
              s_req_url(q, t) = CALLBACK_DATA(To(Old(q), "s_header_field_start"), "url")
         /\ ~Endable(q.st) \/ t \notin {"SP", "CR", "LF"} => s_req_url(q, t) = UrlGoesOn(q, q.st, t)
BY DEF s_req_url, Old, Endable

LEMMA ReqUrlGoes ==
  ASSUME NEW q, NEW t, UrlOpen(q)
  PROVE  Goes(s_req_url(q, t), q) /\ s_req_url(q, t).inner = q.inner
<1>1. Record(q) /\ Typed(q) /\ q.errno = "OK" /\ q.len \in 0 .. LenMax /\ q.marks \subseteq {"url"}
  BY DEF UrlOpen
<1>2. /\ "url" \in Mark
      /\ {"s_req_http_start", "s_req_line_almost_done", "s_header_field_start"} \subseteq PlainState
  BY DEF Mark, PlainState, LineState, HeaderState
<1>3. PICK o : o = Old(q)
  OBVIOUS
<1>4. Record(o) /\ Still(o, q) /\ o.errno = "OK" /\ o.len = q.len
  BY <1>1, <1>3, OldIs
<1>5. Typed(o) /\ o.marks \subseteq {"url"} /\ o.some = q.some /\ o.nread = q.nread
      /\ o.text = q.text /\ o.inner = q.inner
  BY <1>1, <1>4, StillTyped DEF Still
<1>6. CASE Endable(q.st) /\ t = "SP"
  BY <1>1, <1>2, <1>6, ReqUrlIs, CloseGoes
<1>7. CASE Endable(q.st) /\ t \in {"CR", "LF"}
  <2>1. PICK s \in PlainState : s_req_url(q, t) = CALLBACK_DATA(To(o, s), "url")
    BY <1>2, <1>3, <1>7, ReqUrlIs
  <2>2. Goes(s_req_url(q, t), o) /\ s_req_url(q, t).inner = o.inner
    BY <1>1, <1>2, <1>4, <1>5, <2>1, CloseGoes
  <2>3. QED
    BY <1>5, <2>2 DEF Goes, Texts
<1>8. CASE ~Endable(q.st) \/ t \notin {"SP", "CR", "LF"}
  BY <1>8, ReqUrlIs, UrlGoes
<1>9. QED
  BY <1>6, <1>7, <1>8

LEMMA ReqUrlMatch ==
  ASSUME NEW q, NEW r, NEW t, UrlOpen(q), UrlOpen(r), Match(q, r)
  PROVE  Match(s_req_url(q, t), s_req_url(r, t))
<1>1. /\ Record(q) /\ Typed(q) /\ q.errno = "OK" /\ q.marks \subseteq {"url"}
      /\ Record(r) /\ Typed(r) /\ r.errno = "OK" /\ r.marks \subseteq {"url"}
  BY DEF UrlOpen
<1>2. "url" \in Mark /\ q.st = r.st
  BY DEF Mark, Match, Agree
<1>3. CASE Endable(q.st) /\ t = "SP"
  BY <1>1, <1>2, <1>3, ReqUrlIs, CloseMatch
<1>4. CASE Endable(q.st) /\ t \in {"CR", "LF"}
  <2>1. PICK o : o = Old(q)
    OBVIOUS
  <2>2. PICK w : w = Old(r)
    OBVIOUS
  <2>3. /\ Record(o) /\ Still(o, q) /\ o.errno = "OK" /\ Record(w) /\ Still(w, r)
        /\ w.errno = "OK" /\ Agree(o, w)
    BY <1>1, <2>1, <2>2, OldIs DEF Match
  <2>4. Typed(o) /\ Typed(w) /\ o.marks \subseteq {"url"} /\ w.marks \subseteq {"url"}
    BY <1>1, <2>3, StillTyped DEF Still
  <2>5. Match(o, w)
    BY <1>1, <2>3, StillMatch
  <2>6. PICK s : /\ s_req_url(q, t) = CALLBACK_DATA(To(o, s), "url")
                 /\ s_req_url(r, t) = CALLBACK_DATA(To(w, s), "url")
    BY <1>2, <1>4, <2>1, <2>2, ReqUrlIs
  <2>7. QED
    BY <1>2, <2>3, <2>4, <2>5, <2>6, CloseMatch
<1>5. CASE ~Endable(q.st) \/ t \notin {"SP", "CR", "LF"}
  BY <1>2, <1>5, ReqUrlIs, UrlGoesMatch
<1>6. QED
  BY <1>3, <1>4, <1>5

-------------------------------------------------------------------------------
(* The end of a message.                                                    *)
LEMMA StartIs ==
  /\ \A q : start_state(q) \in StartState
  /\ \A q : NEW_MESSAGE(q) \in StartState
  /\ StartState \subseteq PlainState
BY DEF start_state, NEW_MESSAGE, StartState, PlainState

LEMMA KeepIs ==
  ASSUME NEW q, NEW r, Agree(q, r)
  PROVE  /\ http_should_keep_alive(q) = http_should_keep_alive(r)
         /\ NEW_MESSAGE(q) = NEW_MESSAGE(r)
         /\ Buf(q) = Buf(r) => Seen(q) = Seen(r)
<1>1. http_message_needs_eof(q) = http_message_needs_eof(r)
  BY DEF Agree, http_message_needs_eof
<1>2. http_should_keep_alive(q) = http_should_keep_alive(r)
  BY <1>1 DEF Agree, http_should_keep_alive
<1>3. NEW_MESSAGE(q) = NEW_MESSAGE(r)
  BY <1>2 DEF Agree, NEW_MESSAGE
<1>4. Buf(q) = Buf(r) => Seen(q) = Seen(r)
  <2>1. SUFFICES ASSUME Buf(q) = Buf(r) PROVE Seen(q) = Seen(r)
    OBVIOUS
  <2>2. q.allocated = r.allocated /\ q.headers = r.headers /\ q.body = r.body
    BY <2>1 DEF Buf
  <2>3. q.status = r.status
    BY DEF Agree
  <2>4. QED
    BY <1>2, <2>2, <2>3 DEF Seen
<1>5. QED
  BY <1>2, <1>3, <1>4

(* The parser a new one, or the connection closed.                          *)
Restarts(x, q) ==
  /\ Record(x) /\ x.type = q.type /\ x.errno = "OK" /\ x.marks = q.marks /\ x.text = q.text
  /\ x.some = q.some /\ x.inner = q.inner /\ Buf(x) = Buf(q) /\ x.done = q.done
  /\ IF http_should_keep_alive(q) THEN x.nread = 0 /\ x.len = 0 /\ x.st = start_state(q.type)
     ELSE x.nread = q.nread /\ x.len = q.len /\ x.st = q.st

LEMMA RestartIs ==
  ASSUME NEW q, Record(q), q.errno = "OK"
  PROVE  /\ Restarts(KeepOrClose(q), q)
         /\ \A r : Record(r) /\ Agree(q, r) => Agree(KeepOrClose(q), KeepOrClose(r))
<1>1. CASE http_should_keep_alive(q)
  <2>1. KeepOrClose(q) = http_parser_init(q)
    BY <1>1 DEF KeepOrClose
  <2>2. Restarts(http_parser_init(q), q)
    BY <1>1 DEF http_parser_init, Restarts, Record, Fields, Buf
  <2>3. SUFFICES ASSUME NEW r, Record(r), Agree(q, r) PROVE Agree(KeepOrClose(q), KeepOrClose(r))
    BY <2>1, <2>2
  <2>4. KeepOrClose(r) = http_parser_init(r)
    BY <1>1, <2>3, KeepIs DEF KeepOrClose
  <2>5. QED
    BY <2>1, <2>3, <2>4 DEF http_parser_init, Record, Fields, Agree
<1>2. CASE ~http_should_keep_alive(q)
  <2>1. KeepOrClose(q) = [q EXCEPT !.closed = TRUE]
    BY <1>2 DEF KeepOrClose
  <2>2. Restarts([q EXCEPT !.closed = TRUE], q)
    BY <1>2 DEF Restarts, Record, Fields, Buf
  <2>3. SUFFICES ASSUME NEW r, Record(r), Agree(q, r) PROVE Agree(KeepOrClose(q), KeepOrClose(r))
    BY <2>1, <2>2
  <2>4. KeepOrClose(r) = [r EXCEPT !.closed = TRUE]
    BY <1>2, <2>3, KeepIs DEF KeepOrClose
  <2>5. QED
    BY <2>1, <2>3, <2>4 DEF Record, Fields, Agree
<1>3. QED
  BY <1>1, <1>2

(* The script has been told of the message.                                 *)
Told(q) ==
  [q EXCEPT !.done = Append(@, Seen(q)), !.headers = <<>>,
            !.body = IF q.allocated THEN <<>> ELSE @,
            !.cs = IF q.allocated THEN "FIELD" ELSE @]

LEMMA ToldIs ==
  ASSUME NEW q, Clear(q)
  PROVE  LET x == Told(q)
         IN /\ Clear(x) /\ x.type = q.type /\ x.st = q.st /\ x.text = q.text /\ x.some = q.some
            /\ x.inner = q.inner /\ x.nread = q.nread
            /\ \A r : Clear(r) /\ Agree(q, r) /\ Buf(q) = Buf(r) =>
                        Agree(x, Told(r)) /\ Buf(x) = Buf(Told(r))
<1>1. PICK x : x = Told(q)
  OBVIOUS
<1>2. /\ Record(x) /\ x.type = q.type /\ x.st = q.st /\ x.text = q.text /\ x.some = q.some
      /\ x.inner = q.inner /\ x.nread = q.nread /\ x.errno = q.errno /\ x.marks = q.marks
      /\ x.len = q.len /\ x.headers = <<>> /\ x.body = (IF q.allocated THEN <<>> ELSE q.body)
      /\ x.cs = (IF q.allocated THEN "FIELD" ELSE q.cs) /\ x.allocated = q.allocated
  BY <1>1 DEF Told, Clear, Record, Fields
<1>3. q.body \in Seq(Bytes) /\ q.cs \in {"FIELD", "VALUE"} /\ q.allocated \in BOOLEAN
  BY DEF Clear, Typed, Buf, BufOf
<1>4. <<>> \in Seq(Bytes)
  OBVIOUS
<1>5. Buf(x) \in BufOf
  BY <1>2, <1>3, <1>4 DEF Buf, BufOf
<1>6. Typed(x)
  BY <1>2, <1>5 DEF Clear, Typed
<1>7. Clear(x)
  BY <1>2, <1>6 DEF Clear
<1>8. SUFFICES ASSUME NEW r, Clear(r), Agree(q, r), Buf(q) = Buf(r)
               PROVE  Agree(x, Told(r)) /\ Buf(x) = Buf(Told(r))
  BY <1>1, <1>2, <1>7
<1>9. Seen(q) = Seen(r)
  BY <1>8, KeepIs
<1>10. q.cs = r.cs /\ q.allocated = r.allocated /\ q.body = r.body
  BY <1>8 DEF Buf
<1>11. Agree(x, Told(r))
  BY <1>1, <1>8, <1>9 DEF Told, Clear, Record, Fields, Agree
<1>12. Buf(x) = Buf(Told(r))
  BY <1>1, <1>8, <1>10 DEF Told, Clear, Record, Fields, Buf
<1>13. QED
  BY <1>11, <1>12

Completing(q) == Claim(To(q, NEW_MESSAGE(q)), q.errno = "OK")

LEMMA CompletingIs ==
  ASSUME NEW q, Clear(q)
  PROVE  LET x == Completing(q)
         IN /\ Clear(x) /\ x.type = q.type /\ x.st \in StartState /\ x.text = q.text
            /\ x.some = q.some /\ x.inner = q.inner /\ x.nread = q.nread /\ Buf(x) = Buf(q)
            /\ \A r : Clear(r) /\ Agree(q, r) => Agree(x, Completing(r))
<1>1. PICK x : x = Completing(q)
  OBVIOUS
<1>2. /\ Record(x) /\ Still(x, q) /\ x.st = NEW_MESSAGE(q) /\ x.errno = q.errno /\ x.len = q.len
  BY <1>1 DEF Completing, Claim, To, Clear, Record, Fields, Still
<1>3. Typed(x)
  BY <1>2, StillTyped DEF Clear
<1>4. Clear(x) /\ Buf(x) = Buf(q)
  BY <1>2, <1>3 DEF Clear, Still, Buf
<1>5. SUFFICES ASSUME NEW r, Clear(r), Agree(q, r) PROVE Agree(x, Completing(r))
  BY <1>1, <1>2, <1>4, StartIs DEF Still
<1>6. NEW_MESSAGE(q) = NEW_MESSAGE(r)
  BY <1>5, KeepIs
<1>7. QED
  BY <1>1, <1>5, <1>6 DEF Completing, Claim, To, Clear, Record, Fields, Agree

LEMMA CompleteIs ==
  ASSUME NEW q
  PROVE  /\ q.type = "REQUEST" => \/ message_complete(q) = verify_request(Completing(q))
                                 \/ Completing(q).type # "REQUEST"
         /\ q.type # "REQUEST" => \/ message_complete(q) = KeepOrClose(Told(Completing(q)))
                                 \/ Completing(q).type = "REQUEST"
BY DEF message_complete, on_message_complete, Completing, response_complete, Told

LEMMA CompleteGoes ==
  ASSUME NEW q, Clear(q)
  PROVE  LET x == message_complete(q)
         IN /\ Clear(x) /\ x.st \in StartState /\ x.some = q.some /\ x.inner = q.inner
            /\ x.text = q.text /\ x.nread \in {q.nread, 0}
<1>1. PICK a : a = Completing(q)
  OBVIOUS
<1>2. /\ Clear(a) /\ a.type = q.type /\ a.st \in StartState /\ a.text = q.text
      /\ a.some = q.some /\ a.inner = q.inner /\ a.nread = q.nread
  BY <1>1, CompletingIs
<1>3. PICK x : x = message_complete(q)
  OBVIOUS
<1>4. CASE q.type = "REQUEST"
  <2>1. x = verify_request(a)
    BY <1>1, <1>2, <1>3, <1>4, CompleteIs
  <2>2. /\ Record(x) /\ x.st = a.st /\ x.some = a.some /\ x.inner = a.inner /\ x.text = a.text
        /\ x.nread = a.nread /\ x.errno = a.errno /\ x.marks = a.marks /\ x.len = a.len
        /\ Buf(x) = Buf(a)
    BY <1>2, <2>1 DEF verify_request, Clear, Record, Fields, Buf
  <2>3. Clear(x)
    BY <1>2, <2>2 DEF Clear, Typed
  <2>4. QED
    BY <1>2, <1>3, <2>2, <2>3
<1>5. CASE q.type # "REQUEST"
  <2>1. PICK b : b = Told(a)
    OBVIOUS
  <2>2. x = KeepOrClose(b)
    BY <1>1, <1>2, <1>3, <1>5, <2>1, CompleteIs
  <2>3. /\ Clear(b) /\ b.type = a.type /\ b.st = a.st /\ b.text = a.text /\ b.some = a.some
        /\ b.inner = a.inner /\ b.nread = a.nread
    BY <1>2, <2>1, ToldIs
  <2>4. Restarts(x, b)
    BY <2>2, <2>3, RestartIs DEF Clear
  <2>5. x.st \in StartState /\ x.len \in 0 .. LenMax /\ x.nread \in {b.nread, 0}
    BY <1>2, <2>3, <2>4, StartIs, ParserAssumption DEF Restarts, Clear
  <2>6. x.nread \in Nat
    BY <2>3, <2>5 DEF Clear, Typed
  <2>7. Clear(x)
    BY <2>3, <2>4, <2>5, <2>6 DEF Restarts, Clear, Typed
  <2>8. QED
    BY <1>2, <1>3, <2>3, <2>4, <2>5, <2>7 DEF Restarts
<1>6. QED
  BY <1>4, <1>5

LEMMA CompleteMatch ==
  ASSUME NEW q, NEW r, Clear(q), Clear(r), Match(q, r)
  PROVE  Match(message_complete(q), message_complete(r))
<1>1. PICK a : a = Completing(q)
  OBVIOUS
<1>2. PICK b : b = Completing(r)
  OBVIOUS
<1>3. Buf(q) = Buf(r) /\ r.nread <= q.nread /\ q.nread <= 2 * r.nread /\ q.type = r.type
  BY DEF Match, Clear, Data, Agree
<1>4. /\ Clear(a) /\ a.type = q.type /\ Buf(a) = Buf(q) /\ a.nread = q.nread
      /\ Clear(b) /\ b.type = r.type /\ Buf(b) = Buf(r) /\ b.nread = r.nread /\ Agree(a, b)
  BY <1>1, <1>2, CompletingIs DEF Match
<1>5. PICK x : x = message_complete(q)
  OBVIOUS
<1>6. PICK y : y = message_complete(r)
  OBVIOUS
<1>7. Clear(x) /\ Clear(y)
  BY <1>5, <1>6, CompleteGoes
<1>8. CASE q.type = "REQUEST"
  <2>1. x = verify_request(a) /\ y = verify_request(b)
    BY <1>1, <1>2, <1>3, <1>4, <1>5, <1>6, <1>8, CompleteIs
  <2>2. Buf(x) = Buf(a) /\ Buf(y) = Buf(b) /\ x.nread = a.nread /\ y.nread = b.nread
    BY <1>4, <2>1 DEF verify_request, Clear, Record, Fields, Buf
  <2>3. Agree(x, y)
    BY <1>4, <2>1 DEF verify_request, Clear, Record, Fields, Agree
  <2>4. QED
    BY <1>3, <1>4, <1>5, <1>6, <1>7, <2>2, <2>3 DEF Match, Clear, Data
<1>9. CASE q.type # "REQUEST"
  <2>1. PICK c : c = Told(a)
    OBVIOUS
  <2>2. PICK d : d = Told(b)
    OBVIOUS
  <2>3. x = KeepOrClose(c) /\ y = KeepOrClose(d)
    BY <1>1, <1>2, <1>3, <1>4, <1>5, <1>6, <1>9, <2>1, <2>2, CompleteIs
  <2>4. /\ Clear(c) /\ c.nread = a.nread /\ Clear(d) /\ d.nread = b.nread
        /\ Agree(c, d) /\ Buf(c) = Buf(d)
    BY <1>3, <1>4, <2>1, <2>2, ToldIs
  <2>5. Restarts(x, c) /\ Restarts(y, d) /\ Agree(x, y)
    BY <2>3, <2>4, RestartIs DEF Clear
  <2>6. http_should_keep_alive(c) = http_should_keep_alive(d)
    BY <2>4, KeepIs
  <2>7. \/ x.nread = 0 /\ y.nread = 0
        \/ x.nread = q.nread /\ y.nread = r.nread
    <3>1. CASE http_should_keep_alive(c)
      <4>1. x.nread = 0
        BY <2>5, <3>1 DEF Restarts
      <4>2. http_should_keep_alive(d)
        BY <2>6, <3>1
      <4>3. y.nread = 0
        BY <2>5, <4>2 DEF Restarts
      <4>4. QED
        BY <4>1, <4>3
    <3>2. CASE ~http_should_keep_alive(c)
      <4>1. x.nread = c.nread
        BY <2>5, <3>2 DEF Restarts
      <4>2. y.nread = d.nread
        BY <2>5, <2>6, <3>2 DEF Restarts
      <4>3. QED
        BY <1>4, <2>4, <4>1, <4>2
    <3>3. QED
      BY <3>1, <3>2
  <2>8. Data(x) = Data(y)
    BY <1>7, <2>4, <2>5 DEF Restarts, Clear, Data
  <2>9. y.nread <= x.nread /\ x.nread <= 2 * y.nread
    BY <1>3, <2>7
  <2>10. QED
    BY <1>5, <1>6, <2>5, <2>8, <2>9 DEF Match
<1>10. QED
  BY <1>8, <1>9

LEMMA SetExit ==
  ASSUME NEW q, NEW b, Clear(q)
  PROVE  LET x == [q EXCEPT !.exit = b]
         IN /\ Clear(x) /\ x.st = q.st /\ x.some = q.some /\ x.inner = q.inner /\ x.text = q.text
            /\ x.nread = q.nread
            /\ \A r : Clear(r) /\ Match(q, r) => Match(x, [r EXCEPT !.exit = b])
<1>1. PICK x : x = [q EXCEPT !.exit = b]
  OBVIOUS
<1>2. Record(x) /\ Still(x, q) /\ x.st = q.st /\ x.errno = q.errno /\ x.len = q.len
  BY <1>1 DEF Clear, Record, Fields, Still
<1>3. Clear(x)
  BY <1>2, StillTyped DEF Clear, Still
<1>4. SUFFICES ASSUME NEW r, Clear(r), Match(q, r) PROVE Match(x, [r EXCEPT !.exit = b])
  BY <1>1, <1>2, <1>3 DEF Still
<1>5. PICK y : y = [r EXCEPT !.exit = b]
  OBVIOUS
<1>6. Still(y, r) /\ Agree(x, y)
  BY <1>1, <1>4, <1>5 DEF Clear, Record, Fields, Still, Match, Agree
<1>7. QED
  BY <1>2, <1>4, <1>5, <1>6, StillMatch DEF Clear

(* The end of a message seen from the state q is in.                        *)
LEMMA FinishGoes ==
  ASSUME NEW q, Clear(q), NEW b
  PROVE  LET x == [message_complete(q) EXCEPT !.exit = b]
         IN Goes(x, q) /\ x.inner = q.inner
<1>1. PICK a : a = message_complete(q)
  OBVIOUS
<1>2. /\ Clear(a) /\ a.st \in StartState /\ a.some = q.some /\ a.inner = q.inner
      /\ a.text = q.text /\ a.nread \in {q.nread, 0}
  BY <1>1, CompleteGoes
<1>3. PICK x : x = [a EXCEPT !.exit = b]
  OBVIOUS
<1>4. Clear(x) /\ x.st = a.st /\ x.some = a.some /\ x.inner = a.inner /\ x.nread = a.nread
  BY <1>2, <1>3, SetExit
<1>5. Goes(x, q)
  BY <1>2, <1>4, StartIs, ClearGoes
<1>6. QED
  BY <1>1, <1>2, <1>3, <1>4, <1>5

LEMMA MessageDoneIs ==
  ASSUME NEW q
  PROVE  s_message_done(q) = [message_complete(q) EXCEPT !.exit = message_complete(q).upgrade]
BY DEF s_message_done, Leave

LEMMA MessageDoneGoes ==
  ASSUME NEW q, Clear(q)
  PROVE  Goes(s_message_done(q), q) /\ s_message_done(q).inner = q.inner
BY MessageDoneIs, FinishGoes

LEMMA MessageDoneMatch ==
  ASSUME NEW q, NEW r, Clear(q), Clear(r), Match(q, r)
  PROVE  Match(s_message_done(q), s_message_done(r))
<1>1. PICK x : x = message_complete(q)
  OBVIOUS
<1>2. PICK y : y = message_complete(r)
  OBVIOUS
<1>3. Clear(x) /\ Clear(y) /\ Match(x, y)
  BY <1>1, <1>2, CompleteGoes, CompleteMatch
<1>4. x.upgrade = y.upgrade
  BY <1>3 DEF Match, Agree
<1>5. /\ s_message_done(q) = [x EXCEPT !.exit = x.upgrade]
      /\ s_message_done(r) = [y EXCEPT !.exit = x.upgrade]
  BY <1>1, <1>2, <1>4, MessageDoneIs
<1>6. QED
  BY <1>3, <1>5, SetExit

-------------------------------------------------------------------------------
(* The end of the headers.                                                  *)
LEMMA AnewIs ==
  ASSUME NEW q, Clear(q)
  PROVE  LET x == CountAnew(q)
         IN /\ Clear(x) /\ x.st = q.st /\ x.some = q.some /\ x.inner = q.inner /\ x.text = q.text
            /\ x.nread = 0 /\ x.len = q.len /\ x.flags = q.flags
            /\ \A r : Clear(r) /\ Match(q, r) => Match(x, CountAnew(r))
<1>1. PICK x : x = CountAnew(q)
  OBVIOUS
<1>2. /\ Record(x) /\ x.type = q.type /\ x.st = q.st /\ x.some = q.some /\ x.inner = q.inner
      /\ x.text = q.text /\ x.marks = q.marks /\ x.errno = q.errno /\ x.nread = 0
      /\ x.len = q.len /\ x.flags = q.flags /\ Buf(x) = Buf(q)
  BY <1>1 DEF CountAnew, Clear, Record, Fields, Buf
<1>3. Clear(x)
  BY <1>2 DEF Clear, Typed
<1>4. SUFFICES ASSUME NEW r, Clear(r), Match(q, r) PROVE Match(x, CountAnew(r))
  BY <1>1, <1>2, <1>3
<1>5. PICK y : y = CountAnew(r)
  OBVIOUS
<1>6. y.marks = r.marks /\ y.nread = 0 /\ Buf(y) = Buf(r) /\ Agree(x, y)
  BY <1>1, <1>4, <1>5 DEF CountAnew, Clear, Record, Fields, Buf, Match, Agree
<1>7. Data(x) = Data(y)
  BY <1>2, <1>4, <1>6 DEF Clear, Match, Data
<1>8. QED
  BY <1>2, <1>5, <1>6, <1>7 DEF Match

(* States that go on with a body, or with its first chunk.                  *)
LEMMA BodyStart ==
  ASSUME NEW q, Clear(q), q.nread = 0, NEW s,
         \/ s = "s_chunk_size_start" /\ "CHUNKED" \in q.flags
         \/ s = "s_body_identity" /\ q.len \notin {0, LenMax}
         \/ s = "s_body_identity_eof"
  PROVE  Goes(To(q, s), q) /\ To(q, s).inner = q.inner
<1>1. PICK x : x = To(q, s)
  OBVIOUS
<1>2. /\ Clear(x) /\ x.st = s /\ x.len = q.len /\ x.flags = q.flags /\ Still(x, q)
      /\ x.errno = "OK"
  BY <1>1, ToClear, ToIs DEF Clear
<1>3. x.nread = 0 /\ x.some = q.some /\ x.inner = q.inner
  BY <1>2 DEF Still
<1>4. s \in State /\ s \notin SizeState \cup {"s_chunk_data", "s_chunk_data_almost_done"}
  BY DEF State, ChunkState, BodyState, SizeState
<1>5. MarksOf(s) = {} \/ s \in BodyState
  BY DEF MarksOf, UrlState, BodyState
<1>6. Lengths(x)
  BY <1>2, <1>4 DEF Lengths, ChunkState, Clear
<1>7. Sound(x)
  BY <1>2, <1>3, <1>4, <1>5, <1>6 DEF Sound, Fits, Clear
<1>8. Goes(x, q)
  BY <1>2, <1>3, <1>7 DEF Goes, Clear, Texts
<1>9. QED
  BY <1>1, <1>3, <1>8

LEMMA UpgradesIs ==
  ASSUME NEW q, NEW r, Agree(q, r)
  PROVE  Upgrades(q) = Upgrades(r) /\ http_message_needs_eof(q) = http_message_needs_eof(r)
BY DEF Agree, Upgrades, http_message_needs_eof

LEMMA AfterIs ==
  ASSUME NEW q
  PROVE  /\ Upgrades(q) => AfterHeaders(q) = [message_complete(q) EXCEPT !.exit = TRUE]
         /\ ~Upgrades(q) /\ "CHUNKED" \in q.flags => AfterHeaders(q) = To(q, "s_chunk_size_start")
         /\ ~Upgrades(q) /\ "CHUNKED" \notin q.flags /\ q.len \notin {0, LenMax} =>
              AfterHeaders(q) = To(q, "s_body_identity")
         /\ ~Upgrades(q) /\ "CHUNKED" \notin q.flags /\ q.len \in {0, LenMax} =>
              \/ AfterHeaders(q) = message_complete(q)
                 /\ ~(q.len = LenMax /\ http_message_needs_eof(q))
              \/ AfterHeaders(q) = To(q, "s_body_identity_eof")
                 /\ q.len = LenMax /\ http_message_needs_eof(q)
<1>1. Upgrades(q) => AfterHeaders(q) = [message_complete(q) EXCEPT !.exit = TRUE]
  BY DEF AfterHeaders, http_message_needs_eof
<1>2. ~Upgrades(q) /\ "CHUNKED" \in q.flags => AfterHeaders(q) = To(q, "s_chunk_size_start")
  BY DEF AfterHeaders, http_message_needs_eof
<1>3. ~Upgrades(q) /\ "CHUNKED" \notin q.flags /\ q.len \notin {0, LenMax} =>
        AfterHeaders(q) = To(q, "s_body_identity")
  BY DEF AfterHeaders
<1>4. ~Upgrades(q) /\ "CHUNKED" \notin q.flags /\ q.len \in {0, LenMax} =>
        \/ AfterHeaders(q) = message_complete(q)
           /\ ~(q.len = LenMax /\ http_message_needs_eof(q))
        \/ AfterHeaders(q) = To(q, "s_body_identity_eof")
           /\ q.len = LenMax /\ http_message_needs_eof(q)
  BY DEF AfterHeaders
<1>5. QED
  BY <1>1, <1>2, <1>3, <1>4

LEMMA AfterGoes ==
  ASSUME NEW q, Clear(q), q.nread = 0
  PROVE  Goes(AfterHeaders(q), q) /\ AfterHeaders(q).inner = q.inner
<1>1. CASE Upgrades(q)
  BY <1>1, AfterIs, FinishGoes
<1>2. CASE ~Upgrades(q) /\ "CHUNKED" \in q.flags
  BY <1>2, AfterIs, BodyStart
<1>3. CASE ~Upgrades(q) /\ "CHUNKED" \notin q.flags /\ q.len \notin {0, LenMax}
  BY <1>3, AfterIs, BodyStart
<1>4. CASE ~Upgrades(q) /\ "CHUNKED" \notin q.flags /\ q.len \in {0, LenMax}
  <2>1. CASE AfterHeaders(q) = To(q, "s_body_identity_eof")
    BY <2>1, BodyStart
  <2>2. CASE AfterHeaders(q) = message_complete(q)
    <3>1. PICK x : x = message_complete(q)
      OBVIOUS
    <3>2. /\ Clear(x) /\ x.st \in StartState /\ x.some = q.some /\ x.inner = q.inner
          /\ x.nread \in {q.nread, 0}
      BY <3>1, CompleteGoes
    <3>3. Goes(x, q)
      BY <3>2, StartIs, ClearGoes
    <3>4. QED
      BY <2>2, <3>1, <3>2, <3>3
  <2>3. QED
    BY <1>4, <2>1, <2>2, AfterIs
<1>5. QED
  BY <1>1, <1>2, <1>3, <1>4

LEMMA AfterMatch ==
  ASSUME NEW q, NEW r, Clear(q), Clear(r), Match(q, r)
  PROVE  Match(AfterHeaders(q), AfterHeaders(r))
<1>1. /\ Upgrades(q) = Upgrades(r) /\ http_message_needs_eof(q) = http_message_needs_eof(r)
      /\ q.flags = r.flags /\ q.len = r.len
  BY UpgradesIs DEF Match, Agree
<1>2. \A s : Match(To(q, s), To(r, s))
  BY ToMatch DEF Clear
<1>3. Match(message_complete(q), message_complete(r))
  BY CompleteMatch
<1>4. CASE Upgrades(q)
  <2>1. PICK x : x = message_complete(q)
    OBVIOUS
  <2>2. PICK y : y = message_complete(r)
    OBVIOUS
  <2>3. Clear(x) /\ Clear(y) /\ Match(x, y)
    BY <1>3, <2>1, <2>2, CompleteGoes
  <2>4. Match([x EXCEPT !.exit = TRUE], [y EXCEPT !.exit = TRUE])
    BY <2>3, SetExit
  <2>5. AfterHeaders(q) = [x EXCEPT !.exit = TRUE] /\ AfterHeaders(r) = [y EXCEPT !.exit = TRUE]
    BY <1>1, <1>4, <2>1, <2>2, AfterIs
  <2>6. QED
    BY <2>4, <2>5
<1>5. CASE ~Upgrades(q) /\ "CHUNKED" \in q.flags
  BY <1>1, <1>2, <1>5, AfterIs
<1>6. CASE ~Upgrades(q) /\ "CHUNKED" \notin q.flags /\ q.len \notin {0, LenMax}
  BY <1>1, <1>2, <1>6, AfterIs
<1>7. CASE ~Upgrades(q) /\ "CHUNKED" \notin q.flags /\ q.len \in {0, LenMax}
  <2>1. CASE q.len = LenMax /\ http_message_needs_eof(q)
    BY <1>1, <1>2, <1>7, <2>1, AfterIs
  <2>2. CASE ~(q.len = LenMax /\ http_message_needs_eof(q))
    BY <1>1, <1>3, <1>7, <2>2, AfterIs
  <2>3. QED
    BY <2>1, <2>2
<1>8. QED
  BY <1>4, <1>5, <1>6, <1>7

(* Whether the connection is to be another protocol's.                      *)
Upgrading(q) ==
  [q EXCEPT !.upgrade = IF {"UPGRADE", "CONNECTION_UPGRADE"} \subseteq q.flags
                        THEN q.type = "REQUEST" \/ q.status = 101 ELSE q.method = "CONNECT"]

LEMMA UpgradingIs ==
  ASSUME NEW q, Clear(q)
  PROVE  LET x == Upgrading(q)
         IN /\ Clear(x) /\ Still(x, q)
            /\ \A r : Clear(r) /\ Match(q, r) => Match(x, Upgrading(r))
<1>1. PICK x : x = Upgrading(q)
  OBVIOUS
<1>2. Record(x) /\ Still(x, q) /\ x.errno = q.errno /\ x.len = q.len
  BY <1>1 DEF Upgrading, Clear, Record, Fields, Still
<1>3. Clear(x)
  BY <1>2, StillTyped DEF Clear, Still
<1>4. SUFFICES ASSUME NEW r, Clear(r), Match(q, r) PROVE Match(x, Upgrading(r))
  BY <1>1, <1>2, <1>3
<1>5. PICK y : y = Upgrading(r)
  OBVIOUS
<1>6. Still(y, r)
  BY <1>4, <1>5 DEF Upgrading, Clear, Record, Fields, Still
<1>7. Agree(x, y)
  BY <1>1, <1>4, <1>5 DEF Upgrading, Clear, Record, Fields, Match, Agree
<1>8. QED
  BY <1>2, <1>4, <1>5, <1>6, <1>7, StillMatch DEF Clear

LEMMA HeadersDoneIs ==
  ASSUME NEW q, NEW t
  PROVE  /\ t # "LF" => s_headers_almost_done(q, t) = Fail(q, "STRICT")
         /\ t = "LF" /\ "TRAILING" \in q.flags => s_headers_almost_done(q, t) = s_message_done(q)
         /\ t = "LF" /\ "TRAILING" \notin q.flags =>
              s_headers_almost_done(q, t) =
                IF {"CHUNKED", "CONTENTLENGTH"} \subseteq q.flags
                THEN Fail(q, "UNEXPECTED_CONTENT_LENGTH")
                ELSE AfterHeaders(CountAnew(Upgrading(q)))
BY DEF s_headers_almost_done, s_headers_done, Upgrading

LEMMA HeadersDoneGoes ==
  ASSUME NEW q, NEW t, Clear(q), q.st # "s_body_identity_eof"
  PROVE  Goes(s_headers_almost_done(q, t), q) /\ s_headers_almost_done(q, t).inner = q.inner
<1>1. Record(q) /\ Typed(q)
  BY DEF Clear
<1>2. CASE t # "LF" \/ ("TRAILING" \notin q.flags /\ {"CHUNKED", "CONTENTLENGTH"} \subseteq q.flags)
  BY <1>1, <1>2, HeadersDoneIs, FailGoes
<1>3. CASE t = "LF" /\ "TRAILING" \in q.flags
  BY <1>3, HeadersDoneIs, MessageDoneGoes
<1>4. CASE /\ t = "LF" /\ "TRAILING" \notin q.flags
           /\ ~({"CHUNKED", "CONTENTLENGTH"} \subseteq q.flags)
  <2>1. PICK a : a = Upgrading(q)
    OBVIOUS
  <2>2. Clear(a) /\ Still(a, q)
    BY <2>1, UpgradingIs
  <2>3. PICK b : b = CountAnew(a)
    OBVIOUS
  <2>4. Clear(b) /\ b.some = q.some /\ b.inner = q.inner /\ b.text = q.text /\ b.nread = 0
    BY <2>2, <2>3, AnewIs DEF Still
  <2>5. Goes(AfterHeaders(b), b) /\ AfterHeaders(b).inner = b.inner
    BY <2>4, AfterGoes
  <2>6. s_headers_almost_done(q, t) = AfterHeaders(b)
    BY <1>4, <2>1, <2>3, HeadersDoneIs
  <2>7. QED
    BY <2>4, <2>5, <2>6 DEF Goes, Texts
<1>5. QED
  BY <1>2, <1>3, <1>4

LEMMA HeadersDoneMatch ==
  ASSUME NEW q, NEW r, NEW t, Clear(q), Clear(r), Match(q, r)
  PROVE  Match(s_headers_almost_done(q, t), s_headers_almost_done(r, t))
<1>1. Record(q) /\ Record(r) /\ Agree(q, r) /\ q.flags = r.flags
  BY DEF Clear, Match, Agree
<1>2. CASE t # "LF"
  BY <1>1, <1>2, HeadersDoneIs, FailMatch
<1>3. CASE t = "LF" /\ "TRAILING" \in q.flags
  BY <1>1, <1>3, HeadersDoneIs, MessageDoneMatch
<1>4. CASE t = "LF" /\ "TRAILING" \notin q.flags
  <2>1. CASE {"CHUNKED", "CONTENTLENGTH"} \subseteq q.flags
    BY <1>1, <1>4, <2>1, HeadersDoneIs, FailMatch
  <2>2. CASE ~({"CHUNKED", "CONTENTLENGTH"} \subseteq q.flags)
    <3>1. PICK a : a = Upgrading(q)
      OBVIOUS
    <3>2. PICK b : b = Upgrading(r)
      OBVIOUS
    <3>3. Clear(a) /\ Clear(b) /\ Match(a, b)
      BY <3>1, <3>2, UpgradingIs
    <3>4. Clear(CountAnew(a)) /\ Clear(CountAnew(b)) /\ Match(CountAnew(a), CountAnew(b))
      BY <3>3, AnewIs
    <3>5. Match(AfterHeaders(CountAnew(a)), AfterHeaders(CountAnew(b)))
      BY <3>4, AfterMatch
    <3>6. QED
      BY <1>1, <1>4, <2>2, <3>1, <3>2, <3>5, HeadersDoneIs
  <2>3. QED
    BY <2>1, <2>2
<1>5. QED
  BY <1>2, <1>3, <1>4

-------------------------------------------------------------------------------
(* A header's name.                                                         *)
LEMMA MarksIs ==
  /\ MarksOf("s_header_field") = {"header_field"}
  /\ MarksOf("s_header_value") = {"header_value"}
  /\ \A s \in BodyState : MarksOf(s) = {"body"}
BY DEF MarksOf, UrlState, BodyState

NameOf(q, t) ==
  To([MARK(q, "header_field") EXCEPT
        !.hs = IF t \in DOMAIN FieldStart THEN FieldStart[t] ELSE "h_general"],
     "s_header_field")

Name(q, h) == To([MARK(q, "header_field") EXCEPT !.hs = h], "s_header_field")

LEMMA NameRecord ==
  ASSUME NEW q, Clear(q), NEW h
  PROVE  LET x == Name(q, h)
         IN /\ Record(x) /\ Begins(x, q, "header_field") /\ x.st = "s_header_field"
            /\ x.errno = "OK" /\ x.len = q.len
            /\ \A r : Clear(r) /\ Agree(q, r) => Agree(x, Name(r, h))
<1>1. Name(q, h) = [[[q EXCEPT !.marks = @ \cup {"header_field"}] EXCEPT !.hs = h]
                    EXCEPT !.st = "s_header_field"]
  BY DEF Name, To, MARK
<1>2. PICK x : x = Name(q, h)
  OBVIOUS
<1>3. /\ Record(x) /\ Begins(x, q, "header_field") /\ x.st = "s_header_field"
      /\ x.errno = "OK" /\ x.len = q.len
  BY <1>1, <1>2 DEF Clear, Record, Fields, Begins
<1>4. SUFFICES ASSUME NEW r, Clear(r), Agree(q, r) PROVE Agree(x, Name(r, h))
  BY <1>2, <1>3
<1>5. QED
  BY <1>1, <1>2, <1>4 DEF Name, To, MARK, Clear, Record, Fields, Agree

LEMMA NameIs ==
  ASSUME NEW q, NEW t, Clear(q)
  PROVE  LET x == NameOf(q, t)
         IN /\ Goes(x, q) /\ x.inner = q.inner
            /\ \A r : Clear(r) /\ Match(q, r) => Match(x, NameOf(r, t))
<1>1. PICK x : x = NameOf(q, t)
  OBVIOUS
<1>2. PICK h : h = IF t \in DOMAIN FieldStart THEN FieldStart[t] ELSE "h_general"
  OBVIOUS
<1>3. \A r : NameOf(r, t) = Name(r, h)
  BY <1>2 DEF NameOf, Name
<1>4. \A r : Clear(r) => /\ Record(NameOf(r, t)) /\ Begins(NameOf(r, t), r, "header_field")
                         /\ NameOf(r, t).st = "s_header_field" /\ NameOf(r, t).errno = "OK"
                         /\ NameOf(r, t).len = r.len
  BY <1>3, NameRecord
<1>5. "header_field" \in Mark \ {"body"} /\ "header_field" \in MarksOf("s_header_field")
  BY MarksIs DEF Mark
<1>6. "s_header_field" \in State \ (PlainState \cup BodyState \cup ChunkState)
  BY DEF State, PlainState, BodyState, ChunkState, StartState, VersionState, LetterState, LineState,
         HeaderState, SizeState
<1>7. Goes(x, q) /\ x.inner = q.inner
  <2>1. /\ Record(x) /\ Begins(x, q, "header_field") /\ x.st = "s_header_field"
        /\ x.errno = "OK" /\ x.len = q.len
    BY <1>1, <1>4
  <2>2. Goes(x, q)
    BY <1>5, <1>6, <2>1, BeginsGoes DEF Clear
  <2>3. QED
    BY <2>1, <2>2 DEF Begins
<1>8. SUFFICES ASSUME NEW r, Clear(r), Match(q, r) PROVE Match(x, NameOf(r, t))
  BY <1>1, <1>7
<1>9. Agree(x, NameOf(r, t))
  <2>1. NameOf(q, t) = Name(q, h) /\ NameOf(r, t) = Name(r, h)
    BY <1>3
  <2>2. QED
    BY <1>1, <1>8, <2>1, NameRecord DEF Match
<1>10. Begins(x, q, "header_field") /\ Begins(NameOf(r, t), r, "header_field")
  BY <1>1, <1>4, <1>8
<1>11. QED
  BY <1>5, <1>8, <1>9, <1>10, BeginsMatch DEF Clear

LEMMA FieldStartIs ==
  ASSUME NEW q, NEW t
  PROVE  /\ t = "CR" => s_header_field_start(q, t) = To(q, "s_headers_almost_done")
         /\ t = "LF" => s_header_field_start(q, t) =
                          s_headers_almost_done(To(q, "s_headers_almost_done"), t)
         /\ t \notin {"CR", "LF"} /\ ~TOKEN(t) =>
              s_header_field_start(q, t) = Fail(q, "INVALID_HEADER_TOKEN")
         /\ t \notin {"CR", "LF"} /\ TOKEN(t) => s_header_field_start(q, t) = NameOf(q, t)
<1>1. TOKEN(t) => t \notin {"CR", "LF"}
  BY DEF TOKEN, Separator
<1>2. t = "CR" => s_header_field_start(q, t) = To(q, "s_headers_almost_done")
  BY <1>1 DEF s_header_field_start
<1>3. t = "LF" => s_header_field_start(q, t) =
                    s_headers_almost_done(To(q, "s_headers_almost_done"), t)
  BY <1>1 DEF s_header_field_start
<1>4. t \notin {"CR", "LF"} /\ ~TOKEN(t) =>
        s_header_field_start(q, t) = Fail(q, "INVALID_HEADER_TOKEN")
  BY DEF s_header_field_start
<1>5. t \notin {"CR", "LF"} /\ TOKEN(t) => s_header_field_start(q, t) = NameOf(q, t)
  BY DEF s_header_field_start, NameOf
<1>6. QED
  BY <1>2, <1>3, <1>4, <1>5

LEMMA FieldStartGoes ==
  ASSUME NEW q, NEW t, Clear(q), q.st # "s_body_identity_eof"
  PROVE  Goes(s_header_field_start(q, t), q) /\ s_header_field_start(q, t).inner = q.inner
<1>1. "s_headers_almost_done" \in PlainState
  BY DEF PlainState, HeaderState
<1>2. PICK a : a = To(q, "s_headers_almost_done")
  OBVIOUS
<1>3. /\ Goes(a, q) /\ Clear(a) /\ a.inner = q.inner /\ a.nread = q.nread /\ Still(a, q)
      /\ a.st = "s_headers_almost_done"
  BY <1>1, <1>2, ToGoes, ToIs DEF Clear
<1>4. CASE t = "CR"
  BY <1>2, <1>3, <1>4, FieldStartIs
<1>5. CASE t = "LF"
  <2>1. Goes(s_headers_almost_done(a, t), a) /\ s_headers_almost_done(a, t).inner = a.inner
    BY <1>3, HeadersDoneGoes
  <2>2. a.some = q.some /\ a.text = q.text
    BY <1>3 DEF Still
  <2>3. s_header_field_start(q, t) = s_headers_almost_done(a, t)
    BY <1>2, <1>5, FieldStartIs
  <2>4. QED
    BY <1>3, <2>1, <2>2, <2>3 DEF Goes, Texts
<1>6. CASE t \notin {"CR", "LF"} /\ ~TOKEN(t)
  BY <1>6, FieldStartIs, FailGoes DEF Clear
<1>7. CASE t \notin {"CR", "LF"} /\ TOKEN(t)
  BY <1>7, FieldStartIs, NameIs
<1>8. QED
  BY <1>4, <1>5, <1>6, <1>7

LEMMA FieldStartMatch ==
  ASSUME NEW q, NEW r, NEW t, Clear(q), Clear(r), Match(q, r)
  PROVE  Match(s_header_field_start(q, t), s_header_field_start(r, t))
<1>1. PICK a : a = To(q, "s_headers_almost_done")
  OBVIOUS
<1>2. PICK b : b = To(r, "s_headers_almost_done")
  OBVIOUS
<1>3. Clear(a) /\ Clear(b) /\ Match(a, b)
  BY <1>1, <1>2, ToClear, ToMatch DEF Clear
<1>4. CASE t = "CR"
  BY <1>1, <1>2, <1>3, <1>4, FieldStartIs
<1>5. CASE t = "LF"
  BY <1>1, <1>2, <1>3, <1>5, FieldStartIs, HeadersDoneMatch
<1>6. CASE t \notin {"CR", "LF"} /\ ~TOKEN(t)
  BY <1>6, FieldStartIs, FailMatch DEF Clear, Match
<1>7. CASE t \notin {"CR", "LF"} /\ TOKEN(t)
  BY <1>7, FieldStartIs, NameIs
<1>8. QED
  BY <1>4, <1>5, <1>6, <1>7

(* One more piece of a name, or of a value that is gone through piece by    *)
(* piece.                                                                   *)
Ends(s, t) == IF s = "s_header_field" THEN ~TOKEN(t) ELSE t \in {"CR", "LF"}

Stays(x, q, t) ==
  /\ x.nread = q.nread
  /\ x.errno = "OK" /\ x.st = q.st =>
       /\ x.inner \in {"yes", "skip"} /\ ~Ends(q.st, t)
       /\ x.inner = "skip" => q.st = "s_header_value" /\ x.hs = "h_general"

NameOn(q, t) == [q EXCEPT !.hs = Matched(FieldMatch, @, t, "h_general"), !.inner = "yes"]

LEMMA NameOnIs ==
  ASSUME NEW q, NEW t, Running(q), Typed(q), q.st = "s_header_field"
  PROVE  LET x == NameOn(q, t)
         IN /\ Goes(x, q) /\ x.inner = "yes" /\ x.nread = q.nread
            /\ \A r : Record(r) /\ Match(q, r) => Match(x, NameOn(r, t))
<1>1. PICK x : x = NameOn(q, t)
  OBVIOUS
<1>2. /\ Record(x) /\ x.type = q.type /\ x.st = q.st /\ x.errno = q.errno /\ x.nread = q.nread
      /\ x.some = q.some /\ x.marks = q.marks /\ x.text = q.text /\ x.len = q.len
      /\ x.flags = q.flags /\ x.inner = "yes" /\ Buf(x) = Buf(q)
  BY <1>1 DEF NameOn, Running, Record, Fields, Buf
<1>3. Typed(x)
  BY <1>2 DEF Typed
<1>4. Running(x)
  BY <1>2 DEF Running, Fits, Lengths
<1>5. MarksOf("s_header_field") = {"header_field"}
  BY MarksIs
<1>6. q.marks = {"header_field"}
  BY <1>5 DEF Running, Fits, BodyState
<1>7. Texts(x, q)
  <2>1. Len(q.text["header_field"]) \in Nat
    BY DEF Typed, Mark
  <2>2. QED
    BY <1>2, <1>6, <2>1 DEF Texts
<1>8. Goes(x, q)
  BY <1>2, <1>3, <1>4, <1>7 DEF Goes, Sound, Running
<1>9. SUFFICES ASSUME NEW r, Record(r), Match(q, r) PROVE Match(x, NameOn(r, t))
  BY <1>1, <1>2, <1>8
<1>10. PICK y : y = NameOn(r, t)
  OBVIOUS
<1>11. /\ y.type = r.type /\ y.marks = r.marks /\ y.text = r.text /\ Buf(y) = Buf(r)
       /\ y.nread = r.nread
  BY <1>9, <1>10 DEF NameOn, Record, Fields, Buf
<1>12. Data(x) = Data(q) /\ Data(y) = Data(r)
  BY <1>2, <1>11 DEF Data
<1>13. q.hs = r.hs
  BY <1>9 DEF Match, Agree
<1>14. Agree(x, y)
  BY <1>1, <1>9, <1>10, <1>13 DEF NameOn, Running, Record, Fields, Match, Agree
<1>15. QED
  BY <1>2, <1>9, <1>10, <1>11, <1>12, <1>14 DEF Match, Running

LEMMA FieldIs ==
  ASSUME NEW q, NEW t
  PROVE  /\ TOKEN(t) => s_header_field(q, t) = NameOn(q, t)
         /\ t = ":" => s_header_field(q, t) =
                         CALLBACK_DATA(To(q, "s_header_value_discard_ws"), "header_field")
         /\ t # ":" /\ ~TOKEN(t) => s_header_field(q, t) = Fail(q, "INVALID_HEADER_TOKEN")
<1>1. t = ":" => ~TOKEN(t)
  BY DEF TOKEN, Separator
<1>2. QED
  BY <1>1 DEF s_header_field, NameOn

LEMMA FieldGoes ==
  ASSUME NEW q, NEW t, Running(q), Typed(q), q.st = "s_header_field"
  PROVE  Goes(s_header_field(q, t), q) /\ Stays(s_header_field(q, t), q, t)
<1>1. MarksOf("s_header_field") = {"header_field"}
  BY MarksIs
<1>2. Record(q) /\ q.errno = "OK" /\ q.len \in 0 .. LenMax /\ q.marks \subseteq {"header_field"}
  BY <1>1 DEF Running, Fits, Lengths
<1>3. "header_field" \in Mark /\ "s_header_value_discard_ws" \in PlainState
  BY DEF Mark, PlainState, HeaderState
<1>4. CASE TOKEN(t)
  BY <1>4, FieldIs, NameOnIs DEF Stays, Ends
<1>5. CASE t = ":"
  BY <1>2, <1>3, <1>5, FieldIs, CloseGoes DEF Stays
<1>6. CASE t # ":" /\ ~TOKEN(t)
  <2>1. s_header_field(q, t) = Fail(q, "INVALID_HEADER_TOKEN")
    BY <1>6, FieldIs
  <2>2. Goes(Fail(q, "INVALID_HEADER_TOKEN"), q)
    BY <1>2, FailGoes
  <2>3. /\ Fail(q, "INVALID_HEADER_TOKEN").nread = q.nread
        /\ Fail(q, "INVALID_HEADER_TOKEN").errno # "OK"
    BY <1>2 DEF Fail, Record, Fields
  <2>4. QED
    BY <2>1, <2>2, <2>3 DEF Stays
<1>7. QED
  BY <1>4, <1>5, <1>6

LEMMA FieldMatches ==
  ASSUME NEW q, NEW r, NEW t, Running(q), Typed(q), Running(r), Typed(r), Match(q, r),
         q.st = "s_header_field"
  PROVE  Match(s_header_field(q, t), s_header_field(r, t))
<1>1. MarksOf("s_header_field") = {"header_field"}
  BY MarksIs
<1>2. r.st = q.st /\ Record(q) /\ Record(r) /\ q.errno = "OK" /\ Agree(q, r)
  BY DEF Match, Agree, Running
<1>3. q.marks \subseteq {"header_field"} /\ r.marks \subseteq {"header_field"}
  BY <1>1, <1>2 DEF Running, Fits
<1>4. "header_field" \in Mark
  BY DEF Mark
<1>5. CASE TOKEN(t)
  BY <1>2, <1>5, FieldIs, NameOnIs
<1>6. CASE t = ":"
  BY <1>2, <1>3, <1>4, <1>6, FieldIs, CloseMatch
<1>7. CASE t # ":" /\ ~TOKEN(t)
  BY <1>2, <1>7, FieldIs, FailMatch
<1>8. QED
  BY <1>5, <1>6, <1>7

-------------------------------------------------------------------------------
(* A header's value.                                                        *)
LEMMA SettleIs ==
  ASSUME NEW q, Clear(q)
  PROVE  LET x == Settle(q)
         IN /\ Clear(x) /\ Still(x, q) /\ x.st = q.st
            /\ \A r : Clear(r) /\ Match(q, r) => Match(x, Settle(r))
<1>1. \A r : Clear(r) => Record(Settle(r)) /\ Still(Settle(r), r) /\ Settle(r).st = r.st
                         /\ Settle(r).errno = "OK" /\ Settle(r).len = r.len
  BY DEF Settle, Flag, Clear, Record, Fields, Still
<1>2. Clear(Settle(q))
  BY <1>1, StillTyped DEF Clear, Still
<1>3. SUFFICES ASSUME NEW r, Clear(r), Match(q, r) PROVE Match(Settle(q), Settle(r))
  BY <1>1, <1>2
<1>4. q.hs = r.hs
  BY <1>3 DEF Match, Agree
<1>5. Agree(Settle(q), Settle(r))
  BY <1>3, <1>4 DEF Settle, Flag, Clear, Record, Fields, Match, Agree
<1>6. QED
  BY <1>1, <1>3, <1>5, StillMatch DEF Clear

Awkward == {"h_connection", "h_transfer_encoding"}

LEMMA TokenIs ==
  /\ DOMAIN TokenStart = {"keep", "clo", "up"}
  /\ \A t \in DOMAIN TokenStart : TokenStart[t] \notin Awkward
BY DEF TokenStart, Awkward

(* The value is marked, and the first piece of it taken.                    *)
Valued(x, q) ==
  /\ Record(x) /\ Begins(x, q, "header_value") /\ x.st = "s_header_value"
  /\ x.errno = "OK" => x.len \in 0 .. LenMax /\ x.hs \notin Awkward

LEMMA ValuedGoes ==
  ASSUME NEW q, Clear(q), NEW x, Valued(x, q)
  PROVE  Goes(x, q) /\ x.inner = q.inner
<1>1. "header_value" \in Mark \ {"body"} /\ "header_value" \in MarksOf("s_header_value")
  BY MarksIs DEF Mark
<1>2. "s_header_value" \in State \ (PlainState \cup BodyState \cup ChunkState)
  BY DEF State, PlainState, BodyState, ChunkState, StartState, VersionState, LetterState, LineState,
         HeaderState, SizeState
<1>3. CASE x.errno = "OK"
  BY <1>1, <1>2, <1>3, BeginsGoes DEF Valued, Awkward, Begins
<1>4. CASE x.errno # "OK"
  <2>1. Buf(x) \in BufOf
    BY DEF Valued, Begins, Clear, Typed, Buf
  <2>2. QED
    BY <1>4, <2>1 DEF Valued, Begins, Goes, Sound
<1>5. QED
  BY <1>3, <1>4

LEMMA ValuedMatch ==
  ASSUME NEW q, NEW r, Clear(q), Clear(r), Match(q, r), NEW x, NEW y, Valued(x, q), Valued(y, r),
         Agree(x, y)
  PROVE  Match(x, y)
<1>1. "header_value" \in Mark
  BY DEF Mark
<1>2. QED
  BY <1>1, BeginsMatch DEF Valued, Clear

Value0(q) == To(MARK(q, "header_value"), "s_header_value")

LEMMA Value0Is ==
  ASSUME NEW q, Clear(q)
  PROVE  LET x == Value0(q)
         IN /\ Record(x) /\ Begins(x, q, "header_value") /\ x.st = "s_header_value"
            /\ x.errno = "OK" /\ x.len = q.len /\ x.hs = q.hs /\ x.flags = q.flags
            /\ \A r : Clear(r) /\ Agree(q, r) => Agree(x, Value0(r))
BY DEF Value0, To, MARK, Clear, Record, Fields, Begins, Agree

(* The same parser but for what steers it.                                  *)
Steers(x, v) ==
  /\ Record(x) /\ x.type = v.type /\ x.st = v.st /\ x.nread = v.nread /\ x.done = v.done
  /\ x.inner = v.inner /\ x.some = v.some /\ x.marks = v.marks /\ x.text = v.text
  /\ x.cs = v.cs /\ x.allocated = v.allocated /\ x.headers = v.headers /\ x.body = v.body

LEMMA SteersValued ==
  ASSUME NEW q, Clear(q), NEW x, Steers(x, Value0(q)),
         x.errno = "OK" => x.len \in 0 .. LenMax /\ x.hs \notin Awkward
  PROVE  Valued(x, q)
BY Value0Is DEF Steers, Valued, Begins

LEMMA ValueStartIs ==
  ASSUME NEW q, NEW t, Clear(q)
  PROVE  /\ Valued(s_header_value_start(q, t), q)
         /\ \A r : Clear(r) /\ Agree(q, r) =>
              Agree(s_header_value_start(q, t), s_header_value_start(r, t))
<1>1. PICK v : v = Value0(q)
  OBVIOUS
<1>2. Record(v) /\ v.errno = "OK" /\ v.len \in 0 .. LenMax /\ v.hs = q.hs /\ v.flags = q.flags
  BY <1>1, Value0Is DEF Clear
<1>3. PICK x : x = s_header_value_start(q, t)
  OBVIOUS
<1>4. SUFFICES /\ Steers(x, v)
               /\ x.errno = "OK" => x.len \in 0 .. LenMax /\ x.hs \notin Awkward
               /\ \A w : Record(w) /\ Agree(v, w) =>
                    \A r : w = Value0(r) => Agree(x, s_header_value_start(r, t))
  <2>1. Valued(x, q)
    BY <1>1, SteersValued
  <2>2. ASSUME NEW r, Clear(r), Agree(q, r) PROVE Agree(x, s_header_value_start(r, t))
    <3>1. Record(Value0(r)) /\ Agree(v, Value0(r))
      BY <1>1, <2>2, Value0Is
    <3>2. QED
      BY <3>1
  <2>3. QED
    BY <1>3, <2>1, <2>2
<1>5. CASE v.hs = "h_upgrade"
  <2>1. \A r, w : w = Value0(r) /\ w.hs = "h_upgrade" =>
          s_header_value_start(r, t) = [Flag(w, "UPGRADE") EXCEPT !.hs = "h_general"]
    BY DEF s_header_value_start, Value0
  <2>2. x = [Flag(v, "UPGRADE") EXCEPT !.hs = "h_general"]
    BY <1>1, <1>3, <1>5, <2>1
  <2>3. Steers(x, v) /\ x.len = v.len /\ x.hs = "h_general"
    BY <1>2, <2>2 DEF Flag, Steers, Record, Fields
  <2>4. ASSUME NEW w, NEW r, Record(w), Agree(v, w), w = Value0(r)
        PROVE  Agree(x, s_header_value_start(r, t))
    <3>1. w.hs = "h_upgrade"
      BY <1>5, <2>4 DEF Agree
    <3>2. s_header_value_start(r, t) = [Flag(w, "UPGRADE") EXCEPT !.hs = "h_general"]
      BY <2>1, <2>4, <3>1
    <3>3. QED
      BY <1>2, <2>2, <2>4, <3>2 DEF Flag, Record, Fields, Agree
  <2>5. QED
    BY <1>2, <2>3, <2>4 DEF Awkward
<1>6. CASE v.hs = "h_transfer_encoding"
  <2>0. PICK h : h = IF t = "chunk" THEN "h_matching_transfer_encoding_chunked" ELSE "h_general"
    OBVIOUS
  <2>1. \A r, w : w = Value0(r) /\ w.hs = "h_transfer_encoding" =>
          s_header_value_start(r, t) = [w EXCEPT !.hs = h]
    BY <2>0 DEF s_header_value_start, Value0
  <2>2. x = [v EXCEPT !.hs = h]
    BY <1>1, <1>3, <1>6, <2>1
  <2>3. Steers(x, v) /\ x.len = v.len /\ x.hs = h
    BY <1>2, <2>2 DEF Steers, Record, Fields
  <2>4. ASSUME NEW w, NEW r, Record(w), Agree(v, w), w = Value0(r)
        PROVE  Agree(x, s_header_value_start(r, t))
    <3>1. w.hs = "h_transfer_encoding"
      BY <1>6, <2>4 DEF Agree
    <3>2. s_header_value_start(r, t) = [w EXCEPT !.hs = h]
      BY <2>1, <2>4, <3>1
    <3>3. QED
      BY <1>2, <2>2, <2>4, <3>2 DEF Record, Fields, Agree
  <2>5. QED
    BY <1>2, <2>0, <2>3, <2>4 DEF Awkward
<1>7. CASE v.hs = "h_connection"
  <2>0. PICK h : h = IF t \in DOMAIN TokenStart THEN TokenStart[t]
                     ELSE "h_matching_connection_token"
    OBVIOUS
  <2>1. \A r, w : w = Value0(r) /\ w.hs = "h_connection" =>
          s_header_value_start(r, t) = [w EXCEPT !.hs = h]
    BY <2>0 DEF s_header_value_start, Value0
  <2>2. x = [v EXCEPT !.hs = h]
    BY <1>1, <1>3, <1>7, <2>1
  <2>3. Steers(x, v) /\ x.len = v.len /\ x.hs = h
    BY <1>2, <2>2 DEF Steers, Record, Fields
  <2>4. ASSUME NEW w, NEW r, Record(w), Agree(v, w), w = Value0(r)
        PROVE  Agree(x, s_header_value_start(r, t))
    <3>1. w.hs = "h_connection"
      BY <1>7, <2>4 DEF Agree
    <3>2. s_header_value_start(r, t) = [w EXCEPT !.hs = h]
      BY <2>1, <2>4, <3>1
    <3>3. QED
      BY <1>2, <2>2, <2>4, <3>2 DEF Record, Fields, Agree
  <2>5. h \notin Awkward
    BY <2>0, TokenIs DEF Awkward
  <2>6. QED
    BY <1>2, <2>3, <2>4, <2>5
<1>8. CASE v.hs = "h_matching_connection_token_start"
  <2>1. \A r, w : w = Value0(r) /\ w.hs = "h_matching_connection_token_start" =>
          s_header_value_start(r, t) = w
    BY DEF s_header_value_start, Value0
  <2>2. x = v
    BY <1>1, <1>3, <1>8, <2>1
  <2>3. ASSUME NEW w, NEW r, Record(w), Agree(v, w), w = Value0(r)
        PROVE  Agree(x, s_header_value_start(r, t))
    BY <1>8, <2>1, <2>2, <2>3 DEF Agree
  <2>4. QED
    BY <1>2, <1>8, <2>2, <2>3 DEF Awkward, Steers
<1>9. CASE v.hs = "h_content_length"
  <2>1. CASE t \notin Num
    <3>1. \A r, w : w = Value0(r) /\ w.hs = "h_content_length" =>
            s_header_value_start(r, t) = Fail(w, "INVALID_CONTENT_LENGTH")
      BY <2>1 DEF s_header_value_start, Value0
    <3>2. x = Fail(v, "INVALID_CONTENT_LENGTH")
      BY <1>1, <1>3, <1>9, <3>1
    <3>3. Steers(x, v) /\ x.errno # "OK"
      BY <1>2, <3>2 DEF Steers, Record, Fields, Fail
    <3>4. ASSUME NEW w, NEW r, Record(w), Agree(v, w), w = Value0(r)
          PROVE  Agree(x, s_header_value_start(r, t))
      <4>1. s_header_value_start(r, t) = Fail(w, "INVALID_CONTENT_LENGTH")
        BY <1>9, <3>1, <3>4 DEF Agree
      <4>2. QED
        BY <1>2, <3>2, <3>4, <4>1, FailMatch DEF Match
    <3>5. QED
      BY <3>3, <3>4
  <2>2. CASE t \in Num /\ "CONTENTLENGTH" \in v.flags
    <3>1. \A r, w : w = Value0(r) /\ w.hs = "h_content_length" /\ w.flags = v.flags =>
            s_header_value_start(r, t) = Fail(w, "UNEXPECTED_CONTENT_LENGTH")
      BY <2>2 DEF s_header_value_start, Value0
    <3>2. x = Fail(v, "UNEXPECTED_CONTENT_LENGTH")
      BY <1>1, <1>3, <1>9, <3>1
    <3>3. Steers(x, v) /\ x.errno # "OK"
      BY <1>2, <3>2 DEF Steers, Record, Fields, Fail
    <3>4. ASSUME NEW w, NEW r, Record(w), Agree(v, w), w = Value0(r)
          PROVE  Agree(x, s_header_value_start(r, t))
      <4>1. s_header_value_start(r, t) = Fail(w, "UNEXPECTED_CONTENT_LENGTH")
        BY <1>9, <3>1, <3>4 DEF Agree
      <4>2. QED
        BY <1>2, <3>2, <3>4, <4>1, FailMatch DEF Match
    <3>5. QED
      BY <3>3, <3>4
  <2>3. CASE t \in Num /\ "CONTENTLENGTH" \notin v.flags
    <3>1. \A r, w : w = Value0(r) /\ w.hs = "h_content_length" /\ w.flags = v.flags =>
            s_header_value_start(r, t) = [Flag(w, "CONTENTLENGTH") EXCEPT !.len = Digit[t]]
      BY <2>3 DEF s_header_value_start, Value0
    <3>2. x = [Flag(v, "CONTENTLENGTH") EXCEPT !.len = Digit[t]]
      BY <1>1, <1>3, <1>9, <3>1
    <3>3. Steers(x, v) /\ x.len = Digit[t] /\ x.hs = v.hs
      BY <1>2, <3>2 DEF Steers, Record, Fields, Flag
    <3>4. Digit[t] \in 0 .. LenMax
      BY <2>3, NumIs, ParserAssumption
    <3>5. ASSUME NEW w, NEW r, Record(w), Agree(v, w), w = Value0(r)
          PROVE  Agree(x, s_header_value_start(r, t))
      <4>1. s_header_value_start(r, t) = [Flag(w, "CONTENTLENGTH") EXCEPT !.len = Digit[t]]
        BY <1>9, <3>1, <3>5 DEF Agree
      <4>2. QED
        BY <1>2, <3>2, <3>5, <4>1 DEF Flag, Record, Fields, Agree
    <3>6. QED
      BY <1>9, <3>3, <3>4, <3>5 DEF Awkward
  <2>4. QED
    BY <2>1, <2>2, <2>3
<1>10. CASE v.hs \notin {"h_upgrade", "h_transfer_encoding", "h_connection",
                         "h_matching_connection_token_start", "h_content_length"}
  <2>1. \A r, w : w = Value0(r) /\ w.hs = v.hs =>
          s_header_value_start(r, t) = [w EXCEPT !.hs = "h_general"]
    BY <1>10 DEF s_header_value_start, Value0
  <2>2. x = [v EXCEPT !.hs = "h_general"]
    BY <1>1, <1>3, <2>1
  <2>3. Steers(x, v) /\ x.len = v.len /\ x.hs = "h_general"
    BY <1>2, <2>2 DEF Steers, Record, Fields
  <2>4. ASSUME NEW w, NEW r, Record(w), Agree(v, w), w = Value0(r)
        PROVE  Agree(x, s_header_value_start(r, t))
    <3>1. s_header_value_start(r, t) = [w EXCEPT !.hs = "h_general"]
      BY <2>1, <2>4 DEF Agree
    <3>2. QED
      BY <1>2, <2>2, <2>4, <3>1 DEF Record, Fields, Agree
  <2>5. QED
    BY <1>2, <2>3, <2>4 DEF Awkward
<1>11. QED
  BY <1>5, <1>6, <1>7, <1>8, <1>9, <1>10

LEMMA ValueStartGoes ==
  ASSUME NEW q, NEW t, Clear(q)
  PROVE  Goes(s_header_value_start(q, t), q) /\ s_header_value_start(q, t).inner = q.inner
BY ValueStartIs, ValuedGoes

LEMMA ValueStartMatch ==
  ASSUME NEW q, NEW r, NEW t, Clear(q), Clear(r), Match(q, r)
  PROVE  Match(s_header_value_start(q, t), s_header_value_start(r, t))
<1>1. Valued(s_header_value_start(q, t), q) /\ Valued(s_header_value_start(r, t), r)
  BY ValueStartIs
<1>2. Agree(s_header_value_start(q, t), s_header_value_start(r, t))
  BY ValueStartIs DEF Match
<1>3. QED
  BY <1>1, <1>2, ValuedMatch

LEMMA DiscardIs ==
  ASSUME NEW q, NEW t
  PROVE  /\ t \in {"SP", "TAB"} => s_header_value_discard_ws(q, t) = q
         /\ t = "CR" => s_header_value_discard_ws(q, t) =
                          To(q, "s_header_value_discard_ws_almost_done")
         /\ t = "LF" => s_header_value_discard_ws(q, t) = To(q, "s_header_value_discard_lws")
         /\ t \notin {"SP", "TAB", "CR", "LF"} =>
              s_header_value_discard_ws(q, t) = s_header_value_start(q, t)
BY DEF s_header_value_discard_ws

LEMMA DiscardGoes ==
  ASSUME NEW q, NEW t, Clear(q), q.st = "s_header_value_discard_ws"
  PROVE  /\ Goes(s_header_value_discard_ws(q, t), q)
         /\ s_header_value_discard_ws(q, t).inner = q.inner
<1>1. {"s_header_value_discard_ws", "s_header_value_discard_lws",
       "s_header_value_discard_ws_almost_done"} \subseteq PlainState
  BY DEF PlainState, HeaderState, LetterState
<1>2. CASE t \in {"SP", "TAB"}
  BY <1>1, <1>2, DiscardIs, ClearGoes
<1>3. CASE t \in {"CR", "LF"}
  BY <1>1, <1>3, DiscardIs, ToGoes
<1>4. CASE t \notin {"SP", "TAB", "CR", "LF"}
  BY <1>4, DiscardIs, ValueStartGoes
<1>5. QED
  BY <1>2, <1>3, <1>4

LEMMA DiscardMatch ==
  ASSUME NEW q, NEW r, NEW t, Clear(q), Clear(r), Match(q, r)
  PROVE  Match(s_header_value_discard_ws(q, t), s_header_value_discard_ws(r, t))
<1>1. \A s : Match(To(q, s), To(r, s))
  BY ToMatch DEF Clear
<1>2. CASE t \in {"SP", "TAB"}
  BY <1>2, DiscardIs
<1>3. CASE t \in {"CR", "LF"}
  BY <1>1, <1>3, DiscardIs
<1>4. CASE t \notin {"SP", "TAB", "CR", "LF"}
  BY <1>4, DiscardIs, ValueStartMatch
<1>5. QED
  BY <1>2, <1>3, <1>4

(* A line that begins with a blank goes on with the value before it.        *)
LEMMA LwsGoes ==
  ASSUME NEW q, NEW t, Clear(q)
  PROVE  Goes(s_header_value_lws(q, t), q) /\ s_header_value_lws(q, t).inner = q.inner
<1>1. CASE t \in {"SP", "TAB"}
  BY <1>1, ValueStartGoes DEF s_header_value_lws
<1>2. CASE t \notin {"SP", "TAB"}
  <2>1. PICK a : a = Settle(q)
    OBVIOUS
  <2>2. Clear(a) /\ Still(a, q)
    BY <2>1, SettleIs
  <2>3. PICK b : b = To(a, "s_header_field_start")
    OBVIOUS
  <2>4. Clear(b) /\ b.st = "s_header_field_start" /\ Still(b, a)
    BY <2>2, <2>3, ToClear, ToIs DEF Clear
  <2>5. b.some = q.some /\ b.nread = q.nread /\ b.inner = q.inner /\ b.text = q.text
    BY <2>2, <2>4 DEF Still
  <2>6. Goes(s_header_field_start(b, t), b) /\ s_header_field_start(b, t).inner = b.inner
    BY <2>4, FieldStartGoes
  <2>7. s_header_value_lws(q, t) = s_header_field_start(b, t)
    BY <1>2, <2>1, <2>3 DEF s_header_value_lws
  <2>8. QED
    BY <2>5, <2>6, <2>7 DEF Goes, Texts
<1>3. QED
  BY <1>1, <1>2

LEMMA LwsMatch ==
  ASSUME NEW q, NEW r, NEW t, Clear(q), Clear(r), Match(q, r)
  PROVE  Match(s_header_value_lws(q, t), s_header_value_lws(r, t))
<1>1. CASE t \in {"SP", "TAB"}
  BY <1>1, ValueStartMatch DEF s_header_value_lws
<1>2. CASE t \notin {"SP", "TAB"}
  <2>1. PICK a : a = Settle(q)
    OBVIOUS
  <2>2. PICK b : b = Settle(r)
    OBVIOUS
  <2>3. Clear(a) /\ Clear(b) /\ Match(a, b)
    BY <2>1, <2>2, SettleIs
  <2>4. PICK c : c = To(a, "s_header_field_start")
    OBVIOUS
  <2>5. PICK d : d = To(b, "s_header_field_start")
    OBVIOUS
  <2>6. Clear(c) /\ Clear(d) /\ Match(c, d)
    BY <2>3, <2>4, <2>5, ToClear, ToMatch DEF Clear
  <2>7. QED
    BY <1>2, <2>1, <2>2, <2>4, <2>5, <2>6, FieldStartMatch DEF s_header_value_lws
<1>3. QED
  BY <1>1, <1>2

(* An empty value is marked and delivered at once.                          *)
Emptied(q) ==
  CALLBACK_DATA(To(MARK(Settle(q), "header_value"), "s_header_field_start"), "header_value")

LEMMA EmptiedIs ==
  ASSUME NEW q, Clear(q)
  PROVE  LET x == Emptied(q)
         IN /\ Clear(x) /\ x.st = "s_header_field_start" /\ x.some = q.some
            /\ x.nread = q.nread /\ x.inner = q.inner
            /\ \A r : Clear(r) /\ Match(q, r) => Match(x, Emptied(r))
<1>1. "header_value" \in Mark
  BY DEF Mark
<1>2. ASSUME NEW w, Clear(w)
      PROVE  LET m == MARK(Settle(w), "header_value")
             IN /\ Record(m) /\ Typed(m) /\ m.errno = "OK" /\ m.len \in 0 .. LenMax
                /\ m.marks \subseteq {"header_value"} /\ m.some = w.some /\ m.nread = w.nread
                /\ m.inner = w.inner /\ Begins(m, Settle(w), "header_value")
  <2>1. PICK a : a = Settle(w)
    OBVIOUS
  <2>2. Clear(a) /\ Still(a, w)
    BY <1>2, <2>1, SettleIs
  <2>3. PICK m : m = MARK(a, "header_value")
    OBVIOUS
  <2>4. Record(m) /\ Begins(m, a, "header_value") /\ m.errno = "OK" /\ m.len = a.len
    BY <2>2, <2>3 DEF MARK, Clear, Record, Fields, Begins
  <2>5. Typed(m)
    BY <1>1, <2>2, <2>4, BeginsTyped DEF Clear
  <2>6. QED
    BY <2>1, <2>2, <2>3, <2>4, <2>5 DEF Clear, Begins, Still
<1>3. PICK m : m = MARK(Settle(q), "header_value")
  OBVIOUS
<1>4. /\ Record(m) /\ Typed(m) /\ m.errno = "OK" /\ m.len \in 0 .. LenMax
      /\ m.marks \subseteq {"header_value"} /\ m.some = q.some /\ m.nread = q.nread
      /\ m.inner = q.inner /\ Begins(m, Settle(q), "header_value")
  BY <1>2, <1>3
<1>5. PICK x : x = Emptied(q)
  OBVIOUS
<1>6. x = CALLBACK_DATA(To(m, "s_header_field_start"), "header_value")
  BY <1>3, <1>5 DEF Emptied
<1>7. /\ Clear(x) /\ x.st = "s_header_field_start" /\ x.some = q.some
      /\ x.nread = q.nread /\ x.inner = q.inner
  BY <1>1, <1>4, <1>6, CloseGoes
<1>8. SUFFICES ASSUME NEW r, Clear(r), Match(q, r) PROVE Match(x, Emptied(r))
  BY <1>5, <1>7
<1>9. PICK n : n = MARK(Settle(r), "header_value")
  OBVIOUS
<1>10. /\ Record(n) /\ Typed(n) /\ n.marks \subseteq {"header_value"}
       /\ Begins(n, Settle(r), "header_value")
  BY <1>2, <1>8, <1>9
<1>11. PICK a : a = Settle(q)
  OBVIOUS
<1>12. PICK b : b = Settle(r)
  OBVIOUS
<1>13. Clear(a) /\ Clear(b) /\ Match(a, b)
  BY <1>8, <1>11, <1>12, SettleIs
<1>14. Agree(m, n)
  BY <1>3, <1>9, <1>11, <1>12, <1>13 DEF MARK, Clear, Record, Fields, Match, Agree
<1>15. Match(m, n)
  BY <1>1, <1>4, <1>10, <1>11, <1>12, <1>13, <1>14, BeginsMatch DEF Clear
<1>16. Emptied(r) = CALLBACK_DATA(To(n, "s_header_field_start"), "header_value")
  BY <1>9 DEF Emptied
<1>17. QED
  BY <1>1, <1>4, <1>6, <1>10, <1>15, <1>16, CloseMatch

LEMMA DiscardLwsGoes ==
  ASSUME NEW q, NEW t, Clear(q)
  PROVE  /\ Goes(s_header_value_discard_lws(q, t), q)
         /\ s_header_value_discard_lws(q, t).inner = q.inner
<1>1. CASE t \in {"SP", "TAB"}
  <2>1. "s_header_value_discard_ws" \in PlainState
    BY DEF PlainState, HeaderState
  <2>2. QED
    BY <1>1, <2>1, ToGoes DEF s_header_value_discard_lws
<1>2. CASE t \notin {"SP", "TAB"}
  <2>1. PICK b : b = Emptied(q)
    OBVIOUS
  <2>2. /\ Clear(b) /\ b.st = "s_header_field_start" /\ b.some = q.some
        /\ b.nread = q.nread /\ b.inner = q.inner
    BY <2>1, EmptiedIs
  <2>3. b.text = q.text
    <3>1. /\ b.text \in [Mark -> Seq(Bytes)] /\ q.text \in [Mark -> Seq(Bytes)]
          /\ \A m \in Mark : b.text[m] = <<>> /\ q.text[m] = <<>>
      BY <2>2 DEF Clear, Typed
    <3>2. QED
      BY <3>1
  <2>4. Goes(s_header_field_start(b, t), b) /\ s_header_field_start(b, t).inner = b.inner
    BY <2>2, FieldStartGoes
  <2>5. s_header_value_discard_lws(q, t) = s_header_field_start(b, t)
    BY <1>2, <2>1 DEF s_header_value_discard_lws, Emptied
  <2>6. QED
    BY <2>2, <2>3, <2>4, <2>5 DEF Goes, Texts
<1>3. QED
  BY <1>1, <1>2

LEMMA DiscardLwsMatch ==
  ASSUME NEW q, NEW r, NEW t, Clear(q), Clear(r), Match(q, r)
  PROVE  Match(s_header_value_discard_lws(q, t), s_header_value_discard_lws(r, t))
<1>1. CASE t \in {"SP", "TAB"}
  BY <1>1, ToMatch DEF s_header_value_discard_lws, Clear
<1>2. CASE t \notin {"SP", "TAB"}
  <2>1. PICK c : c = Emptied(q)
    OBVIOUS
  <2>2. PICK d : d = Emptied(r)
    OBVIOUS
  <2>3. Clear(c) /\ Clear(d) /\ Match(c, d)
    BY <2>1, <2>2, EmptiedIs
  <2>4. QED
    BY <1>2, <2>1, <2>2, <2>3, FieldStartMatch DEF s_header_value_discard_lws, Emptied
<1>3. QED
  BY <1>1, <1>2

(* Digits keep a length below what they may not reach.                      *)
LEMMA RemainderIs ==
  ASSUME NEW a \in Nat, NEW n \in Nat
  PROVE  a % (n + 1) \in 0 .. n
OBVIOUS

LEMMA MatchedIs ==
  ASSUME NEW table, NEW s, NEW t, NEW o, NEW set, o \in set, \A x \in table : x[3] \in set
  PROVE  Matched(table, s, t, o) \in set
<1>1. PICK r : r = {x \in table : x[1] = s /\ x[2] = t}
  OBVIOUS
<1>2. CASE r = {}
  BY <1>1, <1>2 DEF Matched
<1>3. CASE r # {}
  <2>1. PICK y : y = CHOOSE x \in r : TRUE
    OBVIOUS
  <2>2. y \in r
    BY <1>3, <2>1
  <2>3. Matched(table, s, t, o) = y[3]
    BY <1>1, <1>3, <2>1 DEF Matched
  <2>4. QED
    BY <1>1, <2>2, <2>3
<1>4. QED
  BY <1>2, <1>3

LEMMA ListIs ==
  ASSUME NEW s, NEW t
  PROVE  ListStep(s, t) \notin Awkward \/ (ListStep(s, t) = s /\ s \notin Awkward)
<1>1. PICK set : set = {h \in {"h_matching_connection_token", "h_connection_keep_alive",
                               "h_connection_close", "h_connection_upgrade"} : h \notin Awkward}
  OBVIOUS
<1>2. "h_matching_connection_token" \in set /\ \A x \in ValueMatch : x[3] \in set
  BY <1>1 DEF ValueMatch, Awkward
<1>3. Matched(ValueMatch, s, t, "h_matching_connection_token") \notin Awkward
  BY <1>1, <1>2, MatchedIs
<1>4. CASE s = "h_matching_connection_token_start"
  <2>1. CASE t \in DOMAIN TokenStart
    <3>1. ListStep(s, t) = TokenStart[t]
      <4>1. LOWER(t) \notin {"SP", "TAB"}
        BY <2>1, TokenIs DEF LOWER
      <4>2. QED
        BY <1>4, <2>1, <4>1 DEF ListStep
    <3>2. QED
      BY <2>1, <3>1, TokenIs
  <2>2. CASE t \notin DOMAIN TokenStart
    <3>1. ListStep(s, t) \in {s, "h_matching_connection_token", "h_general"}
      BY <1>4, <2>2 DEF ListStep
    <3>2. QED
      BY <1>4, <3>1 DEF Awkward
  <2>3. QED
    BY <2>1, <2>2
<1>5. CASE s = "h_matching_connection_token"
  BY <1>5 DEF ListStep, Awkward
<1>6. CASE s \in {"h_connection_keep_alive", "h_connection_close", "h_connection_upgrade"}
  BY <1>6 DEF ListStep, Awkward
<1>7. CASE s \notin {"h_matching_connection_token_start", "h_matching_connection_token",
                     "h_connection_keep_alive", "h_connection_close", "h_connection_upgrade"}
  BY <1>3, <1>7 DEF ListStep
<1>8. QED
  BY <1>4, <1>5, <1>6, <1>7

(* One more piece of the value.                                             *)
Inside(x, q) ==
  /\ Record(x) /\ x.type = q.type /\ x.st = q.st /\ x.nread = q.nread /\ x.done = q.done
  /\ x.some = q.some /\ x.marks = q.marks /\ x.text = q.text
  /\ x.cs = q.cs /\ x.allocated = q.allocated /\ x.headers = q.headers /\ x.body = q.body

Piece(x, q) ==
  /\ Inside(x, q) /\ x.inner \in {"yes", "skip"}
  /\ x.inner = "skip" => x.hs = "h_general"
  /\ x.errno = "OK" => x.len \in 0 .. LenMax /\ x.hs \notin Awkward

Inner(q, i) == [q EXCEPT !.inner = i]

LEMMA InnerIs ==
  ASSUME NEW q, Record(q), NEW i
  PROVE  /\ Inside(Inner(q, i), q) /\ Inner(q, i).inner = i /\ Inner(q, i).hs = q.hs
         /\ Inner(q, i).len = q.len /\ Inner(q, i).flags = q.flags /\ Inner(q, i).errno = q.errno
         /\ Agree(Inner(q, i), q)
         /\ \A r : Record(r) /\ Agree(q, r) => Agree(Inner(q, i), Inner(r, i))
BY DEF Inner, Inside, Record, Fields, Agree

(* One more digit of a length.                                              *)
LEMMA LengthIs ==
  ASSUME NEW q, NEW t
  PROVE  /\ t = "SP" => MoreLength(q, t) = q
         /\ t \notin {"SP"} \cup Num \/ (t # "SP" /\ (LenMax - 10) \div 10 < q.len) =>
              MoreLength(q, t) = Fail(q, "INVALID_CONTENT_LENGTH")
         /\ t \in Num /\ ~((LenMax - 10) \div 10 < q.len) =>
              MoreLength(q, t) = [q EXCEPT !.len = (q.len * 10 + Digit[t]) % (LenMax + 1)]
<1>1. t = "SP" => MoreLength(q, t) = q
  BY NumIs DEF MoreLength
<1>2. t \notin {"SP"} \cup Num => MoreLength(q, t) = Fail(q, "INVALID_CONTENT_LENGTH")
  BY DEF MoreLength
<1>3. t \in Num => t # "SP"
  BY NumIs
<1>4. t \in Num => MoreLength(q, t) = IF (LenMax - 10) \div 10 < q.len
                                      THEN Fail(q, "INVALID_CONTENT_LENGTH")
                                      ELSE [q EXCEPT !.len = (q.len * 10 + Digit[t]) % (LenMax + 1)]
  BY <1>3 DEF MoreLength
<1>5. QED
  BY <1>1, <1>2, <1>3, <1>4

SetLen(q, n) == [q EXCEPT !.len = n]

LEMMA SetLenIs ==
  ASSUME NEW q, Record(q), NEW n
  PROVE  /\ Inside(SetLen(q, n), q) /\ SetLen(q, n).inner = q.inner /\ SetLen(q, n).hs = q.hs
         /\ SetLen(q, n).len = n /\ SetLen(q, n).errno = q.errno /\ SetLen(q, n).flags = q.flags
         /\ \A r : Record(r) /\ Agree(q, r) => Agree(SetLen(q, n), SetLen(r, n))
BY DEF SetLen, Inside, Record, Fields, Agree

LEMMA LengthPiece ==
  ASSUME NEW q, NEW t, Record(q), q.inner = "yes", q.len \in 0 .. LenMax, q.hs \notin Awkward
  PROVE  /\ Piece(MoreLength(q, t), q)
         /\ \A r : Record(r) /\ Agree(q, r) => Agree(MoreLength(q, t), MoreLength(r, t))
<1>1. \A r : Agree(q, r) => q.len = r.len
  BY DEF Agree
<1>2. CASE t = "SP"
  BY <1>2, LengthIs DEF Piece, Inside
<1>3. CASE t \notin {"SP"} \cup Num \/ (t # "SP" /\ (LenMax - 10) \div 10 < q.len)
  <2>1. MoreLength(q, t) = Fail(q, "INVALID_CONTENT_LENGTH")
    BY <1>3, LengthIs
  <2>2. Piece(Fail(q, "INVALID_CONTENT_LENGTH"), q)
    BY DEF Piece, Inside, Fail, Record, Fields
  <2>3. ASSUME NEW r, Record(r), Agree(q, r) PROVE Agree(MoreLength(q, t), MoreLength(r, t))
    <3>1. MoreLength(r, t) = Fail(r, "INVALID_CONTENT_LENGTH")
      BY <1>1, <1>3, <2>3, LengthIs
    <3>2. QED
      BY <2>1, <2>3, <3>1, FailMatch DEF Match
  <2>4. QED
    BY <2>1, <2>2, <2>3
<1>4. CASE t \in Num /\ ~((LenMax - 10) \div 10 < q.len)
  <2>1. PICK n : n = (q.len * 10 + Digit[t]) % (LenMax + 1)
    OBVIOUS
  <2>2. n \in 0 .. LenMax
    <3>0. PICK d \in 0 .. 9 : d = Digit[t]
      BY <1>4, NumIs
    <3>1. q.len * 10 + Digit[t] \in Nat
      BY <3>0, ParserAssumption
    <3>2. QED
      BY <2>1, <3>1, RemainderIs, ParserAssumption
  <2>3. MoreLength(q, t) = SetLen(q, n)
    BY <1>4, <2>1, LengthIs DEF SetLen
  <2>4. Piece(SetLen(q, n), q)
    BY <2>2, SetLenIs DEF Piece
  <2>5. ASSUME NEW r, Record(r), Agree(q, r) PROVE Agree(MoreLength(q, t), MoreLength(r, t))
    <3>1. MoreLength(r, t) = SetLen(r, n)
      BY <1>1, <1>4, <2>1, <2>5, LengthIs DEF SetLen
    <3>2. QED
      BY <2>3, <2>5, <3>1, SetLenIs
  <2>6. QED
    BY <2>3, <2>4, <2>5
<1>5. QED
  BY <1>2, <1>3, <1>4

SetHs(q, h) == [q EXCEPT !.hs = h]

LEMMA SetHsIs ==
  ASSUME NEW q, Record(q), NEW h
  PROVE  /\ Inside(SetHs(q, h), q) /\ SetHs(q, h).inner = q.inner /\ SetHs(q, h).hs = h
         /\ SetHs(q, h).len = q.len /\ SetHs(q, h).errno = q.errno
         /\ \A r : Record(r) /\ Agree(q, r) => Agree(SetHs(q, h), SetHs(r, h))
BY DEF SetHs, Inside, Record, Fields, Agree

LEMMA SettleInside ==
  ASSUME NEW q, Record(q)
  PROVE  /\ Inside(Settle(q), q) /\ Settle(q).inner = q.inner /\ Settle(q).hs = q.hs
         /\ Settle(q).len = q.len /\ Settle(q).errno = q.errno
         /\ \A r : Record(r) /\ Agree(q, r) => Agree(Settle(q), Settle(r))
<1>1. Inside(Settle(q), q) /\ Settle(q).inner = q.inner /\ Settle(q).hs = q.hs
      /\ Settle(q).len = q.len /\ Settle(q).errno = q.errno
  BY DEF Settle, Flag, Inside, Record, Fields
<1>2. SUFFICES ASSUME NEW r, Record(r), Agree(q, r) PROVE Agree(Settle(q), Settle(r))
  BY <1>1
<1>3. q.hs = r.hs
  BY <1>2 DEF Agree
<1>4. QED
  BY <1>2, <1>3 DEF Settle, Flag, Record, Fields, Agree

LEMMA InsideTrans ==
  ASSUME NEW x, NEW y, NEW q, Inside(x, y), Inside(y, q)
  PROVE  Inside(x, q)
BY DEF Inside

LEMMA ValueByteIs ==
  ASSUME NEW q, NEW t, Record(q), q.errno = "OK", q.len \in 0 .. LenMax, q.hs \notin Awkward
  PROVE  /\ Piece(ValueByte(q, t), q)
         /\ \A r : Record(r) /\ Agree(q, r) => Agree(ValueByte(q, t), ValueByte(r, t))
<1>1. PICK a : a = Inner(q, "yes")
  OBVIOUS
<1>2. /\ Record(a) /\ Inside(a, q) /\ a.inner = "yes" /\ a.hs = q.hs /\ a.len = q.len
      /\ a.errno = "OK" /\ a.flags = q.flags
  BY <1>1, InnerIs DEF Inside
<1>3. \A r : Record(r) /\ Agree(q, r) =>
        Record(Inner(r, "yes")) /\ Agree(a, Inner(r, "yes")) /\ Inner(r, "yes").hs = q.hs
  <2>1. SUFFICES ASSUME NEW r, Record(r), Agree(q, r)
                 PROVE  /\ Record(Inner(r, "yes")) /\ Agree(a, Inner(r, "yes"))
                        /\ Inner(r, "yes").hs = q.hs
    OBVIOUS
  <2>2. Record(Inner(r, "yes")) /\ Inner(r, "yes").hs = r.hs
    BY <2>1, InnerIs DEF Inside
  <2>3. Agree(a, Inner(r, "yes"))
    BY <1>1, <2>1, InnerIs
  <2>4. QED
    BY <2>1, <2>2, <2>3 DEF Agree
<1>4. CASE q.hs = "h_general"
  <2>1. \A r : r.hs = "h_general" /\ Inner(r, "yes").hs = r.hs =>
          ValueByte(r, t) = Inner(Inner(r, "yes"), "skip")
    BY DEF ValueByte, Inner
  <2>2. ValueByte(q, t) = Inner(a, "skip")
    BY <1>1, <1>2, <1>4, <2>1
  <2>3. Inside(Inner(a, "skip"), q)
    BY <1>2, InnerIs, InsideTrans
  <2>4. Piece(Inner(a, "skip"), q)
    BY <1>2, <1>4, <2>3, InnerIs DEF Piece
  <2>5. ASSUME NEW r, Record(r), Agree(q, r) PROVE Agree(ValueByte(q, t), ValueByte(r, t))
    <3>1. ValueByte(r, t) = Inner(Inner(r, "yes"), "skip")
      BY <1>3, <1>4, <2>1, <2>5 DEF Agree
    <3>2. QED
      BY <1>2, <1>3, <2>2, <2>5, <3>1, InnerIs
  <2>6. QED
    BY <2>2, <2>4, <2>5
<1>5. CASE q.hs = "h_content_length"
  <2>1. \A r : Inner(r, "yes").hs = "h_content_length" =>
          ValueByte(r, t) = MoreLength(Inner(r, "yes"), t)
    BY DEF ValueByte, Inner
  <2>2. ValueByte(q, t) = MoreLength(a, t)
    BY <1>1, <1>2, <1>5, <2>1
  <2>3. Piece(MoreLength(a, t), a)
    BY <1>2, LengthPiece
  <2>4. Piece(MoreLength(a, t), q)
    BY <1>2, <2>3, InsideTrans DEF Piece
  <2>5. ASSUME NEW r, Record(r), Agree(q, r) PROVE Agree(ValueByte(q, t), ValueByte(r, t))
    <3>1. ValueByte(r, t) = MoreLength(Inner(r, "yes"), t)
      BY <1>3, <1>5, <2>1, <2>5
    <3>2. QED
      BY <1>2, <1>3, <2>2, <2>5, <3>1, LengthPiece
  <2>6. QED
    BY <2>2, <2>4, <2>5
<1>6. CASE q.hs \in {"h_matching_transfer_encoding_chunked", "h_transfer_encoding_chunked"}
  <2>1. PICK h \in {"h_transfer_encoding_chunked", "h_general"} :
          \A r : Inner(r, "yes").hs = q.hs => ValueByte(r, t) = SetHs(Inner(r, "yes"), h)
    <3>1. CASE q.hs = "h_matching_transfer_encoding_chunked"
      <4>1. PICK h : h = IF t = "ed" THEN "h_transfer_encoding_chunked" ELSE "h_general"
        OBVIOUS
      <4>2. \A r : Inner(r, "yes").hs = q.hs => ValueByte(r, t) = SetHs(Inner(r, "yes"), h)
        BY <3>1, <4>1 DEF ValueByte, Inner, SetHs
      <4>3. QED
        BY <4>1, <4>2
    <3>2. CASE q.hs = "h_transfer_encoding_chunked"
      <4>1. PICK h : h = IF t = "SP" THEN "h_transfer_encoding_chunked" ELSE "h_general"
        OBVIOUS
      <4>2. \A r : Inner(r, "yes").hs = q.hs => ValueByte(r, t) = SetHs(Inner(r, "yes"), h)
        BY <3>2, <4>1 DEF ValueByte, Inner, SetHs
      <4>3. QED
        BY <4>1, <4>2
    <3>3. QED
      BY <1>6, <3>1, <3>2
  <2>2. ValueByte(q, t) = SetHs(a, h)
    BY <1>1, <1>2, <2>1
  <2>3. Inside(SetHs(a, h), q)
    BY <1>2, SetHsIs, InsideTrans
  <2>4. Piece(SetHs(a, h), q)
    BY <1>2, <2>3, SetHsIs DEF Piece, Awkward
  <2>5. ASSUME NEW r, Record(r), Agree(q, r) PROVE Agree(ValueByte(q, t), ValueByte(r, t))
    <3>1. ValueByte(r, t) = SetHs(Inner(r, "yes"), h)
      BY <1>3, <2>1, <2>5
    <3>2. QED
      BY <1>2, <1>3, <2>2, <2>5, <3>1, SetHsIs
  <2>6. QED
    BY <2>2, <2>4, <2>5
<1>7. CASE q.hs \notin {"h_general", "h_content_length", "h_matching_transfer_encoding_chunked",
                        "h_transfer_encoding_chunked"}
  <2>1. PICK h : h = ListStep(q.hs, t)
    OBVIOUS
  <2>2. h \notin Awkward
    BY <2>1, ListIs
  <2>3. \A r : Inner(r, "yes").hs = q.hs =>
          ValueByte(r, t) = [(IF t = "," THEN Settle(Inner(r, "yes")) ELSE Inner(r, "yes"))
                             EXCEPT !.hs = ListStep(@, t)]
    BY <1>7 DEF ValueByte, Inner, Awkward
  <2>4. ASSUME NEW r, Record(r), Inner(r, "yes").hs = q.hs
        PROVE  ValueByte(r, t) =
                 SetHs(IF t = "," THEN Settle(Inner(r, "yes")) ELSE Inner(r, "yes"), h)
    <3>1. PICK b : b = Inner(r, "yes")
      OBVIOUS
    <3>2. Record(b) /\ b.hs = q.hs
      BY <2>4, <3>1, InnerIs DEF Inside
    <3>3. PICK c : c = IF t = "," THEN Settle(b) ELSE b
      OBVIOUS
    <3>4. Record(c) /\ c.hs = q.hs
      BY <3>2, <3>3, SettleInside DEF Inside
    <3>5. ValueByte(r, t) = [c EXCEPT !.hs = ListStep(@, t)]
      BY <2>3, <2>4, <3>1, <3>3
    <3>6. [c EXCEPT !.hs = ListStep(@, t)] = [c EXCEPT !.hs = h]
      BY <2>1, <3>4
    <3>7. QED
      BY <3>1, <3>3, <3>5, <3>6 DEF SetHs
  <2>5. PICK c : c = IF t = "," THEN Settle(a) ELSE a
    OBVIOUS
  <2>6. Inside(c, a) /\ c.inner = a.inner /\ c.len = a.len /\ c.errno = a.errno
    BY <1>2, <2>5, SettleInside DEF Inside
  <2>7. Record(c) /\ Inside(c, q)
    BY <1>2, <2>6, InsideTrans DEF Inside
  <2>8. ValueByte(q, t) = SetHs(c, h)
    BY <1>1, <1>2, <2>4, <2>5
  <2>9. Inside(SetHs(c, h), q)
    BY <2>7, SetHsIs, InsideTrans
  <2>10. Piece(SetHs(c, h), q)
    BY <1>2, <2>2, <2>6, <2>7, <2>9, SetHsIs DEF Piece
  <2>11. ASSUME NEW r, Record(r), Agree(q, r) PROVE Agree(ValueByte(q, t), ValueByte(r, t))
    <3>1. PICK b : b = Inner(r, "yes")
      OBVIOUS
    <3>2. Record(b) /\ Agree(a, b) /\ b.hs = q.hs
      BY <1>3, <2>11, <3>1
    <3>3. PICK d : d = IF t = "," THEN Settle(b) ELSE b
      OBVIOUS
    <3>4. Record(d) /\ Agree(c, d)
      BY <1>2, <2>5, <3>2, <3>3, SettleInside DEF Inside
    <3>5. ValueByte(r, t) = SetHs(d, h)
      BY <2>4, <2>11, <3>1, <3>2, <3>3
    <3>6. QED
      BY <2>7, <2>8, <3>4, <3>5, SetHsIs
  <2>12. QED
    BY <2>8, <2>10, <2>11
<1>8. QED
  BY <1>4, <1>5, <1>6, <1>7

(* What passes over a value of no interest steers as what looks at it.      *)
LEMMA SkipIs ==
  ASSUME NEW q, NEW t, Record(q), q.hs = "h_general"
  PROVE  Agree(ValueByte(q, t), q)
BY DEF ValueByte, Record, Fields, Agree

LEMMA InsideTyped ==
  ASSUME NEW q, NEW x, Typed(q), Inside(x, q)
  PROVE  Typed(x) /\ Data(x) = Data(q)
BY DEF Inside, Typed, Buf, Data

LEMMA ValueIs ==
  ASSUME NEW q, NEW t
  PROVE  LET r == CALLBACK_DATA(To(q, "s_header_almost_done"), "header_value")
         IN /\ t = "CR" => s_header_value(q, t) = r
            /\ t = "LF" => s_header_value(q, t) = s_header_almost_done(r, t)
            /\ t \notin {"CR", "LF"} /\ q.inner = "skip" => s_header_value(q, t) = q
            /\ t \notin {"CR", "LF"} /\ q.inner # "skip" /\ ~IS_HEADER_CHAR(t) =>
                 s_header_value(q, t) = Fail(q, "INVALID_HEADER_TOKEN")
            /\ t \notin {"CR", "LF"} /\ q.inner # "skip" /\ IS_HEADER_CHAR(t) =>
                 s_header_value(q, t) = ValueByte(q, t)
<1>1. t \in {"CR", "LF"} => IS_HEADER_CHAR(t)
  BY DEF IS_HEADER_CHAR, NUL
<1>2. QED
  BY <1>1 DEF s_header_value

Looks(q) == q.inner = "skip" => q.hs = "h_general"

LEMMA ValueRunning ==
  ASSUME NEW q, Running(q), q.st = "s_header_value"
  PROVE  /\ Record(q) /\ q.errno = "OK" /\ q.len \in 0 .. LenMax /\ q.marks = {"header_value"}
         /\ q.hs \notin Awkward
<1>1. q.marks = MarksOf(q.st)
  BY DEF Running, Fits, BodyState
<1>2. QED
  BY <1>1, MarksIs DEF Running, Fits, Lengths, Awkward

LEMMA ValueGoes ==
  ASSUME NEW q, NEW t, Running(q), Typed(q), q.st = "s_header_value", Looks(q)
  PROVE  Goes(s_header_value(q, t), q) /\ Stays(s_header_value(q, t), q, t)
<1>1. /\ Record(q) /\ q.errno = "OK" /\ q.len \in 0 .. LenMax /\ q.marks = {"header_value"}
      /\ q.hs \notin Awkward
  BY ValueRunning
<1>2. PICK x : x = s_header_value(q, t)
  OBVIOUS
<1>3. PICK c : c = CALLBACK_DATA(To(q, "s_header_almost_done"), "header_value")
  OBVIOUS
<1>4. "header_value" \in Mark /\ "s_header_almost_done" \in PlainState
  BY DEF Mark, PlainState, HeaderState
<1>5. /\ Clear(c) /\ c.st = "s_header_almost_done" /\ c.some = q.some /\ c.nread = q.nread
      /\ Goes(c, q)
  BY <1>1, <1>3, <1>4, CloseGoes
<1>6. CASE t = "CR"
  BY <1>3, <1>5, <1>6, ValueIs DEF Stays
<1>7. CASE t = "LF"
  <2>1. x = s_header_almost_done(c, t)
    BY <1>2, <1>3, <1>7, ValueIs
  <2>2. Plain(x, c)
    BY <1>5, <2>1, HeaderDonePlain DEF Clear, Ready
  <2>3. Goes(x, c) /\ x.nread = c.nread /\ (x.errno = "OK" => Clear(x))
    BY <1>5, <2>2, StillGoes
  <2>4. x.st = "s_header_value_lws"
    BY <1>5, <1>7, <2>1, ToIs DEF s_header_almost_done, Clear
  <2>5. Goes(x, q)
    BY <1>5, <2>3 DEF Goes, Texts, Clear
  <2>6. QED
    BY <1>2, <1>5, <2>3, <2>4, <2>5 DEF Stays
<1>8. CASE t \notin {"CR", "LF"} /\ q.inner = "skip"
  <2>1. x = q
    BY <1>2, <1>8, ValueIs
  <2>2. QED
    BY <1>1, <1>2, <1>8, <2>1, IdleGoes DEF Stays, Ends, Looks
<1>9. CASE t \notin {"CR", "LF"} /\ q.inner # "skip" /\ ~IS_HEADER_CHAR(t)
  <2>1. x = Fail(q, "INVALID_HEADER_TOKEN")
    BY <1>2, <1>9, ValueIs
  <2>2. Goes(Fail(q, "INVALID_HEADER_TOKEN"), q)
    BY <1>1, FailGoes
  <2>3. /\ Fail(q, "INVALID_HEADER_TOKEN").nread = q.nread
        /\ Fail(q, "INVALID_HEADER_TOKEN").errno # "OK"
    BY <1>1 DEF Fail, Record, Fields
  <2>4. QED
    BY <1>2, <2>1, <2>2, <2>3 DEF Stays
<1>10. CASE t \notin {"CR", "LF"} /\ q.inner # "skip" /\ IS_HEADER_CHAR(t)
  <2>1. x = ValueByte(q, t)
    BY <1>2, <1>10, ValueIs
  <2>2. Piece(x, q)
    BY <1>1, <2>1, ValueByteIs
  <2>3. Inside(x, q) /\ Record(x) /\ x.st = q.st /\ x.nread = q.nread /\ x.some = q.some
        /\ x.marks = q.marks /\ x.text = q.text
    BY <2>2 DEF Piece, Inside
  <2>4. Typed(x)
    BY <2>3, InsideTyped
  <2>5. x.errno = "OK" => Fits(x)
    <3>1. SUFFICES ASSUME x.errno = "OK" PROVE Fits(x)
      OBVIOUS
    <3>2. x.len \in 0 .. LenMax /\ x.hs \notin Awkward
      BY <2>2, <3>1 DEF Piece
    <3>3. Lengths(x)
      BY <2>3, <3>2 DEF Lengths, ChunkState, SizeState
    <3>4. x.st \in State /\ x.marks = MarksOf(x.st)
      BY <1>1, <2>3, MarksIs DEF State
    <3>5. QED
      BY <2>3, <3>2, <3>3, <3>4 DEF Fits, Awkward
  <2>6. Sound(x)
    BY <2>3, <2>5 DEF Sound
  <2>7. Texts(x, q)
    <3>1. Len(q.text["header_value"]) \in Nat
      BY <1>4 DEF Typed
    <3>2. QED
      BY <1>1, <2>3, <3>1 DEF Texts
  <2>8. Goes(x, q)
    BY <2>3, <2>4, <2>6, <2>7 DEF Goes, Typed
  <2>9. Stays(x, q, t)
    BY <1>10, <2>2, <2>3 DEF Stays, Ends, Piece
  <2>10. QED
    BY <1>2, <2>8, <2>9
<1>11. QED
  BY <1>6, <1>7, <1>8, <1>9, <1>10

(* Cut or not, as long as no control character is passed over.              *)
LEMMA ValueMatches ==
  ASSUME NEW q, NEW r, NEW t, Running(q), Typed(q), Running(r), Typed(r), Match(q, r),
         q.st = "s_header_value", Looks(q), Looks(r), IS_HEADER_CHAR(t)
  PROVE  Match(s_header_value(q, t), s_header_value(r, t))
<1>0. r.st = "s_header_value" /\ Agree(q, r)
  BY DEF Match, Agree
<1>1. /\ Record(q) /\ q.errno = "OK" /\ q.len \in 0 .. LenMax /\ q.marks = {"header_value"}
      /\ q.hs \notin Awkward
      /\ Record(r) /\ r.errno = "OK" /\ r.len \in 0 .. LenMax /\ r.marks = {"header_value"}
      /\ r.hs \notin Awkward
  BY <1>0, ValueRunning
<1>2. PICK c : c = CALLBACK_DATA(To(q, "s_header_almost_done"), "header_value")
  OBVIOUS
<1>3. PICK d : d = CALLBACK_DATA(To(r, "s_header_almost_done"), "header_value")
  OBVIOUS
<1>4. "header_value" \in Mark
  BY DEF Mark
<1>5. Match(c, d) /\ Clear(c) /\ Clear(d) /\ c.st = "s_header_almost_done"
  BY <1>1, <1>2, <1>3, <1>4, CloseGoes, CloseMatch
<1>6. CASE t = "CR"
  BY <1>2, <1>3, <1>5, <1>6, ValueIs
<1>7. CASE t = "LF"
  <2>1. Match(To(c, "s_header_value_lws"), To(d, "s_header_value_lws"))
    BY <1>5, ToMatch DEF Clear
  <2>2. QED
    BY <1>2, <1>3, <1>7, <2>1, ValueIs DEF s_header_almost_done
<1>8. CASE t \notin {"CR", "LF"}
  <2>1. PICK x : x = s_header_value(q, t)
    OBVIOUS
  <2>2. PICK y : y = s_header_value(r, t)
    OBVIOUS
  <2>3. ASSUME NEW w, NEW z, z = s_header_value(w, t), Record(w), w.errno = "OK",
               w.len \in 0 .. LenMax, w.hs \notin Awkward, Looks(w)
        PROVE  Inside(z, w) /\ Agree(z, ValueByte(w, t))
    <3>1. CASE w.inner = "skip"
      <4>1. z = w
        BY <1>8, <2>3, <3>1, ValueIs
      <4>2. Agree(ValueByte(w, t), w)
        BY <2>3, <3>1, SkipIs DEF Looks
      <4>3. QED
        BY <2>3, <4>1, <4>2 DEF Inside, Agree
    <3>2. CASE w.inner # "skip"
      <4>1. z = ValueByte(w, t)
        BY <1>8, <2>3, <3>2, ValueIs
      <4>2. QED
        BY <2>3, <4>1, ValueByteIs DEF Piece, Agree
    <3>3. QED
      BY <3>1, <3>2
  <2>4. Inside(x, q) /\ Agree(x, ValueByte(q, t))
    BY <1>1, <2>1, <2>3
  <2>5. Inside(y, r) /\ Agree(y, ValueByte(r, t))
    BY <1>1, <2>2, <2>3
  <2>6. Agree(ValueByte(q, t), ValueByte(r, t))
    BY <1>0, <1>1, ValueByteIs
  <2>7. Agree(x, y)
    BY <2>4, <2>5, <2>6 DEF Agree
  <2>8. Data(x) = Data(q) /\ Data(y) = Data(r) /\ x.nread = q.nread /\ y.nread = r.nread
    BY <2>4, <2>5, InsideTyped DEF Inside
  <2>9. QED
    BY <1>1, <2>1, <2>2, <2>7, <2>8 DEF Match
<1>9. QED
  BY <1>6, <1>7, <1>8

-------------------------------------------------------------------------------
(* Bodies.                                                                  *)
Growing(x, q, t) ==
  /\ Record(x) /\ x.type = q.type /\ x.st = q.st /\ x.nread = q.nread /\ x.done = q.done
  /\ x.inner = q.inner /\ x.some = q.some /\ x.errno = q.errno /\ x.flags = q.flags
  /\ x.cs = q.cs /\ x.allocated = q.allocated /\ x.headers = q.headers /\ x.body = q.body
  /\ x.marks = q.marks \cup {"body"}
  /\ x.text = [q.text EXCEPT !["body"] = Append(q.text["body"], t)]

LEMMA AppendIs ==
  ASSUME NEW S, NEW a \in Seq(S), NEW t \in S
  PROVE  /\ Append(a, t) \in Seq(S) /\ <<t>> \in Seq(S)
         /\ Append(a, t) = a \o <<t>> /\ Len(Append(a, t)) > Len(a)
<1>1. Append(a, t) \in Seq(S) /\ <<t>> \in Seq(S) /\ Len(Append(a, t)) > Len(a)
  OBVIOUS
<1>2. Append(a, t) = a \o <<t>>
  BY AppendIsConcat
<1>3. QED
  BY <1>1, <1>2

LEMMA GrowIs ==
  ASSUME NEW q, NEW t \in Bytes, Typed(q), q.marks \subseteq {"body"}, NEW x, Growing(x, q, t)
  PROVE  /\ Typed(x) /\ x.marks = {"body"} /\ Texts(x, q)
         /\ Data(x) = IF q.type = "REQUEST" THEN Data(q) ELSE Put(Data(q), "body", <<t>>)
<1>1. "body" \in Mark /\ x.marks = {"body"}
  BY DEF Mark, Growing
<1>2. q.text \in [Mark -> Seq(Bytes)] /\ q.text["body"] \in Seq(Bytes) /\ Buf(q) \in BufOf
  BY <1>1 DEF Typed
<1>3. PICK a \in Seq(Bytes) : a = q.text["body"]
  BY <1>2
<1>4. Append(a, t) \in Seq(Bytes) /\ Append(a, t) = a \o <<t>> /\ Len(Append(a, t)) > Len(a)
      /\ <<t>> \in Seq(Bytes)
  BY AppendIs
<1>5. x.text["body"] = Append(a, t) /\ x.text \in [Mark -> Seq(Bytes)]
      /\ \A m \in Mark \ {"body"} : x.text[m] = q.text[m]
  BY <1>1, <1>2, <1>3, <1>4 DEF Growing
<1>6. Buf(x) = Buf(q) /\ x.nread = q.nread /\ x.type = q.type
  BY DEF Growing, Buf
<1>7. Typed(x)
  BY <1>1, <1>5, <1>6 DEF Typed
<1>8. Texts(x, q)
  BY <1>1, <1>3, <1>4, <1>5 DEF Texts
<1>9. Data(x) = IF x.type = "REQUEST" THEN Buf(x) ELSE Put(Buf(x), "body", a \o <<t>>)
  <2>1. Data(x) = IF x.type = "REQUEST" THEN Buf(x) ELSE Put(Buf(x), "body", x.text["body"])
    BY <1>1, DataIs
  <2>2. x.text["body"] = a \o <<t>>
    BY <1>4, <1>5
  <2>3. QED
    BY <2>1, <2>2
<1>10. Put(Buf(q), "body", a \o <<t>>) = Put(Put(Buf(q), "body", a), "body", <<t>>)
  BY <1>1, <1>2, <1>4, PutPut
<1>11. CASE q.marks = {}
  <2>1. a = <<>>
    BY <1>1, <1>3, <1>11 DEF Typed
  <2>2. a \o <<t>> = <<t>>
    BY <2>1
  <2>3. Data(q) = Buf(q)
    BY <1>11 DEF Data
  <2>4. QED
    BY <1>1, <1>6, <1>7, <1>8, <1>9, <2>2, <2>3
<1>12. CASE q.marks = {"body"}
  <2>1. Data(q) = IF q.type = "REQUEST" THEN Buf(q) ELSE Put(Buf(q), "body", a)
    BY <1>1, <1>3, <1>12, DataIs
  <2>2. QED
    BY <1>1, <1>6, <1>7, <1>8, <1>9, <1>10, <2>1
<1>13. QED
  BY <1>11, <1>12

LEMMA GrowMatch ==
  ASSUME NEW q, NEW r, NEW t \in Bytes, Typed(q), Typed(r), q.marks \subseteq {"body"},
         r.marks \subseteq {"body"}, Match(q, r), q.errno = "OK",
         NEW x, NEW y, Growing(x, q, t), Growing(y, r, t), Agree(x, y)
  PROVE  Match(x, y)
<1>1. /\ Data(x) = IF q.type = "REQUEST" THEN Data(q) ELSE Put(Data(q), "body", <<t>>)
      /\ Data(y) = IF r.type = "REQUEST" THEN Data(r) ELSE Put(Data(r), "body", <<t>>)
  BY GrowIs
<1>2. q.type = r.type /\ Data(q) = Data(r)
  BY DEF Match, Agree
<1>3. x.nread = q.nread /\ y.nread = r.nread
  BY DEF Growing
<1>4. QED
  BY <1>1, <1>2, <1>3 DEF Match

(* The body marked, before the byte.                                        *)
LEMMA MarkBodyIs ==
  ASSUME NEW q, Record(q), NEW c, c = TRUE
  PROVE  LET x == Claim(MARK(q, "body"), c)
         IN /\ Record(x) /\ x.type = q.type /\ x.st = q.st /\ x.nread = q.nread
            /\ x.done = q.done /\ x.inner = q.inner /\ x.some = q.some /\ x.errno = q.errno
            /\ x.flags = q.flags /\ x.cs = q.cs /\ x.allocated = q.allocated
            /\ x.headers = q.headers /\ x.body = q.body /\ x.marks = q.marks \cup {"body"}
            /\ x.text = q.text /\ x.len = q.len /\ Agree(x, q)
<1>1. PICK m : m = MARK(q, "body")
  OBVIOUS
<1>2. /\ Record(m) /\ m.type = q.type /\ m.st = q.st /\ m.nread = q.nread
      /\ m.done = q.done /\ m.inner = q.inner /\ m.some = q.some /\ m.errno = q.errno
      /\ m.flags = q.flags /\ m.cs = q.cs /\ m.allocated = q.allocated
      /\ m.headers = q.headers /\ m.body = q.body /\ m.marks = q.marks \cup {"body"}
      /\ m.text = q.text /\ m.len = q.len /\ Agree(m, q)
  BY <1>1 DEF MARK, Record, Fields, Agree
<1>3. PICK x : x = Claim(m, c)
  OBVIOUS
<1>4. /\ Record(x) /\ x.type = m.type /\ x.st = m.st /\ x.nread = m.nread
      /\ x.done = m.done /\ x.inner = m.inner /\ x.some = m.some /\ x.errno = m.errno
      /\ x.flags = m.flags /\ x.cs = m.cs /\ x.allocated = m.allocated
      /\ x.headers = m.headers /\ x.body = m.body /\ x.marks = m.marks
      /\ x.text = m.text /\ x.len = m.len /\ Agree(x, m)
  BY <1>2, <1>3 DEF Claim, Record, Fields, Agree
<1>5. Agree(x, q)
  BY <1>2, <1>4 DEF Agree
<1>6. QED
  BY <1>1, <1>2, <1>3, <1>4, <1>5

LEMMA TakeIs ==
  ASSUME NEW q, NEW t, Record(q), q.len \notin {0, LenMax}
  PROVE  /\ Growing(Take(q, t), q, t) /\ Take(q, t).len = q.len - 1
         /\ \A r : Record(r) /\ Agree(q, r) => Agree(Take(q, t), Take(r, t))
<1>1. PICK m : m = Claim(MARK(q, "body"), q.len \notin {0, LenMax})
  OBVIOUS
<1>2. /\ Record(m) /\ m.type = q.type /\ m.st = q.st /\ m.nread = q.nread
      /\ m.done = q.done /\ m.inner = q.inner /\ m.some = q.some /\ m.errno = q.errno
      /\ m.flags = q.flags /\ m.cs = q.cs /\ m.allocated = q.allocated
      /\ m.headers = q.headers /\ m.body = q.body /\ m.marks = q.marks \cup {"body"}
      /\ m.text = q.text /\ m.len = q.len /\ Agree(m, q)
  BY <1>1, MarkBodyIs
<1>3. PICK x : x = Take(q, t)
  OBVIOUS
<1>4. x = [m EXCEPT !.len = @ - 1, !.text["body"] = Append(@, t)]
  BY <1>1, <1>3 DEF Take
<1>5. Growing(x, q, t) /\ x.len = q.len - 1
  BY <1>2, <1>4 DEF Record, Fields, Growing
<1>6. SUFFICES ASSUME NEW r, Record(r), Agree(q, r) PROVE Agree(x, Take(r, t))
  BY <1>3, <1>5
<1>7. PICK n : n = Claim(MARK(r, "body"), r.len \notin {0, LenMax})
  OBVIOUS
<1>8. r.len \notin {0, LenMax}
  BY <1>6 DEF Agree
<1>9. Record(n) /\ Agree(n, r)
  BY <1>6, <1>7, <1>8, MarkBodyIs
<1>10. PICK y : y = Take(r, t)
  OBVIOUS
<1>11. y = [n EXCEPT !.len = @ - 1, !.text["body"] = Append(@, t)]
  BY <1>7, <1>10 DEF Take
<1>12. Agree(m, n)
  BY <1>2, <1>6, <1>9 DEF Agree
<1>13. Agree(x, y)
  BY <1>2, <1>4, <1>9, <1>11, <1>12 DEF Record, Fields, Agree
<1>14. QED
  BY <1>10, <1>13

LEMMA UntilEofIs ==
  ASSUME NEW q, NEW t, Record(q)
  PROVE  /\ Growing(s_body_identity_eof(q, t), q, t) /\ s_body_identity_eof(q, t).len = q.len
         /\ \A r : Record(r) /\ Agree(q, r) =>
              Agree(s_body_identity_eof(q, t), s_body_identity_eof(r, t))
<1>1. PICK m : m = MARK(q, "body")
  OBVIOUS
<1>2. Record(m) /\ m.text = q.text
  BY <1>1 DEF MARK, Record, Fields
<1>3. PICK x : x = s_body_identity_eof(q, t)
  OBVIOUS
<1>4. x = [m EXCEPT !.text["body"] = Append(@, t)]
  BY <1>1, <1>3 DEF s_body_identity_eof
<1>5. Growing(x, q, t) /\ x.len = q.len
  BY <1>1, <1>4 DEF MARK, Record, Fields, Growing
<1>6. SUFFICES ASSUME NEW r, Record(r), Agree(q, r) PROVE Agree(x, s_body_identity_eof(r, t))
  BY <1>3, <1>5
<1>7. PICK n : n = MARK(r, "body")
  OBVIOUS
<1>8. PICK y : y = s_body_identity_eof(r, t)
  OBVIOUS
<1>9. y = [n EXCEPT !.text["body"] = Append(@, t)]
  BY <1>7, <1>8 DEF s_body_identity_eof
<1>10. Agree(m, n) /\ Record(n)
  BY <1>1, <1>6, <1>7 DEF MARK, Record, Fields, Agree
<1>11. Agree(x, y)
  BY <1>2, <1>4, <1>9, <1>10 DEF Record, Fields, Agree
<1>12. QED
  BY <1>8, <1>11

(* A body state keeps at most its own mark.                                 *)
LEMMA BodySound ==
  ASSUME NEW x, Record(x), x.errno = "OK", x.st \in BodyState, x.marks \subseteq {"body"},
         Lengths(x)
  PROVE  Sound(x) /\ Running(x)
<1>1. x.st \in State /\ x.st \notin {"s_chunk_size_start", "s_header_value"}
  BY DEF State, BodyState
<1>2. Fits(x)
  BY <1>1, MarksIs DEF Fits
<1>3. QED
  BY <1>1, <1>2 DEF Sound, Running

LEMMA BodyRunning ==
  ASSUME NEW q, Running(q), q.st \in BodyState
  PROVE  /\ Record(q) /\ q.errno = "OK" /\ q.marks \subseteq {"body"} /\ Lengths(q)
         /\ q.len \in 0 .. LenMax
BY MarksIs DEF Running, Fits, Lengths

LEMMA TakenGoes ==
  ASSUME NEW q, NEW t \in Bytes, Running(q), Typed(q), q.st \in {"s_body_identity", "s_chunk_data"}
  PROVE  LET x == Take(q, t)
         IN /\ Growing(x, q, t) /\ Typed(x) /\ Texts(x, q) /\ x.marks = {"body"}
            /\ x.len = q.len - 1 /\ x.len \in 0 .. LenMax - 1
            /\ x.len # 0 => Goes(x, q)
<1>1. /\ Record(q) /\ q.errno = "OK" /\ q.marks \subseteq {"body"} /\ Lengths(q)
      /\ q.len \in 0 .. LenMax
  BY BodyRunning DEF BodyState
<1>2. q.len \notin {0, LenMax}
  BY <1>1 DEF Lengths
<1>3. PICK x : x = Take(q, t)
  OBVIOUS
<1>4. Growing(x, q, t) /\ x.len = q.len - 1
  BY <1>1, <1>2, <1>3, TakeIs
<1>5. Typed(x) /\ Texts(x, q) /\ x.marks = {"body"}
  BY <1>1, <1>4, GrowIs
<1>6. x.len \in 0 .. LenMax - 1
  BY <1>1, <1>2, <1>4, ParserAssumption
<1>7. ASSUME x.len # 0 PROVE Goes(x, q)
  <2>1. /\ x.st = q.st /\ x.flags = q.flags /\ Record(x) /\ x.errno = "OK" /\ x.some = q.some
        /\ x.nread = q.nread
    BY <1>1, <1>4 DEF Growing
  <2>2. x.len \in 0 .. LenMax /\ x.len # LenMax
    BY <1>6, ParserAssumption
  <2>3. Lengths(x)
    BY <1>1, <1>7, <2>1, <2>2 DEF Lengths, SizeState
  <2>4. Sound(x)
    BY <1>5, <2>1, <2>3, BodySound DEF BodyState
  <2>5. QED
    BY <1>5, <2>1, <2>4 DEF Goes
<1>8. QED
  BY <1>3, <1>4, <1>5, <1>6, <1>7

LEMMA IdentityGoes ==
  ASSUME NEW q, NEW t \in Bytes, Running(q), Typed(q), q.st = "s_body_identity"
  PROVE  Goes(s_body_identity(q, t), q) /\ s_body_identity(q, t).inner = q.inner
<1>1. PICK a : a = Take(q, t)
  OBVIOUS
<1>2. /\ Growing(a, q, t) /\ Typed(a) /\ a.marks = {"body"} /\ a.len \in 0 .. LenMax - 1
      /\ a.len # 0 => Goes(a, q)
  BY <1>1, TakenGoes
<1>3. a.len > 0 <=> a.len # 0
  BY <1>2
<1>4. CASE a.len # 0
  BY <1>1, <1>2, <1>3, <1>4 DEF s_body_identity, Growing
<1>5. CASE a.len = 0
  <2>1. PICK b : b = CALLBACK_DATA(To(a, "s_message_done"), "body")
    OBVIOUS
  <2>2. Record(a) /\ a.errno = "OK" /\ a.len \in 0 .. LenMax /\ "body" \in Mark
    BY <1>2, <1>5, ParserAssumption DEF Growing, Running, Mark
  <2>3. Clear(b) /\ b.some = a.some /\ b.nread = a.nread /\ b.inner = a.inner
    BY <1>2, <2>1, <2>2, CloseGoes
  <2>4. s_body_identity(q, t) = s_message_done(b)
    BY <1>1, <1>3, <1>5, <2>1 DEF s_body_identity
  <2>5. PICK x : x = s_message_done(b)
    OBVIOUS
  <2>6. PICK m : m = message_complete(b)
    OBVIOUS
  <2>7. /\ Clear(m) /\ m.st \in StartState /\ m.some = b.some /\ m.inner = b.inner
        /\ m.nread \in {b.nread, 0}
    BY <2>3, <2>6, CompleteGoes
  <2>8. Clear(x) /\ x.st = m.st /\ x.some = m.some /\ x.inner = m.inner /\ x.nread = m.nread
    BY <2>5, <2>6, <2>7, MessageDoneIs, SetExit
  <2>9. x.some = q.some /\ x.inner = q.inner /\ x.nread \in {q.nread, 0}
    BY <1>2, <2>3, <2>7, <2>8 DEF Growing
  <2>10. Goes(x, q)
    BY <2>7, <2>8, <2>9, StartIs, ClearGoes
  <2>11. QED
    BY <2>4, <2>5, <2>9, <2>10
<1>6. QED
  BY <1>4, <1>5

LEMMA TakenMatch ==
  ASSUME NEW q, NEW r, NEW t \in Bytes, Running(q), Typed(q), Running(r), Typed(r), Match(q, r),
         q.st \in {"s_body_identity", "s_chunk_data"}
  PROVE  Match(Take(q, t), Take(r, t)) /\ Take(q, t).len = Take(r, t).len
<1>1. r.st = q.st /\ Agree(q, r)
  BY DEF Match, Agree
<1>2. /\ Record(q) /\ q.errno = "OK" /\ q.marks \subseteq {"body"} /\ Lengths(q)
      /\ Record(r) /\ r.marks \subseteq {"body"} /\ Lengths(r)
  BY <1>1, BodyRunning DEF BodyState
<1>3. q.len \notin {0, LenMax} /\ r.len \notin {0, LenMax}
  BY <1>1, <1>2 DEF Lengths
<1>4. Growing(Take(q, t), q, t) /\ Growing(Take(r, t), r, t) /\ Agree(Take(q, t), Take(r, t))
  BY <1>1, <1>2, <1>3, TakeIs
<1>5. QED
  BY <1>2, <1>4, GrowMatch DEF Agree

LEMMA IdentityMatch ==
  ASSUME NEW q, NEW r, NEW t \in Bytes, Running(q), Typed(q), Running(r), Typed(r), Match(q, r),
         q.st = "s_body_identity"
  PROVE  Match(s_body_identity(q, t), s_body_identity(r, t))
<1>1. PICK a : a = Take(q, t)
  OBVIOUS
<1>2. PICK b : b = Take(r, t)
  OBVIOUS
<1>3. Match(a, b) /\ a.len = b.len
  BY <1>1, <1>2, TakenMatch
<1>4. r.st = q.st /\ q.errno = "OK"
  BY DEF Match, Agree, Running
<1>5. /\ Typed(a) /\ a.marks = {"body"} /\ a.len \in 0 .. LenMax - 1 /\ Growing(a, q, t)
      /\ Typed(b) /\ b.marks = {"body"} /\ Growing(b, r, t)
  BY <1>1, <1>2, <1>4, TakenGoes
<1>6. CASE a.len # 0
  <2>1. a.len > 0 /\ b.len > 0
    BY <1>3, <1>5, <1>6
  <2>2. s_body_identity(q, t) = a /\ s_body_identity(r, t) = b
    BY <1>1, <1>2, <2>1 DEF s_body_identity
  <2>3. QED
    BY <1>3, <2>2
<1>7. CASE a.len = 0
  <2>1. PICK c : c = CALLBACK_DATA(To(a, "s_message_done"), "body")
    OBVIOUS
  <2>2. PICK d : d = CALLBACK_DATA(To(b, "s_message_done"), "body")
    OBVIOUS
  <2>3. /\ Record(a) /\ a.errno = "OK" /\ a.len \in 0 .. LenMax /\ "body" \in Mark
        /\ Record(b) /\ b.errno = "OK" /\ b.len \in 0 .. LenMax
    BY <1>3, <1>4, <1>5, <1>7, ParserAssumption DEF Growing, Mark, Match, Agree
  <2>4. Clear(c) /\ Clear(d) /\ Match(c, d)
    BY <1>3, <1>5, <2>1, <2>2, <2>3, CloseGoes, CloseMatch
  <2>5. s_body_identity(q, t) = s_message_done(c) /\ s_body_identity(r, t) = s_message_done(d)
    BY <1>1, <1>2, <1>3, <1>7, <2>1, <2>2 DEF s_body_identity
  <2>6. QED
    BY <2>4, <2>5, MessageDoneMatch
<1>8. QED
  BY <1>6, <1>7

LEMMA UntilEofGoes ==
  ASSUME NEW q, NEW t \in Bytes, Running(q), Typed(q), q.st = "s_body_identity_eof"
  PROVE  Goes(s_body_identity_eof(q, t), q) /\ s_body_identity_eof(q, t).inner = q.inner
<1>1. /\ Record(q) /\ q.errno = "OK" /\ q.marks \subseteq {"body"} /\ Lengths(q)
  BY BodyRunning DEF BodyState
<1>2. PICK x : x = s_body_identity_eof(q, t)
  OBVIOUS
<1>3. Growing(x, q, t) /\ x.len = q.len
  BY <1>1, <1>2, UntilEofIs
<1>4. Typed(x) /\ Texts(x, q) /\ x.marks = {"body"}
  BY <1>1, <1>3, GrowIs
<1>5. /\ x.st = q.st /\ Record(x) /\ x.errno = "OK" /\ x.some = q.some /\ x.nread = q.nread
      /\ x.inner = q.inner /\ x.flags = q.flags
  BY <1>1, <1>3 DEF Growing
<1>6. Lengths(x)
  BY <1>1, <1>3, <1>5 DEF Lengths
<1>7. Sound(x)
  BY <1>4, <1>5, <1>6, BodySound DEF BodyState
<1>8. QED
  BY <1>2, <1>4, <1>5, <1>7 DEF Goes

LEMMA UntilEofMatch ==
  ASSUME NEW q, NEW r, NEW t \in Bytes, Running(q), Typed(q), Running(r), Typed(r), Match(q, r),
         q.st = "s_body_identity_eof"
  PROVE  Match(s_body_identity_eof(q, t), s_body_identity_eof(r, t))
<1>1. r.st = q.st /\ Agree(q, r)
  BY DEF Match, Agree
<1>2. /\ Record(q) /\ q.errno = "OK" /\ q.marks \subseteq {"body"}
      /\ Record(r) /\ r.marks \subseteq {"body"}
  BY <1>1, BodyRunning DEF BodyState
<1>3. /\ Growing(s_body_identity_eof(q, t), q, t) /\ Growing(s_body_identity_eof(r, t), r, t)
      /\ Agree(s_body_identity_eof(q, t), s_body_identity_eof(r, t))
  BY <1>1, <1>2, UntilEofIs
<1>4. QED
  BY <1>2, <1>3, GrowMatch

-------------------------------------------------------------------------------
(* Chunks.                                                                  *)
LEMMA ChunkIs ==
  /\ \A s \in SizeState \cup {"s_chunk_size_start", "s_chunk_data_done"} :
       /\ s \in State /\ s \in ChunkState /\ MarksOf(s) = {} /\ s \notin BodyState
       /\ s \notin {"s_header_value", "s_body_identity", "s_body_identity_eof"}
  /\ "s_chunk_size_start" \notin SizeState /\ "s_chunk_data_done" \notin SizeState
BY DEF ChunkState, SizeState, State, MarksOf, BodyState, UrlState

LEMMA ChunkSound ==
  ASSUME NEW x, Clear(x), "CHUNKED" \in x.flags,
         \/ x.st \in SizeState /\ x.len # LenMax
         \/ x.st = "s_chunk_size_start" /\ x.nread = 0
         \/ x.st = "s_chunk_data_done"
  PROVE  Sound(x)
<1>1. x.st \in SizeState \cup {"s_chunk_size_start", "s_chunk_data_done"}
  OBVIOUS
<1>2. Lengths(x)
  BY <1>1, ChunkIs DEF Lengths, Clear, SizeState
<1>3. Fits(x)
  BY <1>1, <1>2, ChunkIs DEF Fits, Clear
<1>4. QED
  BY <1>3, ChunkIs DEF Sound, Clear

LEMMA ChunkRunning ==
  ASSUME NEW q, Running(q), Typed(q),
         q.st \in SizeState \cup {"s_chunk_size_start", "s_chunk_data_done"}
  PROVE  /\ Clear(q) /\ "CHUNKED" \in q.flags
         /\ q.st \in SizeState => q.len # LenMax
         /\ q.st = "s_chunk_size_start" => q.nread = 1
BY ChunkIs DEF Running, Fits, Lengths, Clear

LEMMA ChunkGoes ==
  ASSUME NEW q, NEW x, Clear(x), Sound(x), x.some = q.some, x.nread \in {q.nread, 0}
  PROVE  Goes(x, q)
BY DEF Goes, Clear, Texts

(* To a state with the chunk's length set.                                  *)
LEMMA SetLenClear ==
  ASSUME NEW q, Clear(q), NEW n \in 0 .. LenMax
  PROVE  LET x == SetLen(q, n)
         IN /\ Clear(x) /\ Still(x, q) /\ x.len = n /\ x.st = q.st /\ x.flags = q.flags
            /\ \A r : Clear(r) /\ Match(q, r) => Match(x, SetLen(r, n))
<1>1. PICK x : x = SetLen(q, n)
  OBVIOUS
<1>2. /\ Inside(x, q) /\ x.inner = q.inner /\ x.len = n /\ x.errno = q.errno
      /\ x.flags = q.flags
  BY <1>1, SetLenIs DEF Clear
<1>3. Still(x, q)
  BY <1>2 DEF Inside, Still
<1>4. Clear(x)
  BY <1>2, <1>3, StillTyped DEF Clear, Inside
<1>5. SUFFICES ASSUME NEW r, Clear(r), Match(q, r) PROVE Match(x, SetLen(r, n))
  BY <1>1, <1>2, <1>3, <1>4 DEF Inside
<1>6. PICK y : y = SetLen(r, n)
  OBVIOUS
<1>7. Inside(y, r) /\ y.inner = r.inner
  BY <1>5, <1>6, SetLenIs DEF Clear
<1>8. Still(y, r)
  BY <1>7 DEF Inside, Still
<1>9. Agree(x, y)
  BY <1>1, <1>5, <1>6, SetLenIs DEF Clear, Match
<1>10. QED
  BY <1>3, <1>5, <1>6, <1>8, <1>9, StillMatch DEF Clear

LEMMA ClaimIs ==
  ASSUME NEW q, NEW c, Record(q), c = TRUE
  PROVE  LET x == Claim(q, c)
         IN /\ Record(x) /\ Still(x, q) /\ x.st = q.st /\ x.errno = q.errno /\ x.len = q.len
            /\ x.flags = q.flags /\ Agree(x, q)
BY DEF Claim, Record, Fields, Still, Agree

LEMMA ClaimClear ==
  ASSUME NEW q, NEW c, Clear(q), c = TRUE
  PROVE  LET x == Claim(q, c)
         IN /\ Clear(x) /\ Still(x, q) /\ x.st = q.st /\ x.flags = q.flags /\ x.len = q.len
            /\ \A r : Clear(r) /\ Match(q, r) => Match(x, Claim(r, c))
<1>1. PICK x : x = Claim(q, c)
  OBVIOUS
<1>2. /\ Record(x) /\ Still(x, q) /\ x.st = q.st /\ x.errno = q.errno /\ x.len = q.len
      /\ x.flags = q.flags /\ Agree(x, q)
  BY <1>1, ClaimIs DEF Clear
<1>3. Clear(x)
  BY <1>2, StillTyped DEF Clear, Still
<1>4. SUFFICES ASSUME NEW r, Clear(r), Match(q, r) PROVE Match(x, Claim(r, c))
  BY <1>1, <1>2, <1>3
<1>5. PICK y : y = Claim(r, c)
  OBVIOUS
<1>6. Still(y, r) /\ Agree(y, r)
  BY <1>4, <1>5, ClaimIs DEF Clear
<1>7. Agree(x, y)
  BY <1>2, <1>4, <1>6 DEF Match, Agree
<1>8. QED
  BY <1>2, <1>4, <1>5, <1>6, <1>7, StillMatch DEF Clear

LEMMA SizeStartIs ==
  ASSUME NEW q, NEW t
  PROVE  LET r == Claim(q, q.nread = 1)
         IN /\ t \in Hex => s_chunk_size_start(q, t) = To(SetLen(r, Unhex(t)), "s_chunk_size")
            /\ t \notin Hex => s_chunk_size_start(q, t) = Fail(r, "INVALID_CHUNK_SIZE")
BY DEF s_chunk_size_start, SetLen

Starting(q) == Claim(Claim(q, "CHUNKED" \in q.flags), Claim(q, "CHUNKED" \in q.flags).nread = 1)

LEMMA StartingIs ==
  ASSUME NEW q, Clear(q), "CHUNKED" \in q.flags, q.nread = 1
  PROVE  LET x == Starting(q)
         IN /\ Clear(x) /\ Still(x, q) /\ x.st = q.st /\ x.flags = q.flags
            /\ \A r : Clear(r) /\ Match(q, r) /\ r.nread = 1 => Match(x, Starting(r))
<1>1. PICK a : a = Claim(q, "CHUNKED" \in q.flags)
  OBVIOUS
<1>2. Clear(a) /\ Still(a, q) /\ a.st = q.st /\ a.flags = q.flags
  BY <1>1, ClaimClear
<1>3. a.nread = 1
  BY <1>2 DEF Still
<1>4. PICK x : x = Claim(a, a.nread = 1)
  OBVIOUS
<1>5. Clear(x) /\ Still(x, a) /\ x.st = a.st /\ x.flags = a.flags
  BY <1>2, <1>3, <1>4, ClaimClear
<1>6. Starting(q) = x
  BY <1>1, <1>4 DEF Starting
<1>7. Still(x, q)
  BY <1>2, <1>5 DEF Still
<1>8. SUFFICES ASSUME NEW r, Clear(r), Match(q, r), r.nread = 1 PROVE Match(x, Starting(r))
  BY <1>2, <1>5, <1>6, <1>7
<1>9. "CHUNKED" \in r.flags
  BY <1>8 DEF Match, Agree
<1>10. PICK b : b = Claim(r, "CHUNKED" \in r.flags)
  OBVIOUS
<1>11. Clear(b) /\ Still(b, r) /\ Match(a, b)
  BY <1>1, <1>8, <1>9, <1>10, ClaimClear
<1>12. b.nread = 1
  BY <1>8, <1>11 DEF Still
<1>13. Match(x, Claim(b, b.nread = 1))
  BY <1>2, <1>3, <1>4, <1>11, <1>12, ClaimClear
<1>14. QED
  BY <1>10, <1>13 DEF Starting

LEMMA SizeStartGoes ==
  ASSUME NEW q, NEW t, Running(q), Typed(q), q.st = "s_chunk_size_start"
  PROVE  LET x == s_chunk_size_start(Claim(q, "CHUNKED" \in q.flags), t)
         IN Goes(x, q) /\ x.inner = q.inner
<1>1. Clear(q) /\ "CHUNKED" \in q.flags /\ q.nread = 1
  BY ChunkRunning
<1>2. PICK a : a = Starting(q)
  OBVIOUS
<1>3. Clear(a) /\ Still(a, q) /\ a.st = q.st /\ a.flags = q.flags
  BY <1>1, <1>2, StartingIs
<1>4. a.some = q.some /\ a.nread = q.nread /\ a.inner = q.inner /\ a.text = q.text
  BY <1>3 DEF Still
<1>5. PICK x : x = s_chunk_size_start(Claim(q, "CHUNKED" \in q.flags), t)
  OBVIOUS
<1>6. CASE t \in Hex
  <2>1. PICK n : n = Unhex(t)
    OBVIOUS
  <2>2. n \in 0 .. LenMax /\ n # LenMax
    BY <1>6, <2>1, NumIs, ParserAssumption
  <2>3. PICK b : b = SetLen(a, n)
    OBVIOUS
  <2>4. Clear(b) /\ Still(b, a) /\ b.len = n /\ b.flags = a.flags
    BY <1>3, <2>2, <2>3, SetLenClear
  <2>5. x = To(b, "s_chunk_size")
    BY <1>2, <1>5, <1>6, <2>1, <2>3, SizeStartIs DEF Starting
  <2>6. Clear(x) /\ Still(x, b) /\ x.st = "s_chunk_size" /\ x.len = n /\ x.flags = b.flags
    BY <2>4, <2>5, ToClear, ToIs DEF Clear
  <2>7. Sound(x)
    BY <1>1, <1>3, <2>2, <2>4, <2>6, ChunkSound DEF SizeState
  <2>8. x.some = q.some /\ x.nread = q.nread /\ x.inner = q.inner
    BY <1>4, <2>4, <2>6 DEF Still
  <2>9. Goes(x, q)
    BY <2>6, <2>7, <2>8, ChunkGoes
  <2>10. QED
    BY <1>5, <2>8, <2>9
<1>7. CASE t \notin Hex
  <2>1. x = Fail(a, "INVALID_CHUNK_SIZE")
    BY <1>2, <1>5, <1>7, SizeStartIs DEF Starting
  <2>2. Goes(x, a) /\ x.inner = a.inner
    BY <1>3, <2>1, FailGoes DEF Clear
  <2>3. QED
    BY <1>4, <1>5, <2>2 DEF Goes, Texts
<1>8. QED
  BY <1>6, <1>7

LEMMA SizeStartMatch ==
  ASSUME NEW q, NEW r, NEW t, Running(q), Typed(q), Running(r), Typed(r), Match(q, r),
         q.st = "s_chunk_size_start"
  PROVE  Match(s_chunk_size_start(Claim(q, "CHUNKED" \in q.flags), t),
               s_chunk_size_start(Claim(r, "CHUNKED" \in r.flags), t))
<1>1. Clear(q) /\ "CHUNKED" \in q.flags /\ q.nread = 1
  BY ChunkRunning
<1>2. r.st = "s_chunk_size_start"
  BY DEF Match, Agree
<1>3. Clear(r) /\ "CHUNKED" \in r.flags /\ r.nread = 1
  BY <1>2, ChunkRunning
<1>4. PICK a : a = Starting(q)
  OBVIOUS
<1>5. PICK b : b = Starting(r)
  OBVIOUS
<1>6. Clear(a) /\ Clear(b) /\ Match(a, b)
  BY <1>1, <1>3, <1>4, <1>5, StartingIs
<1>7. CASE t \in Hex
  <2>1. PICK n : n = Unhex(t)
    OBVIOUS
  <2>2. n \in 0 .. LenMax
    BY <1>7, <2>1, NumIs, ParserAssumption
  <2>3. PICK c : c = SetLen(a, n)
    OBVIOUS
  <2>4. PICK d : d = SetLen(b, n)
    OBVIOUS
  <2>5. Clear(c) /\ Clear(d) /\ Match(c, d)
    BY <1>6, <2>2, <2>3, <2>4, SetLenClear
  <2>6. Match(To(c, "s_chunk_size"), To(d, "s_chunk_size"))
    BY <2>5, ToMatch DEF Clear
  <2>7. QED
    BY <1>4, <1>5, <1>7, <2>1, <2>3, <2>4, <2>6, SizeStartIs DEF Starting
<1>8. CASE t \notin Hex
  BY <1>4, <1>5, <1>6, <1>8, SizeStartIs, FailMatch DEF Starting, Clear, Match
<1>9. QED
  BY <1>7, <1>8

LEMMA SizeIs ==
  ASSUME NEW q, NEW t
  PROVE  /\ t = "CR" => s_chunk_size(q, t) = To(q, "s_chunk_size_almost_done")
         /\ t \in {";", "SP"} => s_chunk_size(q, t) = To(q, "s_chunk_parameters")
         /\ t \in Hex /\ (LenMax - 16) \div 16 < q.len =>
              s_chunk_size(q, t) = Fail(q, "INVALID_CONTENT_LENGTH")
         /\ t \in Hex /\ ~((LenMax - 16) \div 16 < q.len) =>
              s_chunk_size(q, t) = SetLen(q, (q.len * 16 + Unhex(t)) % (LenMax + 1))
         /\ t \notin {"CR", ";", "SP"} \cup Hex =>
              s_chunk_size(q, t) = Fail(q, "INVALID_CHUNK_SIZE")
<1>1. t \in Hex => t \notin {"CR", ";", "SP"}
  BY NumIs
<1>2. t = "CR" => s_chunk_size(q, t) = To(q, "s_chunk_size_almost_done")
  BY <1>1 DEF s_chunk_size
<1>3. t \in {";", "SP"} => s_chunk_size(q, t) = To(q, "s_chunk_parameters")
  BY <1>1 DEF s_chunk_size
<1>4. t \in Hex => s_chunk_size(q, t) =
                     IF (LenMax - 16) \div 16 < q.len THEN Fail(q, "INVALID_CONTENT_LENGTH")
                     ELSE [q EXCEPT !.len = (q.len * 16 + Unhex(t)) % (LenMax + 1)]
  BY <1>1 DEF s_chunk_size
<1>5. t \notin {"CR", ";", "SP"} \cup Hex => s_chunk_size(q, t) = Fail(q, "INVALID_CHUNK_SIZE")
  BY DEF s_chunk_size
<1>6. QED
  BY <1>2, <1>3, <1>4, <1>5 DEF SetLen

(* The test before a digit is added keeps the length from wrapping, and     *)
(* from being the one that stands for none.                                 *)
LEMMA HexFits ==
  ASSUME NEW n \in 0 .. LenMax, NEW d \in 0 .. 15, ~((LenMax - 16) \div 16 < n)
  PROVE  (n * 16 + d) % (LenMax + 1) \in 0 .. LenMax - 1
<1>1. LenMax \in Nat /\ LenMax > 15
  BY ParserAssumption
<1>2. PICK k \in Nat : k = LenMax - 16
  BY <1>1
<1>3. PICK m \in Nat : m = k \div 16
  BY <1>2
<1>4. 16 * m <= k
  BY <1>2, <1>3
<1>5. n <= m
  BY <1>2, <1>3
<1>6. n * 16 + d <= LenMax - 1 /\ n * 16 + d \in Nat
  BY <1>1, <1>2, <1>3, <1>4, <1>5
<1>7. PICK v \in Nat : v = n * 16 + d
  BY <1>6
<1>8. v % (LenMax + 1) = v
  BY <1>1, <1>6, <1>7
<1>9. QED
  BY <1>1, <1>6, <1>7, <1>8

LEMMA SizeGoes ==
  ASSUME NEW q, NEW t, Running(q), Typed(q), q.st = "s_chunk_size"
  PROVE  Goes(s_chunk_size(q, t), q) /\ s_chunk_size(q, t).inner = q.inner
<1>1. Clear(q) /\ "CHUNKED" \in q.flags /\ q.len # LenMax /\ q.len \in 0 .. LenMax
  BY ChunkRunning DEF SizeState, Clear
<1>2. ASSUME NEW s \in SizeState PROVE Goes(To(q, s), q) /\ To(q, s).inner = q.inner
  <2>1. PICK x : x = To(q, s)
    OBVIOUS
  <2>2. Clear(x) /\ Still(x, q) /\ x.st = s /\ x.len = q.len /\ x.flags = q.flags
    BY <1>1, <2>1, ToClear, ToIs DEF Clear
  <2>3. Sound(x)
    BY <1>1, <2>2, ChunkSound
  <2>4. x.some = q.some /\ x.nread = q.nread /\ x.inner = q.inner
    BY <2>2 DEF Still
  <2>5. QED
    BY <2>1, <2>2, <2>3, <2>4, ChunkGoes
<1>3. ASSUME NEW e, e # "OK" PROVE Goes(Fail(q, e), q) /\ Fail(q, e).inner = q.inner
  BY <1>1, <1>3, FailGoes DEF Clear
<1>4. CASE t \in {"CR", ";", "SP"}
  <2>1. "s_chunk_size_almost_done" \in SizeState /\ "s_chunk_parameters" \in SizeState
    BY DEF SizeState
  <2>2. CASE t = "CR"
    BY <1>2, <2>1, <2>2, SizeIs
  <2>3. CASE t \in {";", "SP"}
    BY <1>2, <2>1, <2>3, SizeIs
  <2>4. QED
    BY <1>4, <2>2, <2>3
<1>5. CASE t \notin {"CR", ";", "SP"} \cup Hex \/ (t \in Hex /\ (LenMax - 16) \div 16 < q.len)
  <2>1. Goes(Fail(q, "INVALID_CHUNK_SIZE"), q) /\ Fail(q, "INVALID_CHUNK_SIZE").inner = q.inner
    BY <1>3
  <2>2. /\ Goes(Fail(q, "INVALID_CONTENT_LENGTH"), q)
        /\ Fail(q, "INVALID_CONTENT_LENGTH").inner = q.inner
    BY <1>3
  <2>3. CASE t \notin {"CR", ";", "SP"} \cup Hex
    BY <2>1, <2>3, SizeIs
  <2>4. CASE t \in Hex /\ (LenMax - 16) \div 16 < q.len
    BY <2>2, <2>4, SizeIs
  <2>5. QED
    BY <1>5, <2>3, <2>4
<1>6. CASE t \in Hex /\ ~((LenMax - 16) \div 16 < q.len)
  <2>1. PICK n : n = (q.len * 16 + Unhex(t)) % (LenMax + 1)
    OBVIOUS
  <2>2. n \in 0 .. LenMax - 1
    <3>1. Unhex(t) \in 0 .. 15
      BY <1>6, NumIs
    <3>2. QED
      BY <1>1, <1>6, <2>1, <3>1, HexFits
  <2>3. n \in 0 .. LenMax /\ n # LenMax
    BY <2>2, ParserAssumption
  <2>4. PICK x : x = SetLen(q, n)
    OBVIOUS
  <2>5. Clear(x) /\ Still(x, q) /\ x.len = n /\ x.st = q.st /\ x.flags = q.flags
    BY <1>1, <2>3, <2>4, SetLenClear
  <2>6. Sound(x)
    BY <1>1, <2>3, <2>5, ChunkSound DEF SizeState
  <2>7. x.some = q.some /\ x.nread = q.nread /\ x.inner = q.inner
    BY <2>5 DEF Still
  <2>8. s_chunk_size(q, t) = x
    BY <1>6, <2>1, <2>4, SizeIs
  <2>9. QED
    BY <2>5, <2>6, <2>7, <2>8, ChunkGoes
<1>7. QED
  BY <1>4, <1>5, <1>6

LEMMA SizeMatch ==
  ASSUME NEW q, NEW r, NEW t, Clear(q), Clear(r), Match(q, r)
  PROVE  Match(s_chunk_size(q, t), s_chunk_size(r, t))
<1>1. q.len = r.len /\ Agree(q, r) /\ q.len \in 0 .. LenMax
  BY DEF Match, Agree, Clear
<1>2. \A s : Match(To(q, s), To(r, s))
  BY ToMatch DEF Clear
<1>3. \A e : e # "OK" => Match(Fail(q, e), Fail(r, e))
  BY <1>1, FailMatch DEF Clear
<1>4. CASE t \in {"CR", ";", "SP"}
  BY <1>2, <1>4, SizeIs
<1>5. CASE t \notin {"CR", ";", "SP"} \cup Hex \/ (t \in Hex /\ (LenMax - 16) \div 16 < q.len)
  BY <1>1, <1>3, <1>5, SizeIs
<1>6. CASE t \in Hex /\ ~((LenMax - 16) \div 16 < q.len)
  <2>1. PICK n : n = (q.len * 16 + Unhex(t)) % (LenMax + 1)
    OBVIOUS
  <2>2. n \in 0 .. LenMax
    <3>1. Unhex(t) \in 0 .. 15
      BY <1>6, NumIs
    <3>2. n \in 0 .. LenMax - 1
      BY <1>1, <1>6, <2>1, <3>1, HexFits
    <3>3. QED
      BY <3>2, ParserAssumption
  <2>3. s_chunk_size(q, t) = SetLen(q, n) /\ s_chunk_size(r, t) = SetLen(r, n)
    BY <1>1, <1>6, <2>1, SizeIs
  <2>4. QED
    BY <2>2, <2>3, SetLenClear
<1>7. QED
  BY <1>4, <1>5, <1>6

LEMMA ParametersGoes ==
  ASSUME NEW q, NEW t, Running(q), Typed(q), q.st = "s_chunk_parameters"
  PROVE  Goes(s_chunk_parameters(q, t), q) /\ s_chunk_parameters(q, t).inner = q.inner
<1>1. Clear(q) /\ "CHUNKED" \in q.flags /\ q.len # LenMax
  BY ChunkRunning DEF SizeState
<1>2. CASE t = "CR"
  <2>1. PICK x : x = To(q, "s_chunk_size_almost_done")
    OBVIOUS
  <2>2. /\ Clear(x) /\ Still(x, q) /\ x.st = "s_chunk_size_almost_done" /\ x.len = q.len
        /\ x.flags = q.flags
    BY <1>1, <2>1, ToClear, ToIs DEF Clear
  <2>3. Sound(x)
    BY <1>1, <2>2, ChunkSound DEF SizeState
  <2>4. x.some = q.some /\ x.nread = q.nread /\ x.inner = q.inner
    BY <2>2 DEF Still
  <2>5. QED
    BY <1>2, <2>1, <2>2, <2>3, <2>4, ChunkGoes DEF s_chunk_parameters
<1>3. CASE t # "CR"
  <2>1. Sound(q)
    BY <1>1, ChunkSound DEF SizeState
  <2>2. QED
    BY <1>1, <1>3, <2>1, ChunkGoes DEF s_chunk_parameters
<1>4. QED
  BY <1>2, <1>3

LEMMA ParametersMatch ==
  ASSUME NEW q, NEW r, NEW t, Clear(q), Clear(r), Match(q, r)
  PROVE  Match(s_chunk_parameters(q, t), s_chunk_parameters(r, t))
BY ToMatch DEF s_chunk_parameters, Clear

(* Behind the size of a chunk: its data, or the trailers.                   *)
LEMMA FlagClear ==
  ASSUME NEW q, NEW f, Clear(q)
  PROVE  LET x == Flag(q, f)
         IN /\ Clear(x) /\ Still(x, q) /\ x.st = q.st
            /\ \A r : Clear(r) /\ Match(q, r) => Match(x, Flag(r, f))
<1>1. \A r : Clear(r) => /\ Record(Flag(r, f)) /\ Still(Flag(r, f), r) /\ Flag(r, f).st = r.st
                         /\ Flag(r, f).errno = "OK" /\ Flag(r, f).len = r.len
  BY DEF Flag, Clear, Record, Fields, Still
<1>2. Clear(Flag(q, f))
  BY <1>1, StillTyped DEF Clear, Still
<1>3. SUFFICES ASSUME NEW r, Clear(r), Match(q, r) PROVE Match(Flag(q, f), Flag(r, f))
  BY <1>1, <1>2
<1>4. Agree(Flag(q, f), Flag(r, f))
  BY <1>3 DEF Flag, Clear, Record, Fields, Match, Agree
<1>5. QED
  BY <1>1, <1>3, <1>4, StillMatch DEF Clear

LEMMA SizeDoneIs ==
  ASSUME NEW q, NEW t
  PROVE  /\ t # "LF" => s_chunk_size_almost_done(q, t) = Fail(q, "STRICT")
         /\ t = "LF" /\ q.len = 0 =>
              s_chunk_size_almost_done(q, t) =
                To(Flag(CountAnew(q), "TRAILING"), "s_header_field_start")
         /\ t = "LF" /\ q.len # 0 =>
              s_chunk_size_almost_done(q, t) = To(CountAnew(q), "s_chunk_data")
BY DEF s_chunk_size_almost_done

LEMMA SizeDoneGoes ==
  ASSUME NEW q, NEW t, Running(q), Typed(q), q.st = "s_chunk_size_almost_done"
  PROVE  /\ Goes(s_chunk_size_almost_done(q, t), q)
         /\ s_chunk_size_almost_done(q, t).inner = q.inner
<1>1. Clear(q) /\ "CHUNKED" \in q.flags /\ q.len # LenMax /\ q.len \in 0 .. LenMax
  BY ChunkRunning DEF SizeState, Clear
<1>2. CASE t # "LF"
  BY <1>1, <1>2, SizeDoneIs, FailGoes DEF Clear
<1>3. PICK a : a = CountAnew(q)
  OBVIOUS
<1>4. /\ Clear(a) /\ a.some = q.some /\ a.inner = q.inner /\ a.nread = 0 /\ a.len = q.len
      /\ a.flags = q.flags
  BY <1>1, <1>3, AnewIs
<1>5. CASE t = "LF" /\ q.len = 0
  <2>1. PICK b : b = Flag(a, "TRAILING")
    OBVIOUS
  <2>2. Clear(b) /\ Still(b, a)
    BY <1>4, <2>1, FlagClear
  <2>3. PICK x : x = To(b, "s_header_field_start")
    OBVIOUS
  <2>4. Clear(x) /\ Still(x, b) /\ x.st = "s_header_field_start"
    BY <2>2, <2>3, ToClear, ToIs DEF Clear
  <2>5. x.some = q.some /\ x.inner = q.inner /\ x.nread = 0
    BY <1>4, <2>2, <2>4 DEF Still
  <2>6. Goes(x, q)
    BY <2>4, <2>5, ClearGoes DEF PlainState, HeaderState
  <2>7. QED
    BY <1>3, <1>5, <2>1, <2>3, <2>5, <2>6, SizeDoneIs
<1>6. CASE t = "LF" /\ q.len # 0
  <2>1. PICK x : x = To(a, "s_chunk_data")
    OBVIOUS
  <2>2. /\ Clear(x) /\ Still(x, a) /\ x.st = "s_chunk_data" /\ x.len = q.len
        /\ x.flags = q.flags
    BY <1>4, <2>1, ToClear, ToIs DEF Clear
  <2>3. Lengths(x)
    BY <1>1, <1>6, <2>2 DEF Lengths
  <2>4. Sound(x)
    BY <2>2, <2>3, BodySound DEF BodyState, Clear
  <2>5. x.some = q.some /\ x.inner = q.inner /\ x.nread = 0
    BY <1>4, <2>2 DEF Still
  <2>6. Goes(x, q)
    BY <2>2, <2>4, <2>5, ChunkGoes
  <2>7. QED
    BY <1>3, <1>6, <2>1, <2>5, <2>6, SizeDoneIs
<1>7. QED
  BY <1>2, <1>5, <1>6

LEMMA SizeDoneMatch ==
  ASSUME NEW q, NEW r, NEW t, Clear(q), Clear(r), Match(q, r)
  PROVE  Match(s_chunk_size_almost_done(q, t), s_chunk_size_almost_done(r, t))
<1>1. q.len = r.len
  BY DEF Match, Agree
<1>2. CASE t # "LF"
  BY <1>2, SizeDoneIs, FailMatch DEF Clear, Match
<1>3. PICK a : a = CountAnew(q)
  OBVIOUS
<1>4. PICK b : b = CountAnew(r)
  OBVIOUS
<1>5. Clear(a) /\ Clear(b) /\ Match(a, b)
  BY <1>3, <1>4, AnewIs
<1>6. CASE t = "LF" /\ q.len = 0
  <2>1. PICK c : c = Flag(a, "TRAILING")
    OBVIOUS
  <2>2. PICK d : d = Flag(b, "TRAILING")
    OBVIOUS
  <2>3. Clear(c) /\ Clear(d) /\ Match(c, d)
    BY <1>5, <2>1, <2>2, FlagClear
  <2>4. Match(To(c, "s_header_field_start"), To(d, "s_header_field_start"))
    BY <2>3, ToMatch DEF Clear
  <2>5. QED
    BY <1>1, <1>3, <1>4, <1>6, <2>1, <2>2, <2>4, SizeDoneIs
<1>7. CASE t = "LF" /\ q.len # 0
  <2>1. Match(To(a, "s_chunk_data"), To(b, "s_chunk_data"))
    BY <1>5, ToMatch DEF Clear
  <2>2. QED
    BY <1>1, <1>3, <1>4, <1>7, <2>1, SizeDoneIs
<1>8. QED
  BY <1>2, <1>6, <1>7

LEMMA ChunkDataGoes ==
  ASSUME NEW q, NEW t \in Bytes, Running(q), Typed(q), q.st = "s_chunk_data"
  PROVE  Goes(s_chunk_data(q, t), q) /\ s_chunk_data(q, t).inner = q.inner
<1>1. PICK a : a = Take(q, t)
  OBVIOUS
<1>2. /\ Growing(a, q, t) /\ Typed(a) /\ Texts(a, q) /\ a.marks = {"body"}
      /\ a.len # 0 => Goes(a, q)
  BY <1>1, TakenGoes
<1>3. CASE a.len # 0
  BY <1>1, <1>2, <1>3 DEF s_chunk_data, Growing
<1>4. CASE a.len = 0
  <2>1. PICK x : x = To(a, "s_chunk_data_almost_done")
    OBVIOUS
  <2>2. Record(a) /\ a.errno = "OK" /\ "CHUNKED" \in a.flags
    BY <1>2 DEF Growing, Running, Fits, Lengths, ChunkState
  <2>3. /\ Record(x) /\ Still(x, a) /\ x.st = "s_chunk_data_almost_done" /\ x.errno = "OK"
        /\ x.len = 0 /\ x.flags = a.flags
    BY <1>4, <2>1, <2>2, ToIs
  <2>4. Typed(x)
    BY <1>2, <2>3, StillTyped
  <2>5. Lengths(x)
    BY <2>2, <2>3, ParserAssumption DEF Lengths, SizeState
  <2>6. Sound(x)
    BY <1>2, <2>3, <2>5, BodySound DEF BodyState, Still
  <2>7. /\ x.some = q.some /\ x.inner = q.inner /\ x.nread = q.nread /\ x.marks = a.marks
        /\ x.text = a.text
    BY <1>2, <2>3 DEF Still, Growing
  <2>8. Goes(x, q)
    BY <1>2, <2>3, <2>4, <2>6, <2>7 DEF Goes, Texts
  <2>9. QED
    BY <1>1, <1>4, <2>1, <2>7, <2>8 DEF s_chunk_data
<1>5. QED
  BY <1>3, <1>4

LEMMA ChunkDataMatch ==
  ASSUME NEW q, NEW r, NEW t \in Bytes, Running(q), Typed(q), Running(r), Typed(r), Match(q, r),
         q.st = "s_chunk_data"
  PROVE  Match(s_chunk_data(q, t), s_chunk_data(r, t))
<1>1. PICK a : a = Take(q, t)
  OBVIOUS
<1>2. PICK b : b = Take(r, t)
  OBVIOUS
<1>3. Match(a, b) /\ a.len = b.len
  BY <1>1, <1>2, TakenMatch
<1>4. r.st = q.st
  BY DEF Match, Agree
<1>5. Typed(a) /\ Typed(b) /\ Record(a) /\ Record(b) /\ a.errno = "OK"
  BY <1>1, <1>2, <1>4, TakenGoes DEF Growing, Running
<1>6. CASE a.len # 0
  BY <1>1, <1>2, <1>3, <1>6 DEF s_chunk_data
<1>7. CASE a.len = 0
  <2>1. Match(To(a, "s_chunk_data_almost_done"), To(b, "s_chunk_data_almost_done"))
    BY <1>3, <1>5, ToMatch
  <2>2. QED
    BY <1>1, <1>2, <1>3, <1>7, <2>1 DEF s_chunk_data
<1>8. QED
  BY <1>6, <1>7

DataDone(q) == CALLBACK_DATA(To(Claim(q, q.len = 0), "s_chunk_data_done"), "body")

LEMMA DataDoneIs ==
  ASSUME NEW q, NEW t
  PROVE  /\ t = "CR" => s_chunk_data_almost_done(q, t) = DataDone(q)
         /\ t # "CR" => s_chunk_data_almost_done(q, t) = Fail(Claim(q, q.len = 0), "STRICT")
BY DEF s_chunk_data_almost_done, DataDone

LEMMA DataDoneGoes ==
  ASSUME NEW q, NEW t, Running(q), Typed(q), q.st = "s_chunk_data_almost_done"
  PROVE  /\ Goes(s_chunk_data_almost_done(q, t), q)
         /\ s_chunk_data_almost_done(q, t).inner = q.inner
<1>1. /\ Record(q) /\ q.errno = "OK" /\ q.marks \subseteq {"body"} /\ Lengths(q)
      /\ q.len \in 0 .. LenMax
  BY BodyRunning DEF BodyState
<1>2. q.len = 0 /\ "CHUNKED" \in q.flags
  BY <1>1 DEF Lengths, ChunkState
<1>3. PICK a : a = Claim(q, q.len = 0)
  OBVIOUS
<1>4. /\ Record(a) /\ Still(a, q) /\ a.st = q.st /\ a.errno = q.errno /\ a.len = q.len
      /\ a.flags = q.flags
  BY <1>1, <1>2, <1>3, ClaimIs
<1>5. Typed(a) /\ a.marks \subseteq {"body"} /\ a.some = q.some /\ a.nread = q.nread
      /\ a.inner = q.inner /\ a.text = q.text
  BY <1>1, <1>4, StillTyped DEF Still
<1>6. CASE t = "CR"
  <2>1. PICK x : x = CALLBACK_DATA(To(a, "s_chunk_data_done"), "body")
    OBVIOUS
  <2>2. "body" \in Mark
    BY DEF Mark
  <2>3. /\ Clear(x) /\ x.st = "s_chunk_data_done" /\ x.some = a.some /\ x.nread = a.nread
        /\ x.inner = a.inner /\ x.flags = a.flags
    BY <1>1, <1>4, <1>5, <2>1, <2>2, CloseGoes
  <2>4. Sound(x)
    BY <1>2, <1>4, <2>3, ChunkSound
  <2>5. Goes(x, q)
    BY <1>5, <2>3, <2>4, ChunkGoes
  <2>6. QED
    BY <1>3, <1>5, <1>6, <2>1, <2>3, <2>5, DataDoneIs DEF DataDone
<1>7. CASE t # "CR"
  <2>1. Goes(Fail(a, "STRICT"), a) /\ Fail(a, "STRICT").inner = a.inner
    BY <1>4, <1>5, FailGoes
  <2>2. QED
    BY <1>3, <1>5, <1>7, <2>1, DataDoneIs DEF Goes, Texts
<1>8. QED
  BY <1>6, <1>7

LEMMA DataDoneMatch ==
  ASSUME NEW q, NEW r, NEW t, Running(q), Typed(q), Running(r), Typed(r), Match(q, r),
         q.st = "s_chunk_data_almost_done"
  PROVE  Match(s_chunk_data_almost_done(q, t), s_chunk_data_almost_done(r, t))
<1>1. r.st = q.st /\ Agree(q, r)
  BY DEF Match, Agree
<1>2. /\ Record(q) /\ q.errno = "OK" /\ q.marks \subseteq {"body"} /\ q.len = 0
      /\ Record(r) /\ r.errno = "OK" /\ r.marks \subseteq {"body"} /\ r.len = 0
  BY <1>1, BodyRunning DEF BodyState, Lengths
<1>3. PICK a : a = Claim(q, q.len = 0)
  OBVIOUS
<1>4. PICK b : b = Claim(r, r.len = 0)
  OBVIOUS
<1>5. /\ Record(a) /\ Still(a, q) /\ a.errno = "OK" /\ Agree(a, q)
      /\ Record(b) /\ Still(b, r) /\ b.errno = "OK" /\ Agree(b, r)
  BY <1>2, <1>3, <1>4, ClaimIs
<1>6. Agree(a, b)
  BY <1>1, <1>5 DEF Agree
<1>7. Typed(a) /\ Typed(b) /\ a.marks \subseteq {"body"} /\ b.marks \subseteq {"body"}
  BY <1>2, <1>5, StillTyped DEF Still
<1>8. Match(a, b)
  BY <1>2, <1>5, <1>6, StillMatch
<1>9. CASE t = "CR"
  <2>1. "body" \in Mark
    BY DEF Mark
  <2>2. Match(CALLBACK_DATA(To(a, "s_chunk_data_done"), "body"),
              CALLBACK_DATA(To(b, "s_chunk_data_done"), "body"))
    BY <1>5, <1>7, <1>8, <2>1, CloseMatch
  <2>3. QED
    BY <1>3, <1>4, <1>9, <2>2, DataDoneIs DEF DataDone
<1>10. CASE t # "CR"
  BY <1>3, <1>4, <1>5, <1>6, <1>10, DataDoneIs, FailMatch
<1>11. QED
  BY <1>9, <1>10

LEMMA NextChunkGoes ==
  ASSUME NEW q, NEW t, Running(q), Typed(q), q.st = "s_chunk_data_done"
  PROVE  Goes(s_chunk_data_done(q, t), q) /\ s_chunk_data_done(q, t).inner = q.inner
<1>1. Clear(q) /\ "CHUNKED" \in q.flags
  BY ChunkRunning
<1>2. CASE t # "LF"
  BY <1>1, <1>2, FailGoes DEF Clear, s_chunk_data_done
<1>3. CASE t = "LF"
  <2>1. PICK a : a = CountAnew(q)
    OBVIOUS
  <2>2. Clear(a) /\ a.some = q.some /\ a.inner = q.inner /\ a.nread = 0 /\ a.flags = q.flags
    BY <1>1, <2>1, AnewIs
  <2>3. Goes(To(a, "s_chunk_size_start"), a) /\ To(a, "s_chunk_size_start").inner = a.inner
    BY <1>1, <2>2, BodyStart
  <2>4. /\ Clear(To(a, "s_chunk_size_start")) /\ Still(To(a, "s_chunk_size_start"), a)
    BY <2>2, ToClear, ToIs DEF Clear
  <2>5. Goes(To(a, "s_chunk_size_start"), q)
    BY <2>2, <2>3, <2>4, ChunkGoes DEF Goes, Still
  <2>6. QED
    BY <1>3, <2>1, <2>2, <2>3, <2>5 DEF s_chunk_data_done
<1>4. QED
  BY <1>2, <1>3

LEMMA NextChunkMatch ==
  ASSUME NEW q, NEW r, NEW t, Clear(q), Clear(r), Match(q, r)
  PROVE  Match(s_chunk_data_done(q, t), s_chunk_data_done(r, t))
<1>1. CASE t # "LF"
  BY <1>1, FailMatch DEF Clear, Match, s_chunk_data_done
<1>2. CASE t = "LF"
  <2>1. Clear(CountAnew(q)) /\ Clear(CountAnew(r)) /\ Match(CountAnew(q), CountAnew(r))
    BY AnewIs
  <2>2. Match(To(CountAnew(q), "s_chunk_size_start"), To(CountAnew(r), "s_chunk_size_start"))
    BY <2>1, ToMatch DEF Clear
  <2>3. QED
    BY <1>2, <2>2 DEF s_chunk_data_done
<1>3. QED
  BY <1>1, <1>2

-------------------------------------------------------------------------------
(* One byte, in the state the parser is in.                                 *)
NameState == {"s_header_field", "s_header_value"}

LEMMA GroupsIs ==
  /\ DOMAIN Letters = LetterState
  /\ \A s \in State :
       s \in LetterState \cup VersionState \cup UrlState \cup {"s_chunk_size_start"} \cup
       {"s_dead",
        "s_start_res",
        "s_res_first_status_code",
        "s_res_status_code",
        "s_res_status_start",
        "s_res_status",
        "s_start_req",
        "s_req_method",
        "s_req_spaces_before_url",
        "s_req_http_start",
        "s_req_line_almost_done",
        "s_header_field_start",
        "s_header_field",
        "s_header_value_discard_ws",
        "s_header_value_discard_lws",
        "s_header_value",
        "s_header_value_lws",
        "s_header_almost_done",
        "s_headers_almost_done",
        "s_chunk_size",
        "s_chunk_parameters",
        "s_chunk_size_almost_done",
        "s_chunk_data",
        "s_chunk_data_almost_done",
        "s_chunk_data_done",
        "s_body_identity",
        "s_body_identity_eof"}
BY DEF Letters, LetterState, State, PlainState, StartState, VersionState, LineState, HeaderState,
       ChunkState, SizeState, BodyState

LEMMA InStateIs ==
  ASSUME NEW q, NEW t
  PROVE  /\ q.st \in LetterState => InState(q, t) = Literal(q, t)
         /\ q.st \in VersionState => InState(q, t) = Version(q, t)
         /\ q.st \in UrlState => InState(q, t) = s_req_url(q, t)
         /\ q.st = "s_chunk_size_start" =>
              InState(q, t) = s_chunk_size_start(Claim(q, "CHUNKED" \in q.flags), t)
         /\ q.st = "s_dead" => InState(q, t) = s_dead(q, t)
         /\ q.st = "s_start_res" => InState(q, t) = s_start_res(q, t)
         /\ q.st = "s_res_first_status_code" => InState(q, t) = s_res_first_status_code(q, t)
         /\ q.st = "s_res_status_code" => InState(q, t) = s_res_status_code(q, t)
         /\ q.st = "s_res_status_start" => InState(q, t) = s_res_status_start(q, t)
         /\ q.st = "s_res_status" => InState(q, t) = s_res_status(q, t)
         /\ q.st = "s_start_req" => InState(q, t) = s_start_req(q, t)
         /\ q.st = "s_req_method" => InState(q, t) = s_req_method(q, t)
         /\ q.st = "s_req_spaces_before_url" => InState(q, t) = s_req_spaces_before_url(q, t)
         /\ q.st = "s_req_http_start" => InState(q, t) = s_req_http_start(q, t)
         /\ q.st = "s_req_line_almost_done" => InState(q, t) = s_req_line_almost_done(q, t)
         /\ q.st = "s_header_field_start" => InState(q, t) = s_header_field_start(q, t)
         /\ q.st = "s_header_field" => InState(q, t) = s_header_field(q, t)
         /\ q.st = "s_header_value_discard_ws" => InState(q, t) = s_header_value_discard_ws(q, t)
         /\ q.st = "s_header_value_discard_lws" => InState(q, t) = s_header_value_discard_lws(q, t)
         /\ q.st = "s_header_value" => InState(q, t) = s_header_value(q, t)
         /\ q.st = "s_header_value_lws" => InState(q, t) = s_header_value_lws(q, t)
         /\ q.st = "s_header_almost_done" => InState(q, t) = s_header_almost_done(q, t)
         /\ q.st = "s_headers_almost_done" => InState(q, t) = s_headers_almost_done(q, t)
         /\ q.st = "s_chunk_size" => InState(q, t) = s_chunk_size(q, t)
         /\ q.st = "s_chunk_parameters" => InState(q, t) = s_chunk_parameters(q, t)
         /\ q.st = "s_chunk_size_almost_done" => InState(q, t) = s_chunk_size_almost_done(q, t)
         /\ q.st = "s_chunk_data" => InState(q, t) = s_chunk_data(q, t)
         /\ q.st = "s_chunk_data_almost_done" => InState(q, t) = s_chunk_data_almost_done(q, t)
         /\ q.st = "s_chunk_data_done" => InState(q, t) = s_chunk_data_done(q, t)
         /\ q.st = "s_body_identity" => InState(q, t) = s_body_identity(q, t)
         /\ q.st = "s_body_identity_eof" => InState(q, t) = s_body_identity_eof(q, t)
<1>1. q.st \in LetterState => InState(q, t) = Literal(q, t)
  BY GroupsIs DEF InState, LetterState, UrlState
<1>2. q.st \in VersionState => InState(q, t) = Version(q, t)
  BY GroupsIs DEF InState, LetterState, UrlState, VersionState
<1>3. q.st \in UrlState => InState(q, t) = s_req_url(q, t)
  BY GroupsIs DEF InState, LetterState, UrlState
<1>4. q.st = "s_chunk_size_start" =>
        InState(q, t) = s_chunk_size_start(Claim(q, "CHUNKED" \in q.flags), t)
  BY GroupsIs DEF InState, LetterState, UrlState
<1>5. q.st = "s_dead" => InState(q, t) = s_dead(q, t)
  BY GroupsIs DEF InState, LetterState, UrlState
<1>6. q.st = "s_start_res" => InState(q, t) = s_start_res(q, t)
  BY GroupsIs DEF InState, LetterState, UrlState
<1>7. q.st = "s_res_first_status_code" => InState(q, t) = s_res_first_status_code(q, t)
  BY GroupsIs DEF InState, LetterState, UrlState
<1>8. q.st = "s_res_status_code" => InState(q, t) = s_res_status_code(q, t)
  BY GroupsIs DEF InState, LetterState, UrlState
<1>9. q.st = "s_res_status_start" => InState(q, t) = s_res_status_start(q, t)
  BY GroupsIs DEF InState, LetterState, UrlState
<1>10. q.st = "s_res_status" => InState(q, t) = s_res_status(q, t)
  BY GroupsIs DEF InState, LetterState, UrlState
<1>11. q.st = "s_start_req" => InState(q, t) = s_start_req(q, t)
  BY GroupsIs DEF InState, LetterState, UrlState
<1>12. q.st = "s_req_method" => InState(q, t) = s_req_method(q, t)
  BY GroupsIs DEF InState, LetterState, UrlState
<1>13. q.st = "s_req_spaces_before_url" => InState(q, t) = s_req_spaces_before_url(q, t)
  BY GroupsIs DEF InState, LetterState, UrlState
<1>14. q.st = "s_req_http_start" => InState(q, t) = s_req_http_start(q, t)
  BY GroupsIs DEF InState, LetterState, UrlState
<1>15. q.st = "s_req_line_almost_done" => InState(q, t) = s_req_line_almost_done(q, t)
  BY GroupsIs DEF InState, LetterState, UrlState
<1>16. q.st = "s_header_field_start" => InState(q, t) = s_header_field_start(q, t)
  BY GroupsIs DEF InState, LetterState, UrlState
<1>17. q.st = "s_header_field" => InState(q, t) = s_header_field(q, t)
  BY GroupsIs DEF InState, LetterState, UrlState
<1>18. q.st = "s_header_value_discard_ws" => InState(q, t) = s_header_value_discard_ws(q, t)
  BY GroupsIs DEF InState, LetterState, UrlState
<1>19. q.st = "s_header_value_discard_lws" => InState(q, t) = s_header_value_discard_lws(q, t)
  BY GroupsIs DEF InState, LetterState, UrlState
<1>20. q.st = "s_header_value" => InState(q, t) = s_header_value(q, t)
  BY GroupsIs DEF InState, LetterState, UrlState
<1>21. q.st = "s_header_value_lws" => InState(q, t) = s_header_value_lws(q, t)
  BY GroupsIs DEF InState, LetterState, UrlState
<1>22. q.st = "s_header_almost_done" => InState(q, t) = s_header_almost_done(q, t)
  BY GroupsIs DEF InState, LetterState, UrlState
<1>23. q.st = "s_headers_almost_done" => InState(q, t) = s_headers_almost_done(q, t)
  BY GroupsIs DEF InState, LetterState, UrlState
<1>24. q.st = "s_chunk_size" => InState(q, t) = s_chunk_size(q, t)
  BY GroupsIs DEF InState, LetterState, UrlState
<1>25. q.st = "s_chunk_parameters" => InState(q, t) = s_chunk_parameters(q, t)
  BY GroupsIs DEF InState, LetterState, UrlState
<1>26. q.st = "s_chunk_size_almost_done" => InState(q, t) = s_chunk_size_almost_done(q, t)
  BY GroupsIs DEF InState, LetterState, UrlState
<1>27. q.st = "s_chunk_data" => InState(q, t) = s_chunk_data(q, t)
  BY GroupsIs DEF InState, LetterState, UrlState
<1>28. q.st = "s_chunk_data_almost_done" => InState(q, t) = s_chunk_data_almost_done(q, t)
  BY GroupsIs DEF InState, LetterState, UrlState
<1>29. q.st = "s_chunk_data_done" => InState(q, t) = s_chunk_data_done(q, t)
  BY GroupsIs DEF InState, LetterState, UrlState
<1>30. q.st = "s_body_identity" => InState(q, t) = s_body_identity(q, t)
  BY GroupsIs DEF InState, LetterState, UrlState
<1>31. q.st = "s_body_identity_eof" => InState(q, t) = s_body_identity_eof(q, t)
  BY GroupsIs DEF InState, LetterState, UrlState
<1>32. QED
  BY <1>1, <1>2, <1>3, <1>4, <1>5, <1>6, <1>7, <1>8, <1>9, <1>10, <1>11, <1>12, <1>13, <1>14,
     <1>15, <1>16, <1>17, <1>18, <1>19, <1>20, <1>21, <1>22, <1>23, <1>24, <1>25, <1>26,
     <1>27, <1>28, <1>29, <1>30, <1>31

(* The states that mark nothing, and go on to one that marks nothing.       *)
QuietState ==
  LetterState \cup VersionState
    \cup {"s_dead", "s_start_res", "s_res_first_status_code", "s_start_req", "s_req_method",
          "s_req_http_start", "s_req_line_almost_done", "s_header_almost_done"}

LEMMA PlainStates ==
  /\ QuietState \subseteq PlainState
  /\ {"s_res_status_code",
      "s_res_status_start",
      "s_req_spaces_before_url",
      "s_header_field_start",
      "s_header_value_discard_ws",
      "s_header_value_discard_lws",
      "s_header_value_lws",
      "s_headers_almost_done"} \subseteq PlainState
  /\ \A s \in State : s \in QuietState \cup UrlState \cup NameState \cup
       {"s_res_status_code",
        "s_res_status_start",
        "s_req_spaces_before_url",
        "s_header_field_start",
        "s_header_value_discard_ws",
        "s_header_value_discard_lws",
        "s_header_value_lws",
        "s_headers_almost_done",
        "s_res_status",
        "s_chunk_size_start",
        "s_chunk_size",
        "s_chunk_parameters",
        "s_chunk_size_almost_done",
        "s_chunk_data",
        "s_chunk_data_almost_done",
        "s_chunk_data_done",
        "s_body_identity",
        "s_body_identity_eof"}
BY GroupsIs
   DEF QuietState, NameState, PlainState, StartState, VersionState, LetterState, LineState,
       HeaderState

LEMMA QuietIs ==
  ASSUME NEW q, NEW t, Ready(q), q.st \in QuietState
  PROVE  /\ Plain(InState(q, t), q)
         /\ \A r : Ready(r) /\ Agree(q, r) => Agree(InState(q, t), InState(r, t))
<1>1. CASE q.st \in LetterState
  <2>1. InState(q, t) = Literal(q, t)
    BY <1>1, InStateIs
  <2>2. Plain(InState(q, t), q)
    BY <1>1, <2>1, LiteralPlain
  <2>3. ASSUME NEW r, Ready(r), Agree(q, r) PROVE Agree(InState(q, t), InState(r, t))
    <3>1. r.st = q.st
      BY <2>3 DEF Agree
    <3>2. InState(r, t) = Literal(r, t)
      BY <1>1, <3>1, InStateIs
    <3>3. QED
      BY <1>1, <2>1, <2>3, <3>2, LiteralAgree
  <2>4. QED
    BY <2>2, <2>3
<1>2. CASE q.st \in VersionState
  <2>1. InState(q, t) = Version(q, t)
    BY <1>2, InStateIs
  <2>2. Plain(InState(q, t), q)
    BY <1>2, <2>1, VersionPlain
  <2>3. ASSUME NEW r, Ready(r), Agree(q, r) PROVE Agree(InState(q, t), InState(r, t))
    <3>1. r.st = q.st
      BY <2>3 DEF Agree
    <3>2. InState(r, t) = Version(r, t)
      BY <1>2, <3>1, InStateIs
    <3>3. QED
      BY <1>2, <2>1, <2>3, <3>2, VersionAgree
  <2>4. QED
    BY <2>2, <2>3
<1>3. CASE q.st = "s_dead"
  <2>1. InState(q, t) = s_dead(q, t)
    BY <1>3, InStateIs
  <2>2. Plain(InState(q, t), q)
    BY <1>3, <2>1, DeadPlain
  <2>3. ASSUME NEW r, Ready(r), Agree(q, r) PROVE Agree(InState(q, t), InState(r, t))
    <3>1. r.st = q.st
      BY <2>3 DEF Agree
    <3>2. InState(r, t) = s_dead(r, t)
      BY <1>3, <3>1, InStateIs
    <3>3. QED
      BY <1>3, <2>1, <2>3, <3>2, DeadAgree
  <2>4. QED
    BY <2>2, <2>3
<1>4. CASE q.st = "s_start_res"
  <2>1. InState(q, t) = s_start_res(q, t)
    BY <1>4, InStateIs
  <2>2. Plain(InState(q, t), q)
    BY <1>4, <2>1, StartResPlain
  <2>3. ASSUME NEW r, Ready(r), Agree(q, r) PROVE Agree(InState(q, t), InState(r, t))
    <3>1. r.st = q.st
      BY <2>3 DEF Agree
    <3>2. InState(r, t) = s_start_res(r, t)
      BY <1>4, <3>1, InStateIs
    <3>3. QED
      BY <1>4, <2>1, <2>3, <3>2, StartResAgree
  <2>4. QED
    BY <2>2, <2>3
<1>5. CASE q.st = "s_res_first_status_code"
  <2>1. InState(q, t) = s_res_first_status_code(q, t)
    BY <1>5, InStateIs
  <2>2. Plain(InState(q, t), q)
    BY <1>5, <2>1, FirstStatusPlain
  <2>3. ASSUME NEW r, Ready(r), Agree(q, r) PROVE Agree(InState(q, t), InState(r, t))
    <3>1. r.st = q.st
      BY <2>3 DEF Agree
    <3>2. InState(r, t) = s_res_first_status_code(r, t)
      BY <1>5, <3>1, InStateIs
    <3>3. QED
      BY <1>5, <2>1, <2>3, <3>2, FirstStatusAgree
  <2>4. QED
    BY <2>2, <2>3
<1>6. CASE q.st = "s_start_req"
  <2>1. InState(q, t) = s_start_req(q, t)
    BY <1>6, InStateIs
  <2>2. Plain(InState(q, t), q)
    BY <1>6, <2>1, StartReqPlain
  <2>3. ASSUME NEW r, Ready(r), Agree(q, r) PROVE Agree(InState(q, t), InState(r, t))
    <3>1. r.st = q.st
      BY <2>3 DEF Agree
    <3>2. InState(r, t) = s_start_req(r, t)
      BY <1>6, <3>1, InStateIs
    <3>3. QED
      BY <1>6, <2>1, <2>3, <3>2, StartReqAgree
  <2>4. QED
    BY <2>2, <2>3
<1>7. CASE q.st = "s_req_method"
  <2>1. InState(q, t) = s_req_method(q, t)
    BY <1>7, InStateIs
  <2>2. Plain(InState(q, t), q)
    BY <1>7, <2>1, MethodPlain
  <2>3. ASSUME NEW r, Ready(r), Agree(q, r) PROVE Agree(InState(q, t), InState(r, t))
    <3>1. r.st = q.st
      BY <2>3 DEF Agree
    <3>2. InState(r, t) = s_req_method(r, t)
      BY <1>7, <3>1, InStateIs
    <3>3. QED
      BY <1>7, <2>1, <2>3, <3>2, MethodAgree
  <2>4. QED
    BY <2>2, <2>3
<1>8. CASE q.st = "s_req_http_start"
  <2>1. InState(q, t) = s_req_http_start(q, t)
    BY <1>8, InStateIs
  <2>2. Plain(InState(q, t), q)
    BY <1>8, <2>1, HttpStartPlain
  <2>3. ASSUME NEW r, Ready(r), Agree(q, r) PROVE Agree(InState(q, t), InState(r, t))
    <3>1. r.st = q.st
      BY <2>3 DEF Agree
    <3>2. InState(r, t) = s_req_http_start(r, t)
      BY <1>8, <3>1, InStateIs
    <3>3. QED
      BY <1>8, <2>1, <2>3, <3>2, HttpStartAgree
  <2>4. QED
    BY <2>2, <2>3
<1>9. CASE q.st = "s_req_line_almost_done"
  <2>1. InState(q, t) = s_req_line_almost_done(q, t)
    BY <1>9, InStateIs
  <2>2. Plain(InState(q, t), q)
    BY <1>9, <2>1, LineDonePlain
  <2>3. ASSUME NEW r, Ready(r), Agree(q, r) PROVE Agree(InState(q, t), InState(r, t))
    <3>1. r.st = q.st
      BY <2>3 DEF Agree
    <3>2. InState(r, t) = s_req_line_almost_done(r, t)
      BY <1>9, <3>1, InStateIs
    <3>3. QED
      BY <1>9, <2>1, <2>3, <3>2, LineDoneAgree
  <2>4. QED
    BY <2>2, <2>3
<1>10. CASE q.st = "s_header_almost_done"
  <2>1. InState(q, t) = s_header_almost_done(q, t)
    BY <1>10, InStateIs
  <2>2. Plain(InState(q, t), q)
    BY <1>10, <2>1, HeaderDonePlain
  <2>3. ASSUME NEW r, Ready(r), Agree(q, r) PROVE Agree(InState(q, t), InState(r, t))
    <3>1. r.st = q.st
      BY <2>3 DEF Agree
    <3>2. InState(r, t) = s_header_almost_done(r, t)
      BY <1>10, <3>1, InStateIs
    <3>3. QED
      BY <1>10, <2>1, <2>3, <3>2, HeaderDoneAgree
  <2>4. QED
    BY <2>2, <2>3
<1>11. QED
  BY <1>1, <1>2, <1>3, <1>4, <1>5, <1>6, <1>7, <1>8, <1>9, <1>10 DEF QuietState

LEMMA InStateGoes ==
  ASSUME NEW q, NEW t \in Bytes, Running(q), Typed(q), Looks(q)
  PROVE  /\ Goes(InState(q, t), q)
         /\ q.st \in NameState => Stays(InState(q, t), q, t)
         /\ q.st \notin NameState => InState(q, t).inner = q.inner
<1>1. CASE q.st \in QuietState
  <2>1. Clear(q) /\ Ready(q)
    BY <1>1, PlainStates, RunningClear DEF Clear, Ready
  <2>2. Plain(InState(q, t), q)
    BY <1>1, <2>1, QuietIs
  <2>3. q.st \notin NameState
    BY <1>1 DEF QuietState, NameState, LetterState, VersionState
  <2>4. QED
    BY <2>1, <2>2, <2>3, StillGoes
<1>2. CASE q.st \in UrlState
  <2>1. UrlOpen(q) /\ InState(q, t) = s_req_url(q, t)
    BY <1>2, UrlRunning, InStateIs
  <2>2. q.st \notin NameState
    BY <1>2 DEF NameState, UrlState
  <2>3. QED
    BY <2>1, <2>2, ReqUrlGoes
<1>3. CASE q.st = "s_header_field"
  BY <1>3, InStateIs, FieldGoes DEF NameState
<1>4. CASE q.st = "s_header_value"
  BY <1>4, InStateIs, ValueGoes DEF NameState
<1>5. CASE q.st = "s_res_status_code"
  <2>1. Clear(q) /\ InState(q, t) = s_res_status_code(q, t)
    BY <1>5, PlainStates, RunningClear, InStateIs
  <2>2. QED
    BY <1>5, <2>1, StatusCodeGoes DEF NameState
<1>6. CASE q.st = "s_res_status_start"
  <2>1. Clear(q) /\ InState(q, t) = s_res_status_start(q, t)
    BY <1>6, PlainStates, RunningClear, InStateIs
  <2>2. QED
    BY <1>6, <2>1, StatusStartGoes DEF NameState
<1>7. CASE q.st = "s_req_spaces_before_url"
  <2>1. Clear(q) /\ InState(q, t) = s_req_spaces_before_url(q, t)
    BY <1>7, PlainStates, RunningClear, InStateIs
  <2>2. QED
    BY <1>7, <2>1, SpacesGoes DEF NameState
<1>8. CASE q.st = "s_header_field_start"
  <2>1. Clear(q) /\ InState(q, t) = s_header_field_start(q, t)
    BY <1>8, PlainStates, RunningClear, InStateIs
  <2>2. QED
    BY <1>8, <2>1, FieldStartGoes DEF NameState
<1>9. CASE q.st = "s_header_value_discard_ws"
  <2>1. Clear(q) /\ InState(q, t) = s_header_value_discard_ws(q, t)
    BY <1>9, PlainStates, RunningClear, InStateIs
  <2>2. QED
    BY <1>9, <2>1, DiscardGoes DEF NameState
<1>10. CASE q.st = "s_header_value_discard_lws"
  <2>1. Clear(q) /\ InState(q, t) = s_header_value_discard_lws(q, t)
    BY <1>10, PlainStates, RunningClear, InStateIs
  <2>2. QED
    BY <1>10, <2>1, DiscardLwsGoes DEF NameState
<1>11. CASE q.st = "s_header_value_lws"
  <2>1. Clear(q) /\ InState(q, t) = s_header_value_lws(q, t)
    BY <1>11, PlainStates, RunningClear, InStateIs
  <2>2. QED
    BY <1>11, <2>1, LwsGoes DEF NameState
<1>12. CASE q.st = "s_headers_almost_done"
  <2>1. Clear(q) /\ InState(q, t) = s_headers_almost_done(q, t)
    BY <1>12, PlainStates, RunningClear, InStateIs
  <2>2. QED
    BY <1>12, <2>1, HeadersDoneGoes DEF NameState
<1>13. CASE q.st = "s_res_status"
  BY <1>13, InStateIs, StatusGoes DEF NameState
<1>14. CASE q.st = "s_chunk_size_start"
  BY <1>14, InStateIs, SizeStartGoes DEF NameState
<1>15. CASE q.st = "s_chunk_size"
  BY <1>15, InStateIs, SizeGoes DEF NameState
<1>16. CASE q.st = "s_chunk_parameters"
  BY <1>16, InStateIs, ParametersGoes DEF NameState
<1>17. CASE q.st = "s_chunk_size_almost_done"
  BY <1>17, InStateIs, SizeDoneGoes DEF NameState
<1>18. CASE q.st = "s_chunk_data"
  BY <1>18, InStateIs, ChunkDataGoes DEF NameState
<1>19. CASE q.st = "s_chunk_data_almost_done"
  BY <1>19, InStateIs, DataDoneGoes DEF NameState
<1>20. CASE q.st = "s_chunk_data_done"
  BY <1>20, InStateIs, NextChunkGoes DEF NameState
<1>21. CASE q.st = "s_body_identity"
  BY <1>21, InStateIs, IdentityGoes DEF NameState
<1>22. CASE q.st = "s_body_identity_eof"
  BY <1>22, InStateIs, UntilEofGoes DEF NameState
<1>23. q.st \in State
  BY DEF Running, Fits
<1>24. QED
  BY <1>1, <1>2, <1>3, <1>4, <1>5, <1>6, <1>7, <1>8, <1>9, <1>10, <1>11, <1>12, <1>13, <1>14,
     <1>15, <1>16, <1>17, <1>18, <1>19, <1>20, <1>21, <1>22, <1>23, PlainStates
     DEF NameState

LEMMA InStateMatch ==
  ASSUME NEW q, NEW r, NEW t \in Bytes, Running(q), Typed(q), Looks(q),
         Running(r), Typed(r), Looks(r), Match(q, r), IS_HEADER_CHAR(t)
  PROVE  Match(InState(q, t), InState(r, t))
<1>0. r.st = q.st
  BY DEF Match, Agree
<1>1. CASE q.st \in QuietState
  <2>1. Clear(q) /\ Ready(q) /\ Clear(r) /\ Ready(r)
    BY <1>0, <1>1, PlainStates, RunningClear DEF Clear, Ready
  <2>2. Plain(InState(q, t), q) /\ Plain(InState(r, t), r)
    BY <1>0, <1>1, <2>1, QuietIs
  <2>3. Agree(InState(q, t), InState(r, t))
    BY <1>1, <2>1, QuietIs DEF Match
  <2>4. QED
    BY <2>1, <2>2, <2>3, StillMatch DEF Plain, Clear
<1>2. CASE q.st \in UrlState
  <2>1. UrlOpen(q) /\ InState(q, t) = s_req_url(q, t)
        /\ UrlOpen(r) /\ InState(r, t) = s_req_url(r, t)
    BY <1>0, <1>2, UrlRunning, InStateIs
  <2>2. QED
    BY <2>1, ReqUrlMatch
<1>3. CASE q.st = "s_header_field"
  BY <1>0, <1>3, InStateIs, FieldMatches
<1>4. CASE q.st = "s_header_value"
  BY <1>0, <1>4, InStateIs, ValueMatches
<1>5. CASE q.st = "s_res_status_code"
  <2>1. Clear(q) /\ InState(q, t) = s_res_status_code(q, t)
        /\ Clear(r) /\ InState(r, t) = s_res_status_code(r, t)
    BY <1>0, <1>5, PlainStates, RunningClear, InStateIs
  <2>2. QED
    BY <1>5, <2>1, StatusCodeMatch
<1>6. CASE q.st = "s_res_status_start"
  <2>1. Clear(q) /\ InState(q, t) = s_res_status_start(q, t)
        /\ Clear(r) /\ InState(r, t) = s_res_status_start(r, t)
    BY <1>0, <1>6, PlainStates, RunningClear, InStateIs
  <2>2. QED
    BY <1>6, <2>1, StatusStartMatch
<1>7. CASE q.st = "s_req_spaces_before_url"
  <2>1. Clear(q) /\ InState(q, t) = s_req_spaces_before_url(q, t)
        /\ Clear(r) /\ InState(r, t) = s_req_spaces_before_url(r, t)
    BY <1>0, <1>7, PlainStates, RunningClear, InStateIs
  <2>2. QED
    BY <1>7, <2>1, SpacesMatch
<1>8. CASE q.st = "s_header_field_start"
  <2>1. Clear(q) /\ InState(q, t) = s_header_field_start(q, t)
        /\ Clear(r) /\ InState(r, t) = s_header_field_start(r, t)
    BY <1>0, <1>8, PlainStates, RunningClear, InStateIs
  <2>2. QED
    BY <1>8, <2>1, FieldStartMatch
<1>9. CASE q.st = "s_header_value_discard_ws"
  <2>1. Clear(q) /\ InState(q, t) = s_header_value_discard_ws(q, t)
        /\ Clear(r) /\ InState(r, t) = s_header_value_discard_ws(r, t)
    BY <1>0, <1>9, PlainStates, RunningClear, InStateIs
  <2>2. QED
    BY <1>9, <2>1, DiscardMatch
<1>10. CASE q.st = "s_header_value_discard_lws"
  <2>1. Clear(q) /\ InState(q, t) = s_header_value_discard_lws(q, t)
        /\ Clear(r) /\ InState(r, t) = s_header_value_discard_lws(r, t)
    BY <1>0, <1>10, PlainStates, RunningClear, InStateIs
  <2>2. QED
    BY <1>10, <2>1, DiscardLwsMatch
<1>11. CASE q.st = "s_header_value_lws"
  <2>1. Clear(q) /\ InState(q, t) = s_header_value_lws(q, t)
        /\ Clear(r) /\ InState(r, t) = s_header_value_lws(r, t)
    BY <1>0, <1>11, PlainStates, RunningClear, InStateIs
  <2>2. QED
    BY <1>11, <2>1, LwsMatch
<1>12. CASE q.st = "s_headers_almost_done"
  <2>1. Clear(q) /\ InState(q, t) = s_headers_almost_done(q, t)
        /\ Clear(r) /\ InState(r, t) = s_headers_almost_done(r, t)
    BY <1>0, <1>12, PlainStates, RunningClear, InStateIs
  <2>2. QED
    BY <1>12, <2>1, HeadersDoneMatch
<1>13. CASE q.st = "s_res_status"
  BY <1>0, <1>13, InStateIs, StatusMatch
<1>14. CASE q.st = "s_chunk_size_start"
  BY <1>0, <1>14, InStateIs, SizeStartMatch
<1>15. CASE q.st = "s_chunk_size"
  <2>1. q.st \in SizeState \cup {"s_chunk_size_start", "s_chunk_data_done"}
    BY <1>15 DEF SizeState
  <2>2. Clear(q) /\ InState(q, t) = s_chunk_size(q, t)
        /\ Clear(r) /\ InState(r, t) = s_chunk_size(r, t)
    BY <1>0, <1>15, <2>1, ChunkRunning, InStateIs
  <2>3. QED
    BY <2>2, SizeMatch
<1>16. CASE q.st = "s_chunk_parameters"
  <2>1. q.st \in SizeState \cup {"s_chunk_size_start", "s_chunk_data_done"}
    BY <1>16 DEF SizeState
  <2>2. Clear(q) /\ InState(q, t) = s_chunk_parameters(q, t)
        /\ Clear(r) /\ InState(r, t) = s_chunk_parameters(r, t)
    BY <1>0, <1>16, <2>1, ChunkRunning, InStateIs
  <2>3. QED
    BY <2>2, ParametersMatch
<1>17. CASE q.st = "s_chunk_size_almost_done"
  <2>1. q.st \in SizeState \cup {"s_chunk_size_start", "s_chunk_data_done"}
    BY <1>17 DEF SizeState
  <2>2. Clear(q) /\ InState(q, t) = s_chunk_size_almost_done(q, t)
        /\ Clear(r) /\ InState(r, t) = s_chunk_size_almost_done(r, t)
    BY <1>0, <1>17, <2>1, ChunkRunning, InStateIs
  <2>3. QED
    BY <2>2, SizeDoneMatch
<1>18. CASE q.st = "s_chunk_data"
  BY <1>0, <1>18, InStateIs, ChunkDataMatch
<1>19. CASE q.st = "s_chunk_data_almost_done"
  BY <1>0, <1>19, InStateIs, DataDoneMatch
<1>20. CASE q.st = "s_chunk_data_done"
  <2>1. q.st \in SizeState \cup {"s_chunk_size_start", "s_chunk_data_done"}
    BY <1>20 DEF SizeState
  <2>2. Clear(q) /\ InState(q, t) = s_chunk_data_done(q, t)
        /\ Clear(r) /\ InState(r, t) = s_chunk_data_done(r, t)
    BY <1>0, <1>20, <2>1, ChunkRunning, InStateIs
  <2>3. QED
    BY <2>2, NextChunkMatch
<1>21. CASE q.st = "s_body_identity"
  BY <1>0, <1>21, InStateIs, IdentityMatch
<1>22. CASE q.st = "s_body_identity_eof"
  BY <1>0, <1>22, InStateIs, UntilEofMatch
<1>23. q.st \in State
  BY DEF Running, Fits
<1>24. QED
  BY <1>1, <1>2, <1>3, <1>4, <1>5, <1>6, <1>7, <1>8, <1>9, <1>10, <1>11, <1>12, <1>13, <1>14,
     <1>15, <1>16, <1>17, <1>18, <1>19, <1>20, <1>21, <1>22, <1>23, PlainStates
     DEF NameState

-------------------------------------------------------------------------------
(* Where a parser can be inside a name or a value, and what is relied on of *)
(* one between two bytes.                                                   *)
InnerFits(q) ==
  /\ q.inner \in {"no", "yes", "skip"}
  /\ q.inner # "no" => q.st \in NameState
  /\ q.inner = "skip" => q.st = "s_header_value" /\ q.hs = "h_general"

Valid(q) ==
  /\ Sound(q)
  /\ q.errno = "OK" => Typed(q) /\ InnerFits(q)
  /\ q.errno # "OK" => Buf(q) \in BufOf

LEMMA MarkKinds ==
  ASSUME NEW s
  PROVE  \/ s \in BodyState /\ MarksOf(s) = {"body"}
         \/ s \notin BodyState /\ MarksOf(s) = {}
         \/ s \notin BodyState /\ \E m \in Mark \ {"body"} : MarksOf(s) = {m}
<1>1. CASE s = "s_header_field"
  BY <1>1 DEF MarksOf, Mark, BodyState
<1>2. CASE s = "s_header_value"
  BY <1>2 DEF MarksOf, Mark, BodyState
<1>3. CASE s \in UrlState
  BY <1>3 DEF MarksOf, Mark, BodyState, UrlState
<1>4. CASE s = "s_res_status"
  BY <1>4 DEF MarksOf, Mark, BodyState, UrlState
<1>5. CASE s \in BodyState
  BY <1>5, MarksIs
<1>6. CASE s \notin {"s_header_field", "s_header_value", "s_res_status"}
                   \cup UrlState \cup BodyState
  BY <1>6 DEF MarksOf
<1>7. QED
  BY <1>1, <1>2, <1>3, <1>4, <1>5, <1>6

Took(y, x, q) ==
  /\ Record(y) /\ y.st = x.st /\ y.marks = x.marks /\ y.errno = x.errno /\ y.hs = x.hs
  /\ y.len = x.len /\ y.flags = x.flags /\ y.nread = x.nread /\ y.some = x.some
  /\ y.type = x.type /\ y.exit = x.exit /\ Agree(y, x) /\ Buf(y) = Buf(x)
  /\ y.inner = IF x.st = q.st THEN x.inner ELSE "no"

LEMMA TakenRecord ==
  ASSUME NEW x, NEW q, NEW t, Record(x)
  PROVE  /\ Took(Taken(x, q, t), x, q)
         /\ Taken(x, q, t).text = [m \in Mark |-> Held(x, q, t, m)]
BY DEF Taken, Took, Record, Fields, Agree, Buf

LEMMA HeldOpen ==
  ASSUME NEW x, NEW q, NEW t \in Bytes, Typed(x), Typed(q), NEW m \in Mark, m \in x.marks,
         Len(x.text[m]) <= Len(q.text[m])
  PROVE  Held(x, q, t, m) = x.text[m] \o <<t>>
<1>1. x.text[m] \in Seq(Bytes) /\ q.text[m] \in Seq(Bytes)
  BY DEF Typed
<1>2. PICK a \in Seq(Bytes) : a = x.text[m]
  BY <1>1
<1>3. PICK b \in Seq(Bytes) : b = q.text[m]
  BY <1>1
<1>4. Len(a) \in Nat /\ Len(b) \in Nat
  OBVIOUS
<1>5. ~(Len(a) > Len(b))
  BY <1>2, <1>3, <1>4
<1>6. Held(x, q, t, m) = Append(a, t)
  BY <1>2, <1>3, <1>5 DEF Held
<1>7. Append(a, t) = a \o <<t>>
  BY AppendIs
<1>8. QED
  BY <1>2, <1>6, <1>7

LEMMA HeldIn ==
  ASSUME NEW x, NEW q, NEW t \in Bytes, Typed(x), NEW m \in Mark
  PROVE  Held(x, q, t, m) \in Seq(Bytes) /\ (m \notin x.marks => Held(x, q, t, m) = <<>>)
<1>1. PICK a \in Seq(Bytes) : a = x.text[m]
  BY DEF Typed
<1>2. Append(a, t) \in Seq(Bytes)
  BY AppendIs
<1>3. <<>> \in Seq(Bytes)
  OBVIOUS
<1>4. CASE m \notin x.marks
  BY <1>3, <1>4 DEF Held
<1>5. CASE m \in x.marks
  BY <1>1, <1>2, <1>5 DEF Held
<1>6. QED
  BY <1>4, <1>5

LEMMA HeldGrown ==
  ASSUME NEW x, NEW q, NEW t, NEW m, m \in x.marks, Len(x.text[m]) > Len(q.text[m])
  PROVE  Held(x, q, t, m) = x.text[m]
BY DEF Held

LEMMA TakenTyped ==
  ASSUME NEW x, NEW q, NEW t \in Bytes, Record(x), Typed(x), Typed(q)
  PROVE  Typed(Taken(x, q, t))
<1>1. PICK y : y = Taken(x, q, t)
  OBVIOUS
<1>2. y.text = [m \in Mark |-> Held(x, q, t, m)] /\ Buf(y) = Buf(x) /\ y.nread = x.nread
      /\ y.marks = x.marks
  BY <1>1, TakenRecord DEF Took
<1>3. \A m \in Mark : Held(x, q, t, m) \in Seq(Bytes)
  BY HeldIn
<1>4. \A m \in Mark : m \notin x.marks => Held(x, q, t, m) = <<>>
  BY HeldIn
<1>5. y.text \in [Mark -> Seq(Bytes)] /\ \A m \in Mark : y.text[m] = Held(x, q, t, m)
  BY <1>2, <1>3
<1>6. Typed(y)
  BY <1>2, <1>4, <1>5 DEF Typed
<1>7. QED
  BY <1>1, <1>6

LEMMA TakenData ==
  ASSUME NEW x, NEW q, NEW t \in Bytes, Record(x), Typed(x), Typed(q), Texts(x, q), Fits(x)
  PROVE  LET y == Taken(x, q, t)
         IN /\ x.type = "REQUEST" \/ x.st \in BodyState \/ MarksOf(x.st) = {} => Data(y) = Data(x)
            /\ \A m \in Mark : x.type # "REQUEST" /\ x.st \notin BodyState /\ MarksOf(x.st) = {m} =>
                 Data(y) = Put(Data(x), m, <<t>>)
<1>1. PICK y : y = Taken(x, q, t)
  OBVIOUS
<1>2. /\ y.text = [m \in Mark |-> Held(x, q, t, m)] /\ Buf(y) = Buf(x) /\ y.type = x.type
      /\ y.marks = x.marks
  BY <1>1, TakenRecord DEF Took
<1>3. ASSUME x.type = "REQUEST" \/ x.marks = {} PROVE Data(y) = Data(x)
  BY <1>2, <1>3 DEF Data
<1>4. x.marks \subseteq MarksOf(x.st) /\ (x.st \notin BodyState => x.marks = MarksOf(x.st))
  BY DEF Fits
<1>5. ASSUME x.st \in BodyState, x.marks # {}, x.type # "REQUEST" PROVE Data(y) = Data(x)
  <2>1. MarksOf(x.st) = {"body"} /\ "body" \in Mark
    BY <1>5, MarksIs DEF Mark
  <2>2. x.marks = {"body"}
    BY <1>4, <1>5, <2>1
  <2>3. Len(x.text["body"]) > Len(q.text["body"])
    BY <2>2 DEF Texts
  <2>4. Held(x, q, t, "body") = x.text["body"]
    BY <2>2, <2>3, HeldGrown
  <2>5. y.text["body"] = x.text["body"]
    BY <1>2, <2>1, <2>4
  <2>6. Data(x) = Put(Buf(x), "body", x.text["body"])
    BY <1>5, <2>1, <2>2, DataIs
  <2>7. y.marks = {"body"} /\ y.type # "REQUEST" /\ Buf(y) = Buf(x)
    BY <1>2, <1>5, <2>2
  <2>8. Data(y) = Put(Buf(y), "body", y.text["body"])
    BY <2>1, <2>7, DataIs
  <2>9. QED
    BY <2>5, <2>6, <2>7, <2>8
<1>6. ASSUME NEW m \in Mark, x.type # "REQUEST", x.st \notin BodyState, MarksOf(x.st) = {m}
      PROVE  Data(y) = Put(Data(x), m, <<t>>)
  <2>1. x.marks = {m}
    BY <1>4, <1>6
  <2>2. m # "body"
    BY <1>6, MarkKinds
  <2>3. Len(x.text[m]) <= Len(q.text[m])
    BY <2>1, <2>2 DEF Texts
  <2>4. Held(x, q, t, m) = x.text[m] \o <<t>>
    BY <2>1, <2>3, HeldOpen
  <2>5. y.text[m] = x.text[m] \o <<t>>
    BY <1>2, <2>4
  <2>6. Data(x) = Put(Buf(x), m, x.text[m])
    BY <1>6, <2>1, DataIs
  <2>7. Data(y) = Put(Buf(x), m, x.text[m] \o <<t>>)
    <3>1. y.marks = {m} /\ y.type # "REQUEST" /\ Buf(y) = Buf(x)
      BY <1>2, <1>6, <2>1
    <3>2. Data(y) = Put(Buf(y), m, y.text[m])
      BY <3>1, DataIs
    <3>3. QED
      BY <2>5, <3>1, <3>2
  <2>8. Buf(x) \in BufOf /\ x.text[m] \in Seq(Bytes)
    BY DEF Typed
  <2>9. <<t>> \in Seq(Bytes)
    OBVIOUS
  <2>10. QED
    BY <2>6, <2>7, <2>8, <2>9, PutPut
<1>7. x.type = "REQUEST" \/ x.st \in BodyState \/ MarksOf(x.st) = {} => Data(y) = Data(x)
  BY <1>1, <1>3, <1>4, <1>5
<1>8. QED
  BY <1>1, <1>6, <1>7

(* Two parsers that took the same byte still match.                         *)
LEMMA TakenMatches ==
  ASSUME NEW x, NEW q, NEW a, NEW b, NEW t \in Bytes,
         Record(x), Record(a), Match(x, a),
         x.errno = "OK" => Typed(x) /\ Typed(q) /\ Texts(x, q) /\ Fits(x),
         a.errno = "OK" => Typed(a) /\ Typed(b) /\ Texts(a, b) /\ Fits(a)
  PROVE  Match(Taken(x, q, t), Taken(a, b, t))
<1>1. PICK y : y = Taken(x, q, t)
  OBVIOUS
<1>2. PICK c : c = Taken(a, b, t)
  OBVIOUS
<1>3. /\ Agree(y, x) /\ y.nread = x.nread /\ y.errno = x.errno
      /\ Agree(c, a) /\ c.nread = a.nread
  <2>1. Took(y, x, q)
    BY <1>1, TakenRecord
  <2>2. Took(c, a, b)
    BY <1>2, TakenRecord
  <2>3. QED
    BY <2>1, <2>2 DEF Took
<1>4. Agree(x, a)
  BY DEF Match
<1>5. Agree(y, c)
  BY <1>3, <1>4 DEF Agree
<1>6. x.errno = "OK" => Data(y) = Data(c)
  <2>1. SUFFICES ASSUME x.errno = "OK" PROVE Data(y) = Data(c)
    OBVIOUS
  <2>2. a.errno = "OK" /\ x.st = a.st /\ x.type = a.type /\ Data(x) = Data(a)
    BY <1>4, <2>1 DEF Agree, Match
  <2>3. CASE x.type = "REQUEST" \/ x.st \in BodyState \/ MarksOf(x.st) = {}
    BY <1>1, <1>2, <2>1, <2>2, <2>3, TakenData
  <2>4. CASE ~(x.type = "REQUEST" \/ x.st \in BodyState \/ MarksOf(x.st) = {})
    <3>1. PICK m \in Mark : MarksOf(x.st) = {m}
      BY <2>4, MarkKinds
    <3>2. Data(y) = Put(Data(x), m, <<t>>)
      BY <1>1, <2>1, <2>4, <3>1, TakenData
    <3>3. Data(c) = Put(Data(a), m, <<t>>)
      BY <1>2, <2>2, <2>4, <3>1, TakenData
    <3>4. QED
      BY <2>2, <3>2, <3>3
  <2>5. QED
    BY <2>3, <2>4
<1>7. x.errno = "OK" => a.nread <= x.nread /\ x.nread <= 2 * a.nread
  BY DEF Match
<1>8. QED
  BY <1>1, <1>2, <1>3, <1>5, <1>6, <1>7 DEF Match

-------------------------------------------------------------------------------
(* A byte is counted, taken, and added to what is marked.                   *)
Counting(q, t) == [q EXCEPT !.nread = @ + Counted(q, t), !.some = TRUE]

Overflows(q, t) == Counted(q, t) > 0 /\ Counting(q, t).nread > MaxHeader

Stepped(q, t) ==
  IF Overflows(q, t) THEN Fail(Counting(q, t), "HEADER_OVERFLOW") ELSE InState(Counting(q, t), t)

LEMMA FeedIs ==
  ASSUME NEW q, NEW t
  PROVE  Feed(q, t) = Taken(Stepped(q, t), q, t)
BY DEF Feed, Stepped, Overflows, Counting

LEMMA CountedIs ==
  ASSUME NEW q, NEW t
  PROVE  /\ q.st \notin NameState => Counted(q, t) = IF PARSING_HEADER(q.st) THEN 1 ELSE 0
         /\ q.st \in NameState /\ q.inner = "no" => Counted(q, t) = IF Ends(q.st, t) THEN 1 ELSE 2
         /\ q.st \in NameState /\ q.inner # "no" => Counted(q, t) = IF Ends(q.st, t) THEN 0 ELSE 1
         /\ Counted(q, t) \in 0 .. 2
<1>1. \A s \in NameState : PARSING_HEADER(s)
  BY DEF NameState, PARSING_HEADER
<1>2. CASE q.st \notin NameState
  BY <1>2 DEF Counted, NameState
<1>3. CASE q.st = "s_header_field"
  BY <1>1, <1>3 DEF Counted, NameState, Ends
<1>4. CASE q.st = "s_header_value"
  BY <1>1, <1>4 DEF Counted, NameState, Ends
<1>5. QED
  BY <1>2, <1>3, <1>4 DEF NameState

LEMMA CountingIs ==
  ASSUME NEW q, NEW t, Valid(q), q.errno = "OK"
  PROVE  LET n == Counting(q, t)
         IN /\ Running(n) /\ Typed(n) /\ Looks(n) /\ n.text = q.text /\ n.st = q.st
            /\ n.inner = q.inner /\ n.nread = q.nread + Counted(q, t) /\ n.some = TRUE
            /\ Agree(n, q) /\ Data(n) = Data(q) /\ n.nread \in Nat
<1>1. PICK n : n = Counting(q, t)
  OBVIOUS
<1>2. Record(q) /\ Fits(q) /\ Typed(q) /\ InnerFits(q) /\ q.nread \in Nat
  BY DEF Valid, Sound, Typed
<1>3. Counted(q, t) \in 0 .. 2
  BY CountedIs
<1>4. PICK k \in 0 .. 2 : k = Counted(q, t)
  BY <1>3
<1>5. /\ Record(n) /\ n.text = q.text /\ n.st = q.st /\ n.inner = q.inner /\ n.nread = q.nread + k
      /\ n.some = TRUE /\ Agree(n, q) /\ n.marks = q.marks /\ n.hs = q.hs /\ n.len = q.len
      /\ n.flags = q.flags /\ Buf(n) = Buf(q) /\ n.type = q.type /\ n.errno = "OK"
  BY <1>1, <1>2, <1>4 DEF Counting, Record, Fields, Agree, Buf
<1>6. n.nread \in Nat
  BY <1>2, <1>5
<1>7. Typed(n) /\ Data(n) = Data(q)
  BY <1>2, <1>5, <1>6 DEF Typed, Data
<1>8. Fits(n)
  BY <1>2, <1>5 DEF Fits, Lengths
<1>9. n.st = "s_chunk_size_start" => n.nread = 1
  <2>1. SUFFICES ASSUME n.st = "s_chunk_size_start" PROVE n.nread = 1
    OBVIOUS
  <2>2. q.nread = 0
    BY <1>5, <2>1 DEF Valid, Sound
  <2>3. k = 1
    BY <1>4, <1>5, <2>1, CountedIs DEF NameState, PARSING_HEADER
  <2>4. QED
    BY <1>5, <2>2, <2>3
<1>10. Looks(n)
  BY <1>2, <1>5 DEF Looks, InnerFits
<1>11. QED
  BY <1>1, <1>4, <1>5, <1>6, <1>7, <1>8, <1>9, <1>10 DEF Running

LEMMA SteppedGoes ==
  ASSUME NEW q, NEW t \in Bytes, Valid(q), q.errno = "OK"
  PROVE  LET x == Stepped(q, t)
             n == Counting(q, t)
         IN /\ Goes(x, n)
            /\ x.errno = "OK" /\ q.st \in NameState => Stays(x, n, t)
            /\ x.errno = "OK" /\ q.st \notin NameState => x.inner = "no"
<1>1. PICK n : n = Counting(q, t)
  OBVIOUS
<1>2. Running(n) /\ Typed(n) /\ Looks(n) /\ n.st = q.st /\ n.inner = q.inner
  BY <1>1, CountingIs
<1>3. CASE Overflows(q, t)
  <2>1. q.st # "s_body_identity_eof"
    BY <1>3, CountedIs DEF Overflows, NameState, PARSING_HEADER
  <2>2. Goes(Fail(n, "HEADER_OVERFLOW"), n)
    BY <1>2, <2>1, FailGoes DEF Running
  <2>3. Fail(n, "HEADER_OVERFLOW").errno = "HEADER_OVERFLOW"
    BY <1>2 DEF Fail, Running, Record, Fields
  <2>4. QED
    BY <1>1, <1>3, <2>2, <2>3 DEF Stepped
<1>4. CASE ~Overflows(q, t)
  <2>1. /\ Goes(InState(n, t), n)
        /\ q.st \in NameState => Stays(InState(n, t), n, t)
        /\ q.st \notin NameState => InState(n, t).inner = n.inner
    BY <1>2, InStateGoes
  <2>2. q.st \notin NameState => n.inner = "no"
    BY <1>2 DEF Valid, InnerFits
  <2>3. QED
    BY <1>1, <1>4, <2>1, <2>2 DEF Stepped
<1>5. QED
  BY <1>3, <1>4

LEMMA FeedValid ==
  ASSUME NEW q, NEW t \in Bytes, Valid(q), q.errno = "OK"
  PROVE  Valid(Feed(q, t)) /\ Feed(q, t).some = TRUE
<1>1. PICK n : n = Counting(q, t)
  OBVIOUS
<1>2. PICK x : x = Stepped(q, t)
  OBVIOUS
<1>3. PICK y : y = Taken(x, q, t)
  OBVIOUS
<1>4. n.text = q.text /\ n.some = TRUE /\ Typed(q)
  BY <1>1, CountingIs DEF Valid
<1>5. /\ Goes(x, n)
      /\ x.errno = "OK" /\ q.st \in NameState => Stays(x, n, t)
      /\ x.errno = "OK" /\ q.st \notin NameState => x.inner = "no"
  BY <1>1, <1>2, SteppedGoes
<1>6. Record(x) /\ x.some = TRUE
  BY <1>4, <1>5 DEF Goes, Sound
<1>7. Took(y, x, q)
  BY <1>3, <1>6, TakenRecord
<1>8. Sound(y)
  BY <1>5, <1>7 DEF Goes, Sound, Took, Fits, Lengths
<1>9. ASSUME x.errno = "OK" PROVE Typed(y) /\ InnerFits(y)
  <2>1. Typed(x)
    BY <1>5, <1>9 DEF Goes
  <2>2. Typed(y)
    BY <1>3, <1>4, <1>6, <2>1, TakenTyped
  <2>3. InnerFits(y)
    <3>1. CASE x.st # q.st
      BY <1>7, <3>1 DEF Took, InnerFits
    <3>2. CASE x.st = q.st /\ q.st \notin NameState
      BY <1>5, <1>7, <1>9, <3>2 DEF Took, InnerFits
    <3>3. CASE x.st = q.st /\ q.st \in NameState
      <4>1. n.st = q.st
        BY <1>1, CountingIs
      <4>2. /\ x.inner \in {"yes", "skip"}
            /\ x.inner = "skip" => q.st = "s_header_value" /\ x.hs = "h_general"
        BY <1>5, <1>9, <3>3, <4>1 DEF Stays
      <4>3. QED
        BY <1>7, <3>3, <4>2 DEF Took, InnerFits
    <3>4. QED
      BY <3>1, <3>2, <3>3
  <2>4. QED
    BY <2>2, <2>3
<1>10. Valid(y) /\ y.some = TRUE
  <2>1. y.errno = x.errno /\ y.some = x.some /\ Buf(y) = Buf(x)
    BY <1>7 DEF Took
  <2>2. CASE x.errno # "OK"
    BY <1>5, <1>6, <1>8, <2>1, <2>2 DEF Valid, Goes
  <2>3. CASE x.errno = "OK"
    BY <1>6, <1>8, <1>9, <2>1, <2>3 DEF Valid
  <2>4. QED
    BY <2>2, <2>3
<1>11. QED
  BY <1>2, <1>3, <1>10, FeedIs

-------------------------------------------------------------------------------
(* The parser whose reads are cut, and the one whose are not.  Each counts  *)
(* one byte more at the start of a run of bytes of a name or value (inner), *)
(* the cut one again after each cut.  Inside a run the other one has already*)
(* counted that byte twice, so that the next cut leaves the cut one within  *)
(* twice its count.                                                         *)
Slack(q, r) ==
  /\ r.inner = "no" => q.inner = "no"
  /\ r.inner # "no" => q.nread + 1 <= 2 * r.nread

(* The cut parser has come to the limit before the other one.               *)
Refuses(q, r) == q.errno = "HEADER_OVERFLOW" /\ (r.nread = 0 \/ 2 * r.nread > MaxHeader)

Together(q, r) == Match(q, r) /\ (q.errno = "OK" => Slack(q, r))

LEMMA CountsKeep ==
  ASSUME NEW q, NEW r, NEW t, Valid(q), Valid(r), Together(q, r), q.errno = "OK"
  PROVE  LET n == q.nread + Counted(q, t)
             k == r.nread + Counted(r, t)
         IN /\ Counted(r, t) <= Counted(q, t) /\ k <= n /\ n <= 2 * k
            /\ q.st \in NameState /\ ~Ends(q.st, t) => n + 1 <= 2 * k
<1>1. q.st = r.st /\ r.errno = "OK"
  BY DEF Together, Match, Agree
<1>2. q.nread \in Nat /\ r.nread \in Nat
  BY <1>1 DEF Valid, Typed
<1>3. PICK a \in Nat : a = q.nread
  BY <1>2
<1>4. PICK b \in Nat : b = r.nread
  BY <1>2
<1>5. b <= a /\ a <= 2 * b
  BY <1>3, <1>4 DEF Together, Match
<1>6. PICK c \in 0 .. 2 : c = Counted(q, t)
  BY CountedIs
<1>7. PICK d \in 0 .. 2 : d = Counted(r, t)
  BY CountedIs
<1>8. CASE q.st \notin NameState
  <2>1. c = d
    BY <1>1, <1>6, <1>7, <1>8, CountedIs
  <2>2. d <= c /\ b + d <= a + c /\ a + c <= 2 * (b + d)
    BY <1>5, <2>1
  <2>3. QED
    BY <1>3, <1>4, <1>6, <1>7, <1>8, <2>2
<1>9. CASE q.st \in NameState /\ r.inner = "no"
  <2>1. q.inner = "no"
    BY <1>9 DEF Together, Slack
  <2>2. c = d /\ c = IF Ends(q.st, t) THEN 1 ELSE 2
    BY <1>1, <1>6, <1>7, <1>9, <2>1, CountedIs
  <2>3. /\ d <= c /\ b + d <= a + c /\ a + c <= 2 * (b + d)
        /\ ~Ends(q.st, t) => a + c + 1 <= 2 * (b + d)
    BY <1>5, <2>2
  <2>4. QED
    BY <1>3, <1>4, <1>6, <1>7, <2>3
<1>10. CASE q.st \in NameState /\ r.inner # "no"
  <2>1. a + 1 <= 2 * b
    BY <1>3, <1>4, <1>10 DEF Together, Slack
  <2>2. d = IF Ends(q.st, t) THEN 0 ELSE 1
    BY <1>1, <1>7, <1>10, CountedIs
  <2>3. c = d \/ c = d + 1
    <3>1. CASE q.inner = "no"
      BY <1>6, <1>10, <2>2, <3>1, CountedIs
    <3>2. CASE q.inner # "no"
      BY <1>6, <1>10, <2>2, <3>2, CountedIs
    <3>3. QED
      BY <3>1, <3>2
  <2>4. /\ d <= c /\ b + d <= a + c /\ a + c <= 2 * (b + d)
        /\ ~Ends(q.st, t) => a + c + 1 <= 2 * (b + d)
    BY <1>5, <2>1, <2>2, <2>3
  <2>5. QED
    BY <1>3, <1>4, <1>6, <1>7, <2>4
<1>11. QED
  BY <1>8, <1>9, <1>10

LEMMA CountingMatch ==
  ASSUME NEW q, NEW r, NEW t, Valid(q), Valid(r), Together(q, r), q.errno = "OK"
  PROVE  Match(Counting(q, t), Counting(r, t))
<1>1. PICK a : a = Counting(q, t)
  OBVIOUS
<1>2. PICK b : b = Counting(r, t)
  OBVIOUS
<1>3. r.errno = "OK" /\ Data(q) = Data(r) /\ Agree(q, r)
  BY DEF Together, Match, Agree
<1>4. Agree(a, q) /\ Data(a) = Data(q) /\ a.nread = q.nread + Counted(q, t)
  BY <1>1, CountingIs
<1>5. Agree(b, r) /\ Data(b) = Data(r) /\ b.nread = r.nread + Counted(r, t)
  BY <1>2, <1>3, CountingIs
<1>6. b.nread <= a.nread /\ a.nread <= 2 * b.nread
  BY <1>4, <1>5, CountsKeep
<1>7. Agree(a, b)
  BY <1>3, <1>4, <1>5 DEF Agree
<1>8. QED
  BY <1>1, <1>2, <1>3, <1>4, <1>5, <1>6, <1>7 DEF Match

(* What is left of q.inner tells whether the byte stayed in the name or     *)
(* value it was in.                                                         *)
LEMMA InnerIsKept ==
  ASSUME NEW q, NEW t \in Bytes, Valid(q), q.errno = "OK", Stepped(q, t).errno = "OK"
  PROVE  LET y == Feed(q, t)
         IN /\ y.st = Stepped(q, t).st /\ y.nread = Stepped(q, t).nread
            /\ y.inner # "no" <=> q.st \in NameState /\ y.st = q.st
            /\ y.inner # "no" => ~Ends(q.st, t) /\ y.nread = q.nread + Counted(q, t)
<1>1. PICK n : n = Counting(q, t)
  OBVIOUS
<1>2. PICK x : x = Stepped(q, t)
  OBVIOUS
<1>3. PICK y : y = Feed(q, t)
  OBVIOUS
<1>4. n.nread = q.nread + Counted(q, t) /\ n.st = q.st
  BY <1>1, CountingIs
<1>5. /\ Goes(x, n)
      /\ q.st \in NameState => Stays(x, n, t)
      /\ q.st \notin NameState => x.inner = "no"
  BY <1>1, <1>2, SteppedGoes
<1>6. Record(x)
  BY <1>5 DEF Goes, Sound
<1>7. Took(y, x, q)
  BY <1>2, <1>3, <1>6, TakenRecord, FeedIs
<1>8. y.st = x.st /\ y.nread = x.nread /\ y.inner = IF x.st = q.st THEN x.inner ELSE "no"
  BY <1>7 DEF Took
<1>9. q.st \in NameState /\ x.st = q.st =>
        x.inner # "no" /\ ~Ends(q.st, t) /\ x.nread = n.nread
  BY <1>2, <1>4, <1>5 DEF Stays
<1>10. QED
  BY <1>2, <1>3, <1>4, <1>5, <1>8, <1>9

LEMMA FeedMatch ==
  ASSUME NEW q, NEW r, NEW t \in Bytes, Valid(q), Valid(r), Together(q, r), q.errno = "OK",
         IS_HEADER_CHAR(t)
  PROVE  Together(Feed(q, t), Feed(r, t)) \/ Refuses(Feed(q, t), Feed(r, t))
<1>1. PICK n : n = Counting(q, t)
  OBVIOUS
<1>2. PICK k : k = Counting(r, t)
  OBVIOUS
<1>3. PICK x : x = Stepped(q, t)
  OBVIOUS
<1>4. PICK a : a = Stepped(r, t)
  OBVIOUS
<1>5. r.errno = "OK" /\ r.st = q.st
  BY DEF Together, Match, Agree
<1>6. /\ Running(n) /\ Typed(n) /\ Looks(n) /\ n.text = q.text /\ n.nread \in Nat
      /\ n.nread = q.nread + Counted(q, t)
  BY <1>1, CountingIs
<1>7. /\ Running(k) /\ Typed(k) /\ Looks(k) /\ k.text = r.text /\ k.nread \in Nat
      /\ k.nread = r.nread + Counted(r, t)
  BY <1>2, <1>5, CountingIs
<1>8. Match(n, k)
  BY <1>1, <1>2, CountingMatch
<1>9. Goes(x, n) /\ Goes(a, k)
  BY <1>1, <1>2, <1>3, <1>4, <1>5, SteppedGoes
<1>10. k.nread <= n.nread /\ n.nread <= 2 * k.nread /\ Counted(r, t) <= Counted(q, t)
  BY <1>6, <1>7, CountsKeep
<1>11. Counted(q, t) \in 0 .. 2 /\ Counted(r, t) \in 0 .. 2 /\ MaxHeader \in Nat
  BY CountedIs, ParserAssumption
<1>12. Record(x) /\ Record(a)
  BY <1>9 DEF Goes, Sound
<1>13. Took(Feed(q, t), x, q) /\ Took(Feed(r, t), a, r)
  BY <1>3, <1>4, <1>12, TakenRecord, FeedIs
<1>14. /\ x.errno = "OK" => Typed(x) /\ Typed(q) /\ Texts(x, q) /\ Fits(x)
       /\ a.errno = "OK" => Typed(a) /\ Typed(r) /\ Texts(a, r) /\ Fits(a)
  <2>1. Typed(q) /\ Typed(r)
    BY <1>5 DEF Valid
  <2>2. x.errno = "OK" => Typed(x) /\ Texts(x, q) /\ Fits(x)
    BY <1>6, <1>9 DEF Goes, Sound, Texts
  <2>3. a.errno = "OK" => Typed(a) /\ Texts(a, r) /\ Fits(a)
    BY <1>7, <1>9 DEF Goes, Sound, Texts
  <2>4. QED
    BY <2>1, <2>2, <2>3
<1>15. CASE Match(x, a)
  <2>1. Match(Feed(q, t), Feed(r, t))
    BY <1>3, <1>4, <1>12, <1>14, <1>15, TakenMatches, FeedIs
  <2>2. ASSUME Feed(q, t).errno = "OK" PROVE Slack(Feed(q, t), Feed(r, t))
    <3>1. x.errno = "OK" /\ a.errno = "OK" /\ x.st = a.st
      BY <1>13, <1>15, <2>2 DEF Took, Match, Agree
    <3>2. PICK y : y = Feed(q, t)
      OBVIOUS
    <3>3. PICK z : z = Feed(r, t)
      OBVIOUS
    <3>4. /\ y.st = x.st /\ (y.inner # "no" <=> q.st \in NameState /\ y.st = q.st)
          /\ y.inner # "no" => ~Ends(q.st, t) /\ y.nread = n.nread
      BY <1>3, <1>6, <3>1, <3>2, InnerIsKept
    <3>5. /\ z.st = a.st /\ (z.inner # "no" <=> r.st \in NameState /\ z.st = r.st)
          /\ z.inner # "no" => ~Ends(r.st, t) /\ z.nread = k.nread
      BY <1>4, <1>5, <1>7, <3>1, <3>3, InnerIsKept
    <3>6. z.inner # "no" <=> y.inner # "no"
      BY <1>5, <3>1, <3>4, <3>5
    <3>7. ASSUME z.inner # "no" PROVE y.nread + 1 <= 2 * z.nread
      <4>1. q.st \in NameState /\ ~Ends(q.st, t) /\ y.nread = n.nread /\ z.nread = k.nread
        BY <3>4, <3>5, <3>6, <3>7
      <4>2. n.nread + 1 <= 2 * k.nread
        BY <1>6, <1>7, <4>1, CountsKeep
      <4>3. QED
        BY <4>1, <4>2
    <3>8. QED
      BY <3>2, <3>3, <3>6, <3>7 DEF Slack
  <2>3. QED
    BY <2>1, <2>2 DEF Together
<1>16. CASE Overflows(r, t)
  <2>1. Overflows(q, t)
    <3>1. Counted(r, t) > 0 /\ k.nread > MaxHeader
      BY <1>2, <1>16 DEF Overflows
    <3>2. Counted(q, t) > 0 /\ n.nread > MaxHeader
      BY <1>6, <1>7, <1>10, <1>11, <3>1
    <3>3. QED
      BY <1>1, <3>2 DEF Overflows
  <2>2. x = Fail(n, "HEADER_OVERFLOW") /\ a = Fail(k, "HEADER_OVERFLOW")
    BY <1>1, <1>2, <1>3, <1>4, <1>16, <2>1 DEF Stepped
  <2>3. Match(x, a)
    BY <1>6, <1>7, <1>8, <2>2, FailMatch DEF Match, Running
  <2>4. QED
    BY <1>15, <2>3
<1>17. CASE ~Overflows(r, t) /\ ~Overflows(q, t)
  <2>1. x = InState(n, t) /\ a = InState(k, t)
    BY <1>1, <1>2, <1>3, <1>4, <1>17 DEF Stepped
  <2>2. Match(x, a)
    BY <1>6, <1>7, <1>8, <2>1, InStateMatch
  <2>3. QED
    BY <1>15, <2>2
<1>18. CASE ~Overflows(r, t) /\ Overflows(q, t)
  <2>1. x = Fail(n, "HEADER_OVERFLOW")
    BY <1>1, <1>3, <1>18 DEF Stepped
  <2>2. x.errno = "HEADER_OVERFLOW"
    BY <1>6, <2>1 DEF Fail, Running, Record, Fields
  <2>3. Feed(q, t).errno = "HEADER_OVERFLOW" /\ Feed(r, t).nread = a.nread
    BY <1>13, <2>2 DEF Took
  <2>4. a.nread \in {k.nread, 0}
    BY <1>9 DEF Goes
  <2>5. n.nread > MaxHeader
    BY <1>1, <1>18 DEF Overflows
  <2>6. 2 * k.nread > MaxHeader
    BY <1>6, <1>7, <1>10, <1>11, <2>5
  <2>7. QED
    BY <2>3, <2>4, <2>6 DEF Refuses
<1>19. QED
  BY <1>16, <1>17, <1>18

-------------------------------------------------------------------------------
(* The end of a read, and the start of the next.                            *)
Kept(x, q) ==
  /\ Record(x) /\ Typed(x) /\ x.errno = "OK" /\ Agree(x, q) /\ Data(x) = Data(q)
  /\ x.nread = q.nread /\ x.inner = q.inner /\ x.some = q.some

Lone(s) == s = {} \/ \E m \in Mark : s = {m}

LEMMA LoneMarks ==
  ASSUME NEW q, Fits(q)
  PROVE  Lone(q.marks)
<1>1. Lone(MarksOf(q.st))
  BY MarkKinds DEF Lone, Mark
<1>2. q.marks \subseteq MarksOf(q.st)
  BY DEF Fits
<1>3. QED
  BY <1>1, <1>2 DEF Lone

LEMMA CallbackKeeps ==
  ASSUME NEW q, Record(q), Typed(q), q.errno = "OK", Lone(q.marks), NEW m \in Mark
  PROVE  LET x == CALLBACK_DATA(q, m)
         IN Kept(x, q) /\ x.marks = q.marks \ {m} /\ Lone(x.marks)
<1>1. PICK x : x = CALLBACK_DATA(q, m)
  OBVIOUS
<1>2. Delivered(x, q, m)
  BY <1>1, CallbackDelivers
<1>3. Lone(x.marks)
  BY <1>2 DEF Delivered, Lone
<1>4. Data(x) = Data(q)
  <2>1. CASE m \in q.marks
    <3>1. q.marks \subseteq {m}
      BY <2>1 DEF Lone
    <3>2. QED
      BY <1>1, <3>1, CallbackData
  <2>2. CASE m \notin q.marks
    BY <1>1, <2>2 DEF CALLBACK_DATA
  <2>3. QED
    BY <2>1, <2>2
<1>5. Kept(x, q)
  BY <1>2, <1>4 DEF Delivered, Kept, Agree
<1>6. QED
  BY <1>1, <1>2, <1>3, <1>5 DEF Delivered

LEMMA KeepsTrans ==
  ASSUME NEW x, NEW y, NEW z, Kept(x, y), Kept(y, z)
  PROVE  Kept(x, z)
BY DEF Kept, Agree

LEMMA FlushIs ==
  ASSUME NEW q, Valid(q), q.errno = "OK"
  PROVE  Kept(Flush(q), q) /\ Clear(Flush(q)) /\ Buf(Flush(q)) = Data(q)
<1>1. Record(q) /\ Typed(q) /\ Fits(q)
  BY DEF Valid, Sound
<1>2. Lone(q.marks)
  BY <1>1, LoneMarks
<1>3. (Cardinality(q.marks) <= 1) = TRUE
  <2>1. Cardinality(q.marks) \in {0, 1}
    BY <1>2, FS_EmptySet, FS_Singleton DEF Lone
  <2>2. QED
    BY <2>1
<1>4. PICK c : c = (Cardinality(q.marks) <= 1)
  OBVIOUS
<1>5. PICK o : o = Claim(q, c)
  OBVIOUS
<1>6. Record(o) /\ Still(o, q) /\ o.errno = "OK" /\ Agree(o, q)
  BY <1>1, <1>3, <1>4, <1>5, ClaimIs
<1>7. Typed(o) /\ Data(o) = Data(q) /\ o.marks = q.marks
  BY <1>1, <1>6, StillTyped DEF Still
<1>8. Kept(o, q)
  BY <1>6, <1>7 DEF Kept, Still
<1>9. PICK a : a = CALLBACK_DATA(o, "header_field")
  OBVIOUS
<1>10. Kept(a, q) /\ a.marks = q.marks \ {"header_field"} /\ Lone(a.marks)
  <2>1. "header_field" \in Mark
    BY DEF Mark
  <2>2. QED
    BY <1>2, <1>7, <1>8, <1>9, <2>1, CallbackKeeps, KeepsTrans DEF Kept
<1>11. PICK b : b = CALLBACK_DATA(a, "header_value")
  OBVIOUS
<1>12. Kept(b, q) /\ b.marks = a.marks \ {"header_value"} /\ Lone(b.marks)
  <2>1. "header_value" \in Mark
    BY DEF Mark
  <2>2. QED
    BY <1>10, <1>11, <2>1, CallbackKeeps, KeepsTrans DEF Kept
<1>13. PICK d : d = CALLBACK_DATA(b, "url")
  OBVIOUS
<1>14. Kept(d, q) /\ d.marks = b.marks \ {"url"} /\ Lone(d.marks)
  <2>1. "url" \in Mark
    BY DEF Mark
  <2>2. QED
    BY <1>12, <1>13, <2>1, CallbackKeeps, KeepsTrans DEF Kept
<1>15. PICK e : e = CALLBACK_DATA(d, "body")
  OBVIOUS
<1>16. Kept(e, q) /\ e.marks = d.marks \ {"body"} /\ Lone(e.marks)
  <2>1. "body" \in Mark
    BY DEF Mark
  <2>2. QED
    BY <1>14, <1>15, <2>1, CallbackKeeps, KeepsTrans DEF Kept
<1>17. PICK f : f = CALLBACK_DATA(e, "status")
  OBVIOUS
<1>18. Kept(f, q) /\ f.marks = e.marks \ {"status"}
  <2>1. "status" \in Mark
    BY DEF Mark
  <2>2. QED
    BY <1>16, <1>17, <2>1, CallbackKeeps, KeepsTrans DEF Kept
<1>19. f = Flush(q)
  BY <1>4, <1>5, <1>9, <1>11, <1>13, <1>15, <1>17 DEF Flush
<1>20. f.marks = {}
  <2>1. \A m \in Mark : m \in {"header_field", "header_value", "url", "body", "status"}
    BY DEF Mark
  <2>2. q.marks \subseteq Mark
    BY <1>1 DEF Typed
  <2>3. QED
    BY <1>10, <1>12, <1>14, <1>16, <1>18, <2>1, <2>2
<1>21. f.len \in 0 .. LenMax
  BY <1>1, <1>18 DEF Kept, Agree, Fits, Lengths
<1>22. Clear(f)
  BY <1>18, <1>20, <1>21 DEF Kept, Clear
<1>23. Buf(f) = Data(q)
  BY <1>18, <1>20 DEF Kept, Data
<1>24. QED
  BY <1>18, <1>19, <1>22, <1>23

LEMMA EnterIs ==
  ASSUME NEW f, Record(f), f.st \in State
  PROVE  LET y == Enter(f)
         IN /\ Record(y) /\ y.st = f.st /\ y.hs = f.hs /\ y.flags = f.flags /\ y.len = f.len
            /\ y.type = f.type /\ y.errno = f.errno /\ y.nread = f.nread /\ Buf(y) = Buf(f)
            /\ y.text = NoText /\ y.inner = "no" /\ y.exit = FALSE /\ y.some = FALSE
            /\ y.marks = (IF f.st \in BodyState THEN {} ELSE MarksOf(f.st))
            /\ Agree(y, [f EXCEPT !.exit = FALSE])
<1>1. PICK k : k = IF f.st \in BodyState THEN {} ELSE MarksOf(f.st)
  OBVIOUS
<1>2. PICK y : y = [f EXCEPT !.text = NoText, !.inner = "no", !.exit = FALSE, !.some = FALSE,
                             !.marks = k]
  OBVIOUS
<1>3. Enter(f) = y
  <2>1. CASE f.st = "s_header_field"
    BY <1>1, <1>2, <2>1 DEF Enter, MarksOf, BodyState, UrlState
  <2>2. CASE f.st = "s_header_value"
    BY <1>1, <1>2, <2>2 DEF Enter, MarksOf, BodyState, UrlState
  <2>3. CASE f.st \in UrlState
    BY <1>1, <1>2, <2>3 DEF Enter, MarksOf, BodyState, UrlState
  <2>4. CASE f.st = "s_res_status"
    BY <1>1, <1>2, <2>4 DEF Enter, MarksOf, BodyState, UrlState
  <2>5. CASE f.st \notin {"s_header_field", "s_header_value", "s_res_status"} \cup UrlState
    BY <1>1, <1>2, <2>5 DEF Enter, MarksOf, BodyState, UrlState
  <2>6. QED
    BY <2>1, <2>2, <2>3, <2>4, <2>5
<1>4. /\ Record(y) /\ y.st = f.st /\ y.hs = f.hs /\ y.flags = f.flags /\ y.len = f.len
      /\ y.type = f.type /\ y.errno = f.errno /\ y.nread = f.nread /\ Buf(y) = Buf(f)
      /\ y.text = NoText /\ y.inner = "no" /\ y.exit = FALSE /\ y.some = FALSE /\ y.marks = k
      /\ Agree(y, [f EXCEPT !.exit = FALSE])
  BY <1>2 DEF Record, Fields, Buf, Agree
<1>5. QED
  BY <1>1, <1>3, <1>4

LEMMA NoTextIs ==
  /\ NoText \in [Mark -> Seq(Bytes)]
  /\ \A m \in Mark : NoText[m] = <<>>
BY DEF NoText

LEMMA EnterValid ==
  ASSUME NEW f, Record(f), f.errno = "OK", Buf(f) \in BufOf, f.nread \in Nat, f.st \in State,
         Lengths(f), f.st = "s_header_value" => f.hs \notin {"h_connection", "h_transfer_encoding"},
         f.st = "s_chunk_size_start" => f.nread = 0
  PROVE  Valid(Enter(f)) /\ "body" \notin Enter(f).marks
<1>1. PICK y : y = Enter(f)
  OBVIOUS
<1>2. /\ Record(y) /\ y.st = f.st /\ y.hs = f.hs /\ y.flags = f.flags /\ y.len = f.len
      /\ y.errno = f.errno /\ y.nread = f.nread /\ Buf(y) = Buf(f)
      /\ y.text = NoText /\ y.inner = "no"
      /\ y.marks = (IF f.st \in BodyState THEN {} ELSE MarksOf(f.st))
  BY <1>1, EnterIs
<1>3. "body" \notin y.marks /\ y.marks \subseteq Mark
  BY <1>2, MarkKinds
<1>4. Typed(y)
  BY <1>2, <1>3, NoTextIs DEF Typed
<1>5. Fits(y)
  BY <1>2 DEF Fits, Lengths
<1>6. Sound(y)
  BY <1>2, <1>5 DEF Sound
<1>7. QED
  BY <1>1, <1>2, <1>3, <1>4, <1>6 DEF Valid, InnerFits

LEMMA ReadEnds ==
  ASSUME NEW q, Valid(q), q.errno = "OK"
  PROVE  LET y == Enter(Flush(q))
         IN /\ Valid(y) /\ "body" \notin y.marks /\ y.some = FALSE /\ y.inner = "no"
            /\ y.nread = q.nread /\ Data(y) = Data(q) /\ Agree(y, [q EXCEPT !.exit = FALSE])
<1>1. PICK f : f = Flush(q)
  OBVIOUS
<1>2. PICK y : y = Enter(f)
  OBVIOUS
<1>3. Kept(f, q) /\ Clear(f) /\ Buf(f) = Data(q)
  BY <1>1, FlushIs
<1>4. Record(q) /\ Typed(q) /\ Fits(q) /\ (q.st = "s_chunk_size_start" => q.nread = 0)
  BY DEF Valid, Sound
<1>5. /\ Record(f) /\ f.errno = "OK" /\ f.st = q.st /\ f.hs = q.hs /\ f.flags = q.flags
      /\ f.len = q.len /\ f.type = q.type /\ f.nread = q.nread /\ Buf(f) \in BufOf
      /\ f.nread \in Nat /\ f.st \in State
  BY <1>3, <1>4 DEF Kept, Agree, Typed, Fits
<1>6. /\ Lengths(f) /\ (f.st = "s_chunk_size_start" => f.nread = 0)
      /\ f.st = "s_header_value" => f.hs \notin {"h_connection", "h_transfer_encoding"}
  BY <1>4, <1>5 DEF Fits, Lengths
<1>7. Valid(y) /\ "body" \notin y.marks
  BY <1>2, <1>5, <1>6, EnterValid
<1>8. /\ y.type = f.type /\ y.nread = f.nread /\ Buf(y) = Buf(f) /\ y.text = NoText
      /\ y.inner = "no" /\ y.some = FALSE /\ Agree(y, [f EXCEPT !.exit = FALSE])
      /\ y.marks = (IF f.st \in BodyState THEN {} ELSE MarksOf(f.st))
  BY <1>2, <1>5, EnterIs
<1>9. Data(y) = Data(q)
  <2>1. CASE y.type = "REQUEST" \/ y.marks = {}
    BY <1>3, <1>8, <2>1 DEF Data
  <2>2. CASE y.type # "REQUEST" /\ y.marks # {}
    <3>1. f.st \notin BodyState /\ MarksOf(f.st) # {}
      BY <1>8, <2>2
    <3>2. PICK m \in Mark : MarksOf(f.st) = {m}
      BY <3>1, MarkKinds
    <3>3. q.marks = {m} /\ y.marks = {m}
      BY <1>4, <1>5, <1>8, <3>1, <3>2 DEF Fits
    <3>4. q.type # "REQUEST"
      BY <1>5, <1>8, <2>2
    <3>5. Data(q) = Put(Buf(q), m, q.text[m])
      BY <3>3, <3>4, DataIs
    <3>6. Data(y) = Put(Buf(y), m, y.text[m])
      BY <2>2, <3>3, DataIs
    <3>7. y.text[m] = <<>>
      BY <1>8, NoTextIs
    <3>8. Buf(q) \in BufOf /\ q.text[m] \in Seq(Bytes) /\ <<>> \in Seq(Bytes)
      BY <1>4 DEF Typed
    <3>9. Put(Put(Buf(q), m, q.text[m]), m, <<>>) = Put(Buf(q), m, q.text[m] \o <<>>)
      BY <3>8, PutPut
    <3>10. q.text[m] \o <<>> = q.text[m]
      BY <3>8, ConcatEmptySeq
    <3>11. QED
      BY <1>3, <1>8, <3>5, <3>6, <3>7, <3>9, <3>10
  <2>3. QED
    BY <2>1, <2>2
<1>10. Agree(y, [q EXCEPT !.exit = FALSE])
  BY <1>3, <1>4, <1>5, <1>8 DEF Kept, Agree, Record, Fields
<1>11. QED
  BY <1>1, <1>2, <1>5, <1>7, <1>8, <1>9, <1>10

-------------------------------------------------------------------------------
(* A parser as new.                                                         *)
LEMMA FreshValid ==
  ASSUME NEW f, Record(f), f.errno = "OK", Buf(f) \in BufOf, f.nread = 0, f.len = 0,
         f.st \in StartState
  PROVE  LET y == Enter(f)
         IN /\ Valid(y) /\ "body" \notin y.marks /\ y.errno = "OK" /\ Together(y, y)
<1>1. f.st \in State /\ f.st \notin ChunkState \cup BodyState \cup {"s_header_value"}
  BY DEF State, PlainState, StartState, ChunkState, SizeState, BodyState
<1>2. Lengths(f)
  BY <1>1, ParserAssumption DEF Lengths, ChunkState, SizeState, BodyState
<1>3. f.nread \in Nat /\ f.st # "s_chunk_size_start"
  BY <1>1 DEF ChunkState
<1>4. Valid(Enter(f)) /\ "body" \notin Enter(f).marks
  BY <1>1, <1>2, <1>3, EnterValid
<1>5. Enter(f).errno = "OK" /\ Enter(f).nread = 0 /\ Enter(f).inner = "no"
  BY <1>1, EnterIs
<1>6. Together(Enter(f), Enter(f))
  BY <1>5 DEF Together, Match, Agree, Slack
<1>7. QED
  BY <1>4, <1>5, <1>6

LEMMA NewIs ==
  ASSUME NEW k
  PROVE  LET f == NewParser(k)
         IN /\ Record(f) /\ f.errno = "OK" /\ Buf(f) \in BufOf /\ f.nread = 0 /\ f.len = 0
            /\ f.st \in StartState
<1>1. PICK f : f = NewParser(k)
  OBVIOUS
<1>2. /\ Record(f) /\ f.errno = "OK" /\ f.nread = 0 /\ f.len = 0 /\ f.st = start_state(k)
      /\ f.cs = "FIELD" /\ f.allocated = FALSE /\ f.headers = <<>> /\ f.body = <<>>
  BY <1>1 DEF NewParser, http_parser_init, Record, Fields
<1>3. <<>> \in Seq(Bytes)
  OBVIOUS
<1>4. Buf(f) \in BufOf
  BY <1>2, <1>3 DEF Buf, BufOf
<1>5. QED
  BY <1>1, <1>2, <1>4, StartIs

LEMMA RenewedIs ==
  ASSUME NEW q, Record(q), Buf(q) \in BufOf, NEW s
  PROVE  LET f == [http_parser_init(q) EXCEPT !.closed = FALSE, !.done = <<>>, !.stale = s]
         IN /\ Record(f) /\ f.errno = "OK" /\ Buf(f) \in BufOf /\ f.nread = 0 /\ f.len = 0
            /\ f.st \in StartState
<1>1. PICK f : f = [http_parser_init(q) EXCEPT !.closed = FALSE, !.done = <<>>, !.stale = s]
  OBVIOUS
<1>2. /\ Record(f) /\ f.errno = "OK" /\ Buf(f) = Buf(q) /\ f.nread = 0 /\ f.len = 0
      /\ f.st = start_state(q.type)
  BY <1>1 DEF http_parser_init, Record, Fields, Buf
<1>3. QED
  BY <1>1, <1>2, StartIs

(* The call with no bytes.                                                  *)
Ending(q) == [ExecuteEof(q) EXCEPT !.closed = TRUE]

(* Only the states that end a message are left as they should be.           *)
Final(q) ==
  /\ Record(q) /\ Buf(q) \in BufOf
  /\ q.errno = "OK" =>
       /\ Typed(q) /\ InnerFits(q)
       /\ q.st \in StartState \cup {"s_body_identity_eof"} => Clear(q)
  /\ q.errno # "OK" => q.st # "s_body_identity_eof"

LEMMA EofIs ==
  ASSUME NEW q
  PROVE  /\ q.st = "s_body_identity_eof" => ExecuteEof(q) = message_complete(q)
         /\ q.st \in StartState => ExecuteEof(q) = q
         /\ q.st \notin StartState \cup {"s_body_identity_eof"} =>
              ExecuteEof(q) = Fail(q, "INVALID_EOF_STATE")
BY DEF ExecuteEof, StartState

LEMMA CloseIs ==
  ASSUME NEW q, Record(q)
  PROVE  LET x == [q EXCEPT !.closed = TRUE]
         IN /\ Record(x) /\ x.st = q.st /\ x.hs = q.hs /\ x.errno = q.errno /\ x.marks = q.marks
            /\ x.text = q.text /\ x.len = q.len /\ x.flags = q.flags /\ x.nread = q.nread
            /\ x.inner = q.inner /\ x.type = q.type /\ Buf(x) = Buf(q)
            /\ \A r : Record(r) /\ Agree(q, r) => Agree(x, [r EXCEPT !.closed = TRUE])
BY DEF Record, Fields, Buf, Agree

LEMMA ClosedValid ==
  ASSUME NEW q, Valid(q)
  PROVE  LET x == [q EXCEPT !.closed = TRUE]
         IN Valid(x) /\ Data(x) = Data(q)
<1>1. PICK x : x = [q EXCEPT !.closed = TRUE]
  OBVIOUS
<1>2. Record(q)
  BY DEF Valid, Sound
<1>3. /\ Record(x) /\ x.st = q.st /\ x.hs = q.hs /\ x.errno = q.errno /\ x.marks = q.marks
      /\ x.text = q.text /\ x.len = q.len /\ x.flags = q.flags /\ x.nread = q.nread
      /\ x.inner = q.inner /\ x.type = q.type /\ Buf(x) = Buf(q)
  BY <1>1, <1>2, CloseIs
<1>4. Sound(x)
  BY <1>3 DEF Valid, Sound, Fits, Lengths
<1>5. Data(x) = Data(q)
  BY <1>3 DEF Data
<1>6. x.errno = "OK" => Typed(x) /\ InnerFits(x)
  BY <1>3 DEF Valid, Typed, InnerFits
<1>7. x.errno # "OK" => Buf(x) \in BufOf
  BY <1>3 DEF Valid
<1>8. QED
  BY <1>1, <1>4, <1>5, <1>6, <1>7 DEF Valid

(* A parser that is clear between messages.                                 *)
LEMMA IdleValid ==
  ASSUME NEW q, Clear(q), q.st \in StartState, q.inner = "no"
  PROVE  Valid(q) /\ q.marks = {}
<1>1. Sound(q)
  BY StartIs, PlainSound DEF Clear
<1>2. QED
  BY <1>1 DEF Valid, Clear, InnerFits

LEMMA EofValid ==
  ASSUME NEW q, Final(q)
  PROVE  LET x == Ending(q)
         IN /\ Valid(x) /\ (x.errno = "OK" => x.marks = {} /\ x.inner = "no")
<1>1. PICK e : e = ExecuteEof(q)
  OBVIOUS
<1>2. Valid(e) /\ (e.errno = "OK" => e.marks = {} /\ e.inner = "no")
  <2>1. CASE q.st = "s_body_identity_eof"
    <3>1. Clear(q) /\ InnerFits(q)
      BY <2>1 DEF Final
    <3>2. q.inner = "no"
      BY <2>1, <3>1 DEF InnerFits, NameState
    <3>3. Clear(e) /\ e.st \in StartState /\ e.inner = "no"
      BY <1>1, <2>1, <3>1, <3>2, EofIs, CompleteGoes
    <3>4. QED
      BY <3>3, IdleValid
  <2>2. CASE q.st \in StartState /\ q.errno = "OK"
    <3>1. Clear(q) /\ InnerFits(q)
      BY <2>2 DEF Final
    <3>2. q.inner = "no"
      BY <2>2, <3>1 DEF InnerFits, NameState, StartState
    <3>3. e = q
      BY <1>1, <2>2, EofIs
    <3>4. QED
      BY <2>2, <3>1, <3>2, <3>3, IdleValid
  <2>3. CASE q.st \in StartState /\ q.errno # "OK"
    <3>1. e = q
      BY <1>1, <2>3, EofIs
    <3>2. QED
      BY <2>3, <3>1 DEF Final, Valid, Sound
  <2>4. CASE q.st \notin StartState \cup {"s_body_identity_eof"}
    <3>1. e = Fail(q, "INVALID_EOF_STATE")
      BY <1>1, <2>4, EofIs
    <3>2. Record(q) /\ Buf(q) \in BufOf
      BY DEF Final
    <3>3. Record(e) /\ e.errno = "INVALID_EOF_STATE" /\ e.st = q.st /\ Buf(e) = Buf(q)
      BY <3>1, <3>2 DEF Fail, Record, Fields, Buf
    <3>4. QED
      BY <2>4, <3>2, <3>3 DEF Valid, Sound
  <2>5. QED
    BY <2>1, <2>2, <2>3, <2>4
<1>3. PICK x : x = [e EXCEPT !.closed = TRUE]
  OBVIOUS
<1>4. Valid(x)
  BY <1>2, <1>3, ClosedValid
<1>5. x.errno = e.errno /\ x.marks = e.marks /\ x.inner = e.inner
  BY <1>2, <1>3, CloseIs DEF Valid, Sound
<1>6. x = Ending(q)
  BY <1>1, <1>3 DEF Ending
<1>7. QED
  BY <1>2, <1>4, <1>5, <1>6

LEMMA EofMatch ==
  ASSUME NEW q, NEW r, Final(q), Final(r), Match(q, r), q.errno = "OK"
  PROVE  Together(Ending(q), Ending(r))
<1>1. PICK a : a = ExecuteEof(q)
  OBVIOUS
<1>2. PICK b : b = ExecuteEof(r)
  OBVIOUS
<1>3. r.errno = "OK" /\ r.st = q.st /\ Record(q) /\ Record(r) /\ Agree(q, r)
  BY DEF Match, Agree, Final
<1>4. Match(a, b) /\ Record(a) /\ Record(b)
  <2>1. CASE q.st = "s_body_identity_eof"
    <3>1. Clear(q) /\ Clear(r)
      BY <1>3, <2>1 DEF Final
    <3>2. a = message_complete(q) /\ b = message_complete(r)
      BY <1>1, <1>2, <1>3, <2>1, EofIs
    <3>3. Match(a, b)
      BY <3>1, <3>2, CompleteMatch
    <3>4. Clear(a) /\ Clear(b)
      BY <3>1, <3>2, CompleteGoes
    <3>5. QED
      BY <3>3, <3>4 DEF Clear
  <2>2. CASE q.st \in StartState
    BY <1>1, <1>2, <1>3, <2>2, EofIs
  <2>3. CASE q.st \notin StartState \cup {"s_body_identity_eof"}
    <3>1. a = Fail(q, "INVALID_EOF_STATE") /\ b = Fail(r, "INVALID_EOF_STATE")
      BY <1>1, <1>2, <1>3, <2>3, EofIs
    <3>2. Match(a, b)
      BY <1>3, <3>1, FailMatch
    <3>3. QED
      BY <1>3, <3>1, <3>2 DEF Fail, Record, Fields
  <2>4. QED
    BY <2>1, <2>2, <2>3
<1>5. PICK x : x = [a EXCEPT !.closed = TRUE]
  OBVIOUS
<1>6. PICK y : y = [b EXCEPT !.closed = TRUE]
  OBVIOUS
<1>7. /\ x.errno = a.errno /\ x.nread = a.nread /\ Agree(x, y)
      /\ x.type = a.type /\ x.marks = a.marks /\ x.text = a.text /\ Buf(x) = Buf(a)
  BY <1>4, <1>5, <1>6, CloseIs DEF Match
<1>8. /\ y.nread = b.nread /\ y.type = b.type /\ y.marks = b.marks /\ y.text = b.text
      /\ Buf(y) = Buf(b)
  BY <1>4, <1>6, CloseIs
<1>9. Data(x) = Data(a) /\ Data(y) = Data(b)
  BY <1>7, <1>8 DEF Data
<1>10. Match(x, y)
  BY <1>4, <1>7, <1>8, <1>9 DEF Match
<1>11. x = Ending(q) /\ y = Ending(r)
  BY <1>1, <1>2, <1>5, <1>6 DEF Ending
<1>12. x.errno = "OK" => Slack(x, y)
  <2>1. SUFFICES ASSUME x.errno = "OK" PROVE Slack(x, y)
    OBVIOUS
  <2>2. y.errno = "OK"
    BY <1>7, <2>1 DEF Agree
  <2>3. x.inner = "no" /\ y.inner = "no"
    BY <1>11, <2>1, <2>2, EofValid
  <2>4. QED
    BY <2>3 DEF Slack
<1>13. QED
  BY <1>10, <1>11, <1>12 DEF Together

-------------------------------------------------------------------------------
(* The inductive invariant: where the stream is, what holds of each parser, *)
(* and that they match as long as no control character was read.            *)
Place == /\ at \in Nat /\ pos \in Nat
         /\ at > 0 => plan \in Plans /\ at \in 1 .. Len(plan)

Valids == Valid(p) /\ Valid(uncut) /\ (p.errno = "OK" /\ ~p.some => "body" \notin p.marks)

Heard == \A i \in 1 .. pos : IS_HEADER_CHAR(Stream.sent[i])

Alike == at > 0 /\ Heard => Together(p, uncut) \/ Refuses(p, uncut)

ParserInv == Place /\ Valids /\ Alike

LEMMA StartsRight ==
  ASSUME Init
  PROVE  ParserInv
<1>1. PICK k : p = Enter(NewParser(k)) /\ uncut = p
  BY DEF Init
<1>2. Valid(p) /\ "body" \notin p.marks /\ Together(p, p)
  BY <1>1, NewIs, FreshValid
<1>3. Place
  BY ParserAssumption DEF Init, Place
<1>4. QED
  BY <1>1, <1>2, <1>3 DEF ParserInv, Valids, Alike

LEMMA SentIs ==
  ASSUME Place, at > 0, pos < Len(Stream.sent)
  PROVE  Stream.sent[pos + 1] \in Bytes
<1>1. plan \in Plans /\ at \in 1 .. Len(plan) /\ pos \in Nat
  BY DEF Place
<1>2. Stream.sent \in Seq(Token)
  BY <1>1, ParserAssumption DEF Stream
<1>3. pos + 1 \in 1 .. Len(Stream.sent)
  BY <1>1, <1>2
<1>4. QED
  BY <1>2, <1>3 DEF Bytes

LEMMA ByteStep ==
  ASSUME ParserInv, Byte
  PROVE  ParserInv'
<1>1. PICK t : t = Stream.sent[pos + 1]
  OBVIOUS
<1>2. t \in Bytes
  BY <1>1, SentIs DEF ParserInv, Byte
<1>3. /\ p.errno = "OK" /\ ~p.exit /\ p' = Feed(p, t) /\ pos' = pos + 1 /\ at > 0
      /\ at' = at /\ plan' = plan
      /\ uncut' = IF uncut.errno = "OK" /\ ~uncut.exit THEN Feed(uncut, t) ELSE uncut
  BY <1>1 DEF Byte
<1>4. Valid(p) /\ Valid(uncut) /\ at \in Nat /\ pos \in Nat
  BY DEF ParserInv, Valids, Place
<1>5. Valid(p') /\ p'.some = TRUE
  BY <1>2, <1>3, <1>4, FeedValid
<1>6. Valid(uncut')
  BY <1>2, <1>3, <1>4, FeedValid
<1>7. Place'
  BY <1>3, <1>4 DEF ParserInv, Place
<1>8. Alike'
  <2>1. SUFFICES ASSUME Heard' PROVE Together(p', uncut') \/ Refuses(p', uncut')
    BY DEF Alike
  <2>2. Stream' = Stream
    BY <1>3 DEF Stream
  <2>3. Heard /\ IS_HEADER_CHAR(t)
    <3>1. \A i \in 1 .. pos + 1 : IS_HEADER_CHAR(Stream.sent[i])
      BY <1>3, <2>1, <2>2 DEF Heard
    <3>2. pos + 1 \in 1 .. pos + 1 /\ \A i \in 1 .. pos : i \in 1 .. pos + 1
      BY <1>4
    <3>3. QED
      BY <1>1, <3>1, <3>2 DEF Heard
  <2>4. Together(p, uncut)
    BY <1>3, <2>3 DEF ParserInv, Alike, Refuses
  <2>5. uncut.errno = "OK" /\ ~uncut.exit
    BY <1>3, <2>4 DEF Together, Match, Agree
  <2>6. uncut' = Feed(uncut, t)
    BY <1>3, <2>5
  <2>7. QED
    BY <1>2, <1>3, <1>4, <2>3, <2>4, <2>6, FeedMatch
<1>9. QED
  BY <1>5, <1>6, <1>7, <1>8 DEF ParserInv, Valids

LEMMA StayIs ==
  ASSUME NEW q, Valid(q)
  PROVE  LET x == [q EXCEPT !.exit = FALSE]
         IN /\ Valid(x) /\ x.nread = q.nread /\ x.inner = q.inner /\ Data(x) = Data(q)
            /\ x.errno = q.errno
            /\ \A r : Record(r) /\ Agree(r, q) => Agree([r EXCEPT !.exit = FALSE], x)
<1>1. PICK x : x = [q EXCEPT !.exit = FALSE]
  OBVIOUS
<1>2. Record(q)
  BY DEF Valid, Sound
<1>3. /\ Record(x) /\ x.st = q.st /\ x.hs = q.hs /\ x.errno = q.errno /\ x.marks = q.marks
      /\ x.text = q.text /\ x.len = q.len /\ x.flags = q.flags /\ x.nread = q.nread
      /\ x.inner = q.inner /\ x.type = q.type /\ Buf(x) = Buf(q)
      /\ \A r : Record(r) /\ Agree(r, q) => Agree([r EXCEPT !.exit = FALSE], x)
  BY <1>1, <1>2 DEF Record, Fields, Buf, Agree
<1>4. Sound(x)
  BY <1>3 DEF Valid, Sound, Fits, Lengths
<1>5. Data(x) = Data(q)
  BY <1>3 DEF Data
<1>6. x.errno = "OK" => Typed(x) /\ InnerFits(x)
  BY <1>3 DEF Valid, Typed, InnerFits
<1>7. x.errno # "OK" => Buf(x) \in BufOf
  BY <1>3 DEF Valid
<1>8. QED
  BY <1>1, <1>3, <1>4, <1>5, <1>6, <1>7 DEF Valid

LEMMA CutStep ==
  ASSUME ParserInv, Cut
  PROVE  ParserInv'
<1>1. PICK y : y = Enter(Flush(p))
  OBVIOUS
<1>2. PICK v : v = [uncut EXCEPT !.exit = FALSE]
  OBVIOUS
<1>3. /\ p.errno = "OK" /\ p' = y /\ uncut' = v /\ pos' = pos /\ at > 0 /\ at' = at
      /\ plan' = plan
  BY <1>1, <1>2 DEF Cut
<1>4. Valid(p) /\ Valid(uncut) /\ Record(p)
  BY DEF ParserInv, Valids, Valid, Sound
<1>5. /\ Valid(y) /\ "body" \notin y.marks /\ y.inner = "no" /\ y.nread = p.nread
      /\ Data(y) = Data(p) /\ Agree(y, [p EXCEPT !.exit = FALSE])
  BY <1>1, <1>3, <1>4, ReadEnds
<1>6. /\ Valid(v) /\ v.nread = uncut.nread /\ v.inner = uncut.inner /\ Data(v) = Data(uncut)
      /\ Agree(p, uncut) => Agree([p EXCEPT !.exit = FALSE], v)
  BY <1>2, <1>4, StayIs
<1>7. Place'
  BY <1>3 DEF ParserInv, Place
<1>8. Alike'
  <2>1. SUFFICES ASSUME Heard' PROVE Together(y, v)
    BY <1>3 DEF Alike
  <2>2. Heard
    BY <1>3, <2>1 DEF Heard, Stream
  <2>3. Match(p, uncut) /\ Slack(p, uncut)
    BY <1>3, <2>2 DEF ParserInv, Alike, Refuses, Together
  <2>4. Agree(y, v)
    BY <1>5, <1>6, <2>3 DEF Match, Agree
  <2>5. Match(y, v)
    BY <1>3, <1>5, <1>6, <2>3, <2>4 DEF Match
  <2>6. Slack(y, v)
    BY <1>5, <1>6, <2>3 DEF Slack
  <2>7. QED
    BY <2>5, <2>6 DEF Together
<1>9. QED
  BY <1>3, <1>5, <1>6, <1>7, <1>8 DEF ParserInv, Valids

LEMMA ReadyToEnd ==
  ASSUME NEW q, Valid(q), q.errno = "OK", "body" \notin q.marks
  PROVE  Final(q)
<1>1. Record(q) /\ Fits(q) /\ Typed(q) /\ InnerFits(q)
  BY DEF Valid, Sound
<1>2. Buf(q) \in BufOf
  BY <1>1 DEF Typed
<1>3. q.st \in StartState \cup {"s_body_identity_eof"} => Clear(q)
  <2>1. CASE q.st \in StartState
    <3>1. MarksOf(q.st) = {}
      BY <2>1 DEF MarksOf, StartState, UrlState, BodyState
    <3>2. QED
      BY <1>1, <3>1 DEF Fits, Lengths, Clear
  <2>2. CASE q.st = "s_body_identity_eof"
    <3>1. MarksOf(q.st) = {"body"}
      BY <2>2, MarksIs DEF BodyState
    <3>2. QED
      BY <1>1, <3>1 DEF Fits, Lengths, Clear
  <2>3. QED
    BY <2>1, <2>2
<1>4. QED
  BY <1>1, <1>2, <1>3 DEF Final

LEMMA FlushedToEnd ==
  ASSUME NEW q, Valid(q)
  PROVE  Final(Flush(q))
<1>1. CASE q.errno # "OK"
  <2>1. Flush(q) = q
    BY <1>1 DEF Flush
  <2>2. QED
    BY <1>1, <2>1 DEF Valid, Sound, Final
<1>2. CASE q.errno = "OK"
  <2>1. PICK f : f = Flush(q)
    OBVIOUS
  <2>2. Kept(f, q) /\ Clear(f)
    BY <1>2, <2>1, FlushIs
  <2>3. InnerFits(f)
    BY <1>2, <2>2 DEF Valid, Kept, Agree, InnerFits
  <2>4. QED
    BY <2>1, <2>2, <2>3 DEF Final, Clear, Typed
<1>3. QED
  BY <1>1, <1>2

LEMMA EofStep ==
  ASSUME ParserInv, Eof
  PROVE  ParserInv'
<1>1. PICK f : f = Flush(uncut)
  OBVIOUS
<1>2. /\ p.errno = "OK" /\ ~p.some /\ p' = Ending(p) /\ uncut' = Ending(f) /\ pos' = pos
      /\ at > 0 /\ at' = at /\ plan' = plan
  BY <1>1 DEF Eof, Ending
<1>3. Valid(p) /\ Valid(uncut) /\ "body" \notin p.marks
  BY <1>2 DEF ParserInv, Valids
<1>4. Final(p) /\ Final(f)
  BY <1>1, <1>2, <1>3, ReadyToEnd, FlushedToEnd
<1>5. Valid(p') /\ Valid(uncut') /\ (p'.errno = "OK" => p'.marks = {})
  BY <1>2, <1>4, EofValid
<1>6. Place'
  BY <1>2 DEF ParserInv, Place
<1>7. Alike'
  <2>1. SUFFICES ASSUME Heard' PROVE Together(p', uncut')
    BY DEF Alike
  <2>2. Heard
    BY <1>2, <2>1 DEF Heard, Stream
  <2>3. Match(p, uncut)
    BY <1>2, <2>2 DEF ParserInv, Alike, Refuses, Together
  <2>4. uncut.errno = "OK"
    BY <1>2, <2>3 DEF Match, Agree
  <2>5. Kept(f, uncut)
    BY <1>1, <1>3, <2>4, FlushIs
  <2>6. Match(p, f)
    BY <2>3, <2>5 DEF Match, Kept, Agree
  <2>7. QED
    BY <1>2, <1>4, <2>6, EofMatch
<1>8. QED
  BY <1>5, <1>6, <1>7 DEF ParserInv, Valids

LEMMA ReconnectStep ==
  ASSUME ParserInv, Reconnect
  PROVE  ParserInv'
<1>1. PICK f : f = [http_parser_init(p) EXCEPT !.closed = FALSE, !.done = <<>>,
                                               !.stale = (p.headers # <<>> \/ p.body # <<>>)]
  OBVIOUS
<1>2. /\ p' = Enter(f) /\ uncut' = p' /\ at > 0 /\ at < Len(plan) /\ at' = at + 1 /\ pos' = 0
      /\ plan' = plan
  BY <1>1 DEF Reconnect
<1>3. Record(p) /\ Buf(p) \in BufOf
  BY DEF ParserInv, Valids, Valid, Sound, Typed
<1>4. /\ Record(f) /\ f.errno = "OK" /\ Buf(f) \in BufOf /\ f.nread = 0 /\ f.len = 0
      /\ f.st \in StartState
  BY <1>1, <1>3, RenewedIs
<1>5. Valid(p') /\ "body" \notin p'.marks /\ Together(p', p')
  BY <1>2, <1>4, FreshValid
<1>6. Place'
  BY <1>2, ParserAssumption DEF ParserInv, Place
<1>7. QED
  BY <1>2, <1>5, <1>6 DEF ParserInv, Valids, Alike

LEMMA StutterStep ==
  ASSUME ParserInv, UNCHANGED <<plan, at, pos, p, uncut>>
  PROVE  ParserInv'
BY DEF ParserInv, Place, Valids, Alike, Heard, Stream

(* The states of the parser agree with what it has marked, counts and holds,*)
(* and the cut parser with the one that is not.                             *)
THEOREM ParserInductive == Spec => []ParserInv
<1>1. Init => ParserInv
  BY StartsRight
<1>2. ParserInv /\ [Next]_vars => ParserInv'
  <2>1. SUFFICES ASSUME ParserInv, [Next]_vars PROVE ParserInv'
    OBVIOUS
  <2>2. CASE ParseUrl
    BY <2>1, <2>2, StutterStep DEF ParseUrl
  <2>3. CASE Byte
    BY <2>1, <2>3, ByteStep
  <2>4. CASE Cut
    BY <2>1, <2>4, CutStep
  <2>5. CASE Eof
    BY <2>1, <2>5, EofStep
  <2>6. CASE Reconnect
    BY <2>1, <2>6, ReconnectStep
  <2>7. CASE UNCHANGED vars
    BY <2>1, <2>7, StutterStep DEF vars
  <2>8. QED
    BY <2>1, <2>2, <2>3, <2>4, <2>5, <2>6, <2>7 DEF Next
<1>3. QED
  BY <1>1, <1>2, PTL DEF Spec

(* No assert() of the parser fails, whatever the peers send and wherever    *)
(* reads end: http_parser.c's on the count, lengths, flags and marks.       *)
THEOREM AssertionsNeverFail == Spec => []AssertionsHold
<1>1. ParserInv => AssertionsHold
  BY DEF ParserInv, Valids, Valid, Sound, Record, AssertionsHold
<1>2. QED
  BY <1>1, ParserInductive, PTL

(* What the script is told of a stream does not depend on where the reads   *)
(* end, but for the limit on headers and for control characters.            *)
THEOREM CutsStayInvisible == Spec => []CutsAreInvisible
<1>1. ParserInv => CutsAreInvisible
  <2>1. SUFFICES ASSUME ParserInv, at > 0, Heard,
                        ~RefusedByCuts
                 PROVE  CutsAreInvisible
    BY DEF CutsAreInvisible, Heard
  <2>2. Match(p, uncut)
    BY <2>1 DEF ParserInv, Alike, Refuses, RefusedByCuts, Together
  <2>3. Agree(p, uncut)
    BY <2>2 DEF Match
  <2>4. PICK f : f = Flush(p)
    OBVIOUS
  <2>5. PICK u : u = Flush(uncut)
    OBVIOUS
  <2>6. CASE p.errno # "OK"
    <3>1. f = p /\ u = uncut /\ f.errno # "OK" /\ u.errno # "OK"
      BY <2>3, <2>4, <2>5, <2>6 DEF Flush, Agree
    <3>2. f.errno = u.errno /\ f.done = u.done
      BY <2>3, <3>1 DEF Agree
    <3>3. QED
      BY <2>4, <2>5, <3>1, <3>2 DEF CutsAreInvisible
  <2>7. CASE p.errno = "OK"
    <3>1. uncut.errno = "OK" /\ Data(p) = Data(uncut)
      BY <2>2, <2>3, <2>7 DEF Agree, Match
    <3>2. Valid(p) /\ Valid(uncut)
      BY <2>1 DEF ParserInv, Valids
    <3>3. Kept(f, p) /\ Buf(f) = Data(p)
      BY <2>4, <2>7, <3>2, FlushIs
    <3>4. Kept(u, uncut) /\ Buf(u) = Data(uncut)
      BY <2>5, <3>1, <3>2, FlushIs
    <3>5. Agree(f, u) /\ f.errno = "OK" /\ u.errno = "OK"
      BY <2>3, <3>3, <3>4 DEF Kept, Agree
    <3>6. f.cs = u.cs /\ f.headers = u.headers /\ f.body = u.body
      BY <3>1, <3>3, <3>4 DEF Buf
    <3>7. f.st = u.st /\ f.done = u.done /\ f.closed = u.closed
      BY <3>5 DEF Agree
    <3>8. QED
      BY <2>4, <2>5, <3>5, <3>6, <3>7 DEF CutsAreInvisible
  <2>8. QED
    BY <2>6, <2>7
<1>2. QED
  BY <1>1, ParserInductive, PTL
===============================================================================
