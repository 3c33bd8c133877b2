----------------------------- MODULE HttpParser -----------------------------
(***************************************************************************)
(* http_parser_execute as wrk uses it: for the answers its connections read *)
(* (RESPONSE, the data callbacks feeding the script's buffers), and for the *)
(* requests a script makes, counted before the run (REQUEST).  A byte is a  *)
(* token: a character the code tells apart ("CR", ":", "5"), a piece of a   *)
(* name or value it matches letter by letter ("con" "tent-length"), or any  *)
(* other text ("x").  The parser takes one token at a time, and a read may  *)
(* end after any of them.  Not modelled: HTTP_BOTH, a paused parser, a      *)
(* callback that fails, F_SKIPBODY and the lenient mode, none of which wrk  *)
(* uses; header limits are checked at each token, not at each run of them.  *)
(***************************************************************************)
EXTENDS HttpUrl, Integers

CONSTANTS
  LenMax,      (* ULLONG_MAX: no content_length                             *)
  MaxHeader,   (* HTTP_MAX_HEADER_SIZE, in tokens                           *)
  Urls,        (* what the command line may hold: [text, is]                *)
  Plans        (* what the peers of one wrk connection send, one after the  *)
               (* other: sequences of [type, messages, tail, sent]          *)

(* The bytes of the streams.                                                *)
Token ==
  UNION {UNION {{x[i].sent[j] : j \in 1 .. Len(x[i].sent)} : i \in 1 .. Len(x)} : x \in Plans}

ASSUME ParserAssumption ==
  /\ LenMax \in Nat /\ LenMax > 15 /\ MaxHeader \in Nat
  /\ \A x \in Plans : Len(x) \in Nat \ {0} /\ \A i \in 1 .. Len(x) : x[i].sent \in Seq(Token)

VARIABLES
  url,     (* the text of the command line's URL, while it is to be parsed  *)
  parts,   (* what script_parse_url made of it                              *)
  plan,    (* the streams of this run                                       *)
  at,      (* which of them the connection reads                            *)
  pos,     (* how much of it the parser has taken                           *)
  p,       (* the parser, the locals of the call, and the script's buffers  *)
  uncut    (* history: p, had the stream come in one read                   *)

vars == <<url, parts, plan, at, pos, p, uncut>>

NUL == "NUL"
Separator == {"CR", "LF", "SP", "TAB", "CTL", NUL, ",", ";", ":", "/", "?", "#", "@", "["}

(* TOKEN in strict mode: what may stand in a header's name.                 *)
TOKEN(t) == t \notin Separator

(* LOWER(c) = c | 0x20: a tab is no longer one.                             *)
LOWER(t) == IF t = "TAB" THEN ")" ELSE t

IS_HEADER_CHAR(t) == t \notin {"CTL", NUL}

Unhex(t) == CASE t \in Num -> Digit[t] [] t = "a" -> 10 [] t = "f" -> 15

PARSING_HEADER(s) ==
  s \notin {"s_chunk_data", "s_chunk_data_almost_done", "s_chunk_data_done",
            "s_body_identity", "s_body_identity_eof", "s_message_done"}

Mark == {"header_field", "header_value", "url", "body", "status"}

NoText == [m \in Mark |-> <<>>]

start_state(type) == IF type = "REQUEST" THEN "s_start_req" ELSE "s_start_res"

(* What an accept of a new peer or the end of a message leaves of q: the    *)
(* buffers, and the locals of a call under way.                             *)
http_parser_init(q) ==
  [q EXCEPT !.st = start_state(q.type), !.hs = "h_general", !.flags = {}, !.len = 0,
            !.status = 0, !.major = 0, !.minor = 0, !.method = "DELETE",
            !.upgrade = FALSE, !.errno = "OK", !.nread = 0]

NewParser(type) ==
  http_parser_init(
    [type |-> type, st |-> "", hs |-> "", flags |-> {}, len |-> 0, status |-> 0,
     major |-> 0, minor |-> 0, method |-> "", upgrade |-> FALSE, errno |-> "", nread |-> 0,
     marks |-> {}, text |-> NoText, inner |-> "no", exit |-> FALSE, ok |-> TRUE,
     some |-> FALSE, closed |-> FALSE, stale |-> FALSE,
     cs |-> "FIELD", allocated |-> FALSE, headers |-> <<>>, body |-> <<>>, done |-> <<>>])

Fail(q, e)   == [q EXCEPT !.errno = e]
To(q, s)     == [q EXCEPT !.st = s]
MARK(q, m)   == [q EXCEPT !.marks = @ \cup {m}]
Claim(q, c) == [q EXCEPT !.ok = @ /\ c]
Flag(q, f)   == [q EXCEPT !.flags = @ \cup {f}]

(* wrk's data callbacks: names and values in one buffer, a NUL after each.  *)
header_field(q, piece) ==
  [q EXCEPT !.headers = (IF q.cs = "VALUE" THEN Append(@, NUL) ELSE @) \o piece,
            !.cs = "FIELD", !.allocated = TRUE]

header_value(q, piece) ==
  [q EXCEPT !.headers = (IF q.cs = "FIELD" THEN Append(@, NUL) ELSE @) \o piece,
            !.cs = "VALUE", !.allocated = TRUE]

response_body(q, piece) == [q EXCEPT !.body = @ \o piece]

Deliver(q, m) ==
  IF q.type = "REQUEST" THEN q
  ELSE CASE m = "header_field" -> header_field(q, q.text[m])
         [] m = "header_value" -> header_value(q, q.text[m])
         [] m = "body"         -> response_body(q, q.text[m])
         [] OTHER              -> q

CALLBACK_DATA(q, m) ==
  IF m \notin q.marks THEN q
  ELSE [Deliver(Claim(q, q.errno = "OK"), m) EXCEPT !.marks = @ \ {m}, !.text[m] = <<>>]

(* The strings of the headers buffer up to its cursor, by two; a name with  *)
(* nothing behind it is completed from beyond the cursor.                   *)
Strings(buf) ==
  LET ends == SetToSortSeq({i \in 1 .. Len(buf) : buf[i] = NUL}, <)
  IN [n \in 1 .. Len(ends) |->
        SubSeq(buf, IF n = 1 THEN 1 ELSE ends[n - 1] + 1, ends[n] - 1)]

PairUp(s) ==
  [n \in 1 .. (Len(s) + 1) \div 2 |->
     <<s[2 * n - 1], IF 2 * n <= Len(s) THEN s[2 * n] ELSE <<"BEYOND">> >>]

Pairs(buf) == PairUp(Strings(buf))

http_message_needs_eof(q) ==
  /\ q.type = "RESPONSE"
  /\ q.status \div 100 # 1 /\ q.status \notin {204, 304}
  /\ "CHUNKED" \notin q.flags /\ q.len = LenMax

http_should_keep_alive(q) ==
  /\ IF q.major > 0 /\ q.minor > 0 THEN "CLOSE" \notin q.flags ELSE "KEEP_ALIVE" \in q.flags
  /\ ~http_message_needs_eof(q)

NEW_MESSAGE(q) == IF http_should_keep_alive(q) THEN start_state(q.type) ELSE "s_dead"

(* What the script's response() is given.                                  *)
Seen(q) == [status |-> q.status, keep |-> http_should_keep_alive(q),
            headers |-> IF q.allocated THEN Pairs(Append(q.headers, NUL)) ELSE <<>>,
            body |-> q.body]

(* A connection that is not kept is opened again.                           *)
KeepOrClose(q) ==
  IF http_should_keep_alive(q) THEN http_parser_init(q) ELSE [q EXCEPT !.closed = TRUE]

(* Mutant of response_complete: c->state is not set back to FIELD.          *)
CompleteKeepsValue(q) ==
  KeepOrClose([q EXCEPT !.done = Append(@, Seen(q)), !.headers = <<>>, !.body = <<>>])

(* response_complete: the script is called only if a header was ever seen.  *)
response_complete(q) ==
  KeepOrClose([q EXCEPT !.done = Append(@, Seen(q)),
                        !.headers = <<>>,
                        !.body = IF q.allocated THEN <<>> ELSE @,
                        !.cs = IF q.allocated THEN "FIELD" ELSE @])

verify_request(q) == [q EXCEPT !.done = Append(@, [method |-> q.method])]

on_message_complete(q) ==
  IF q.type = "REQUEST" THEN verify_request(q) ELSE response_complete(q)

message_complete(q) == on_message_complete(Claim(To(q, NEW_MESSAGE(q)), q.errno = "OK"))

-----------------------------------------------------------------------------
(* The status line and the request line.                                    *)

StartMessage(q) == [q EXCEPT !.flags = {}, !.len = LenMax]

Letters == [s_res_H |-> <<"T", "s_res_HT">>, s_res_HT |-> <<"T", "s_res_HTT">>,
            s_res_HTT |-> <<"P", "s_res_HTTP">>, s_res_HTTP |-> <<"/", "s_res_http_major">>,
            s_req_http_H |-> <<"T", "s_req_http_HT">>, s_req_http_HT |-> <<"T", "s_req_http_HTT">>,
            s_req_http_HTT |-> <<"P", "s_req_http_HTTP">>,
            s_req_http_HTTP |-> <<"/", "s_req_http_major">>,
            s_res_line_almost_done |-> <<"LF", "s_header_field_start">>,
            s_header_value_discard_ws_almost_done |-> <<"LF", "s_header_value_discard_lws">>]

Literal(q, t) ==
  IF t = Letters[q.st][1] THEN To(q, Letters[q.st][2]) ELSE Fail(q, "STRICT")

s_dead(q, t) == IF t \in {"CR", "LF"} THEN q ELSE Fail(q, "CLOSED_CONNECTION")

s_start_res(q, t) ==
  CASE t = "H"            -> To(StartMessage(q), "s_res_H")
    [] t \in {"CR", "LF"} -> StartMessage(q)
    [] OTHER              -> Fail(StartMessage(q), "INVALID_CONSTANT")

Version(q, t) ==
  CASE q.st = "s_res_http_major" /\ t \in Num -> To([q EXCEPT !.major = Digit[t]], "s_res_http_dot")
    [] q.st = "s_req_http_major" /\ t \in Num -> To([q EXCEPT !.major = Digit[t]], "s_req_http_dot")
    [] q.st = "s_res_http_minor" /\ t \in Num -> To([q EXCEPT !.minor = Digit[t]], "s_res_http_end")
    [] q.st = "s_req_http_minor" /\ t \in Num -> To([q EXCEPT !.minor = Digit[t]], "s_req_http_end")
    [] q.st = "s_res_http_dot" /\ t = "."     -> To(q, "s_res_http_minor")
    [] q.st = "s_req_http_dot" /\ t = "."     -> To(q, "s_req_http_minor")
    [] q.st = "s_res_http_end" /\ t = "SP"    -> To(q, "s_res_first_status_code")
    [] q.st = "s_req_http_end" /\ t = "CR"    -> To(q, "s_req_line_almost_done")
    [] q.st = "s_req_http_end" /\ t = "LF"    -> To(q, "s_header_field_start")
    [] OTHER                                  -> Fail(q, "INVALID_VERSION")

s_res_first_status_code(q, t) ==
  CASE t \in Num -> To([q EXCEPT !.status = Digit[t]], "s_res_status_code")
    [] t = "SP"  -> q
    [] OTHER     -> Fail(q, "INVALID_STATUS")

s_res_status(q, t) ==
  CASE t = "CR" -> CALLBACK_DATA(To(q, "s_res_line_almost_done"), "status")
    [] t = "LF" -> CALLBACK_DATA(To(q, "s_header_field_start"), "status")
    [] OTHER    -> q

s_res_status_start(q, t) ==
  LET r == MARK(To(q, "s_res_status"), "status")
  IN IF t \in {"CR", "LF"} THEN s_res_status(r, t) ELSE r

s_res_status_code(q, t) ==
  CASE t \in Num ->
         LET v == q.status * 10 + Digit[t]
         IN IF v > 999 THEN Fail(q, "INVALID_STATUS") ELSE [q EXCEPT !.status = v]
    [] t = "SP"            -> To(q, "s_res_status_start")
    [] t \in {"CR", "LF"}  -> s_res_status_start(q, t)
    [] OTHER               -> Fail(q, "INVALID_STATUS")

Method == {"GET", "POST", "HEAD", "CONNECT"}

s_start_req(q, t) ==
  CASE t \in {"CR", "LF"} -> q
    [] t \in Method       -> To([StartMessage(q) EXCEPT !.method = t], "s_req_method")
    [] OTHER              -> Fail(StartMessage(q), "INVALID_METHOD")

(* The method is one token; nothing but a space may follow it.              *)
s_req_method(q, t) ==
  IF t = "SP" THEN To(q, "s_req_spaces_before_url") ELSE Fail(q, "INVALID_METHOD")

UrlState == {"s_req_schema", "s_req_schema_slash", "s_req_schema_slash_slash",
             "s_req_server_start", "s_req_server", "s_req_server_with_at", "s_req_path",
             "s_req_query_string_start", "s_req_query_string", "s_req_fragment_start",
             "s_req_fragment"}

Live(q) == IF q.st = "s_dead" THEN Fail(q, "INVALID_URL") ELSE q

UrlGoesOn(q, s, t) ==
  Live(To(q, parse_url_char(s, t)))

s_req_spaces_before_url(q, t) ==
  IF t = "SP" THEN q
  ELSE UrlGoesOn(MARK(q, "url"), IF q.method = "CONNECT" THEN "s_req_server_start" ELSE q.st, t)

s_req_url(q, t) ==
  LET endable == q.st \notin {"s_req_schema", "s_req_schema_slash",
                              "s_req_schema_slash_slash", "s_req_server_start"}
      old == [q EXCEPT !.major = 0, !.minor = 9]
  IN CASE endable /\ t = "SP" -> CALLBACK_DATA(To(q, "s_req_http_start"), "url")
       [] endable /\ t = "CR" -> CALLBACK_DATA(To(old, "s_req_line_almost_done"), "url")
       [] endable /\ t = "LF" -> CALLBACK_DATA(To(old, "s_header_field_start"), "url")
       [] OTHER               -> UrlGoesOn(q, q.st, t)

s_req_http_start(q, t) ==
  CASE t = "H"  -> To(q, "s_req_http_H")
    [] t = "SP" -> q
    [] OTHER    -> Fail(q, "INVALID_CONSTANT")

s_req_line_almost_done(q, t) ==
  IF t = "LF" THEN To(q, "s_header_field_start") ELSE Fail(q, "LF_EXPECTED")

-----------------------------------------------------------------------------
(* The end of a message and of its headers.  Each state that goes on to     *)
(* another with the same byte calls it.                                     *)

Leave(q) == [q EXCEPT !.exit = q.upgrade]

s_message_done(q) == Leave(message_complete(q))

(* Mutant of CountAnew: the count of header bytes goes on.                  *)
CountOn(q) == q

(* Behind the headers, a chunk's size and a chunk the count starts anew.    *)
CountAnew(q) == [q EXCEPT !.nread = 0]

(* What follows an upgrade, or CONNECT, is not the parser's any more.       *)
Upgrades(q) ==
  /\ q.upgrade
  /\ q.method = "CONNECT" \/ ("CHUNKED" \notin q.flags /\ q.len \in {0, LenMax})

AfterHeaders(q) ==
  CASE Upgrades(q) -> [message_complete(q) EXCEPT !.exit = TRUE]
    [] ~Upgrades(q) /\ "CHUNKED" \in q.flags -> To(q, "s_chunk_size_start")
    [] ~Upgrades(q) /\ "CHUNKED" \notin q.flags /\ q.len \notin {0, LenMax} ->
         To(q, "s_body_identity")
    [] ~Upgrades(q) /\ q.len = LenMax /\ http_message_needs_eof(q) ->
         To(q, "s_body_identity_eof")
    [] OTHER -> message_complete(q)

s_headers_done(q) == AfterHeaders(CountAnew(q))

s_headers_almost_done(q, t) ==
  LET asked == {"UPGRADE", "CONNECTION_UPGRADE"} \subseteq q.flags
      r == [q EXCEPT !.upgrade = IF asked THEN q.type = "REQUEST" \/ q.status = 101
                                 ELSE q.method = "CONNECT"]
  IN CASE t # "LF" -> Fail(q, "STRICT")
       [] t = "LF" /\ "TRAILING" \in q.flags -> s_message_done(q)
       [] t = "LF" /\ "TRAILING" \notin q.flags ->
            IF {"CHUNKED", "CONTENTLENGTH"} \subseteq q.flags
            THEN Fail(q, "UNEXPECTED_CONTENT_LENGTH") ELSE s_headers_done(r)

-----------------------------------------------------------------------------
(* A header's name.  What is matched so far is one state and one piece; any *)
(* piece no pair names makes the header one of no interest.                 *)

FieldStart == [con |-> "h_CON", proxy |-> "h_matching_proxy_connection",
               transfer |-> "h_matching_transfer_encoding", up |-> "h_matching_upgrade"]

FieldMatch == {
  <<"h_CON", "nection", "h_connection">>,
  <<"h_CON", "tent-length", "h_content_length">>,
  <<"h_matching_proxy_connection", "-connection", "h_connection">>,
  <<"h_matching_transfer_encoding", "-encoding", "h_transfer_encoding">>,
  <<"h_matching_upgrade", "grade", "h_upgrade">>}

Matched(table, s, t, otherwise) ==
  LET r == {x \in table : x[1] = s /\ x[2] = t}
  IN IF r = {} THEN otherwise ELSE (CHOOSE x \in r : TRUE)[3]

s_header_field_start(q, t) ==
  CASE t = "CR" -> To(q, "s_headers_almost_done")
    [] t = "LF" -> s_headers_almost_done(To(q, "s_headers_almost_done"), t)
    [] t \notin {"CR", "LF"} /\ ~TOKEN(t) -> Fail(q, "INVALID_HEADER_TOKEN")
    [] TOKEN(t) ->
         To([MARK(q, "header_field") EXCEPT
               !.hs = IF t \in DOMAIN FieldStart THEN FieldStart[t] ELSE "h_general"],
            "s_header_field")

s_header_field(q, t) ==
  CASE TOKEN(t) -> [q EXCEPT !.hs = Matched(FieldMatch, @, t, "h_general"), !.inner = "yes"]
    [] t = ":"  -> CALLBACK_DATA(To(q, "s_header_value_discard_ws"), "header_field")
    [] OTHER    -> Fail(q, "INVALID_HEADER_TOKEN")

-----------------------------------------------------------------------------
(* A header's value.                                                        *)

HeaderFlag == [h_connection_keep_alive |-> "KEEP_ALIVE", h_connection_close |-> "CLOSE",
               h_connection_upgrade |-> "CONNECTION_UPGRADE",
               h_transfer_encoding_chunked |-> "CHUNKED"]

Settle(q) == IF q.hs \in DOMAIN HeaderFlag THEN Flag(q, HeaderFlag[q.hs]) ELSE q

(* What the first piece of an element of Connection may be the start of.    *)
TokenStart == [keep |-> "h_matching_connection_keep_alive", clo |-> "h_matching_connection_close",
               up |-> "h_matching_connection_upgrade"]

s_header_value_start(q, t) ==
  LET r == To(MARK(q, "header_value"), "s_header_value")
  IN CASE r.hs = "h_upgrade" -> [Flag(r, "UPGRADE") EXCEPT !.hs = "h_general"]
       [] r.hs = "h_transfer_encoding" ->
            [r EXCEPT !.hs = IF t = "chunk" THEN "h_matching_transfer_encoding_chunked"
                             ELSE "h_general"]
       [] r.hs = "h_content_length" ->
            CASE t \notin Num -> Fail(r, "INVALID_CONTENT_LENGTH")
              [] t \in Num /\ "CONTENTLENGTH" \in r.flags -> Fail(r, "UNEXPECTED_CONTENT_LENGTH")
              [] OTHER -> [Flag(r, "CONTENTLENGTH") EXCEPT !.len = Digit[t]]
       [] r.hs = "h_connection" ->
            [r EXCEPT !.hs = IF t \in DOMAIN TokenStart THEN TokenStart[t]
                             ELSE "h_matching_connection_token"]
       [] r.hs = "h_matching_connection_token_start" -> r
       [] OTHER -> [r EXCEPT !.hs = "h_general"]

s_header_value_discard_ws(q, t) ==
  CASE t \in {"SP", "TAB"} -> q
    [] t = "CR"            -> To(q, "s_header_value_discard_ws_almost_done")
    [] t = "LF"            -> To(q, "s_header_value_discard_lws")
    [] OTHER               -> s_header_value_start(q, t)

s_header_value_lws(q, t) ==
  IF t \in {"SP", "TAB"} THEN s_header_value_start(q, t)
  ELSE s_header_field_start(To(Settle(q), "s_header_field_start"), t)

s_header_value_discard_lws(q, t) ==
  IF t \in {"SP", "TAB"} THEN To(q, "s_header_value_discard_ws")
  ELSE s_header_field_start(
         CALLBACK_DATA(To(MARK(Settle(q), "header_value"), "s_header_field_start"),
                       "header_value"), t)

s_header_almost_done(q, t) ==
  IF t = "LF" THEN To(q, "s_header_value_lws") ELSE Fail(q, "LF_EXPECTED")

(* Mutant of MoreLength: no test against overflow.                          *)
LengthWraps(q, t) ==
  CASE t = "SP"  -> q
    [] t \in Num -> [q EXCEPT !.len = (q.len * 10 + Digit[t]) % (LenMax + 1)]
    [] OTHER     -> Fail(q, "INVALID_CONTENT_LENGTH")

MoreLength(q, t) ==
  CASE t = "SP"      -> q
    [] t \notin {"SP"} \cup Num -> Fail(q, "INVALID_CONTENT_LENGTH")
    [] t \in Num     -> IF (LenMax - 10) \div 10 < q.len THEN Fail(q, "INVALID_CONTENT_LENGTH")
                        ELSE [q EXCEPT !.len = (q.len * 10 + Digit[t]) % (LenMax + 1)]

ValueMatch == {
  <<"h_matching_connection_keep_alive", "-alive", "h_connection_keep_alive">>,
  <<"h_matching_connection_close", "se", "h_connection_close">>,
  <<"h_matching_connection_upgrade", "grade", "h_connection_upgrade">>}

(* The state after one more piece of a list in Connection.                  *)
ListStep(s, t) ==
  CASE s = "h_matching_connection_token_start" ->
         CASE t \in DOMAIN TokenStart  -> TokenStart[t]
           [] LOWER(t) \in {"SP", "TAB"} -> s
           [] t \notin DOMAIN TokenStart /\ TOKEN(t) -> "h_matching_connection_token"
           [] OTHER -> "h_general"
    [] s = "h_matching_connection_token" ->
         IF t = "," THEN "h_matching_connection_token_start" ELSE s
    [] s \in {"h_connection_keep_alive", "h_connection_close", "h_connection_upgrade"} ->
         CASE t = ","  -> "h_matching_connection_token_start"
           [] t = "SP" -> s
           [] OTHER    -> "h_matching_connection_token"
    [] OTHER -> Matched(ValueMatch, s, t, "h_matching_connection_token")

(* With nothing to recognise, memchr finds the end of the line: the bytes   *)
(* it passes over in this call are not looked at.                           *)
ValueByte(q, t) ==
  LET r == [q EXCEPT !.inner = "yes"]
  IN CASE r.hs = "h_general" -> [r EXCEPT !.inner = "skip"]
       [] r.hs \in {"h_connection", "h_transfer_encoding"} -> Claim(r, FALSE)
       [] r.hs = "h_content_length" -> MoreLength(r, t)
       [] r.hs = "h_matching_transfer_encoding_chunked" ->
            [r EXCEPT !.hs = IF t = "ed" THEN "h_transfer_encoding_chunked" ELSE "h_general"]
       [] r.hs = "h_transfer_encoding_chunked" ->
            [r EXCEPT !.hs = IF t = "SP" THEN @ ELSE "h_general"]
       [] OTHER -> [(IF t = "," THEN Settle(r) ELSE r) EXCEPT !.hs = ListStep(@, t)]

s_header_value(q, t) ==
  LET r == CALLBACK_DATA(To(q, "s_header_almost_done"), "header_value")
  IN CASE t = "CR" -> r
       [] t = "LF" -> s_header_almost_done(r, t)
       [] q.inner = "skip" /\ t \notin {"CR", "LF"} -> q
       [] q.inner # "skip" /\ ~IS_HEADER_CHAR(t) -> Fail(q, "INVALID_HEADER_TOKEN")
       [] OTHER -> ValueByte(q, t)

-----------------------------------------------------------------------------
(* Bodies.  The code takes as much of a body as the read holds; here each   *)
(* byte of it is taken alone.                                               *)

Take(q, t) ==
  LET r == Claim(MARK(q, "body"), q.len \notin {0, LenMax})
  IN [r EXCEPT !.len = @ - 1, !.text["body"] = Append(@, t)]

s_body_identity(q, t) ==
  LET r == Take(q, t)
  IN IF r.len > 0 THEN r ELSE s_message_done(CALLBACK_DATA(To(r, "s_message_done"), "body"))

s_body_identity_eof(q, t) == [MARK(q, "body") EXCEPT !.text["body"] = Append(@, t)]

s_chunk_size_start(q, t) ==
  LET r == Claim(q, q.nread = 1)
  IN IF t \in Hex THEN To([r EXCEPT !.len = Unhex(t)], "s_chunk_size")
     ELSE Fail(r, "INVALID_CHUNK_SIZE")

s_chunk_size(q, t) ==
  CASE t = "CR"         -> To(q, "s_chunk_size_almost_done")
    [] t \in {";", "SP"} -> To(q, "s_chunk_parameters")
    [] t \in Hex -> IF (LenMax - 16) \div 16 < q.len THEN Fail(q, "INVALID_CONTENT_LENGTH")
                    ELSE [q EXCEPT !.len = (q.len * 16 + Unhex(t)) % (LenMax + 1)]
    [] OTHER     -> Fail(q, "INVALID_CHUNK_SIZE")

s_chunk_parameters(q, t) == IF t = "CR" THEN To(q, "s_chunk_size_almost_done") ELSE q

s_chunk_size_almost_done(q, t) ==
  LET r == CountAnew(q)
  IN CASE t # "LF"               -> Fail(q, "STRICT")
       [] t = "LF" /\ q.len = 0  -> To(Flag(r, "TRAILING"), "s_header_field_start")
       [] t = "LF" /\ q.len # 0  -> To(r, "s_chunk_data")

s_chunk_data(q, t) ==
  LET r == Take(q, t) IN IF r.len = 0 THEN To(r, "s_chunk_data_almost_done") ELSE r

s_chunk_data_almost_done(q, t) ==
  LET r == Claim(q, q.len = 0)
  IN IF t = "CR" THEN CALLBACK_DATA(To(r, "s_chunk_data_done"), "body") ELSE Fail(r, "STRICT")

s_chunk_data_done(q, t) ==
  IF t = "LF" THEN To(CountAnew(q), "s_chunk_size_start") ELSE Fail(q, "STRICT")

-----------------------------------------------------------------------------
(* The loop of http_parser_execute.                                         *)

(* COUNT_HEADER_SIZE: one per byte, and one more at the start of a run of   *)
(* bytes of a name or value that another state, or another read, began.     *)
Counted(q, t) ==
  CASE ~PARSING_HEADER(q.st) -> 0
    [] q.st \in {"s_header_field", "s_header_value"} ->
         LET ends == IF q.st = "s_header_field" THEN ~TOKEN(t) ELSE t \in {"CR", "LF"}
         IN (IF q.inner = "no" THEN 1 ELSE 0) + (IF ends THEN 0 ELSE 1)
    [] OTHER -> 1

InState(q, t) ==
  CASE q.st = "s_dead"                   -> s_dead(q, t)
    [] q.st = "s_start_res"              -> s_start_res(q, t)
    [] q.st \in DOMAIN Letters           -> Literal(q, t)
    [] q.st \in {"s_res_http_major", "s_res_http_dot", "s_res_http_minor", "s_res_http_end",
                 "s_req_http_major", "s_req_http_dot", "s_req_http_minor", "s_req_http_end"}
                                         -> Version(q, t)
    [] q.st = "s_res_first_status_code"  -> s_res_first_status_code(q, t)
    [] q.st = "s_res_status_code"        -> s_res_status_code(q, t)
    [] q.st = "s_res_status_start"       -> s_res_status_start(q, t)
    [] q.st = "s_res_status"             -> s_res_status(q, t)
    [] q.st = "s_start_req"              -> s_start_req(q, t)
    [] q.st = "s_req_method"             -> s_req_method(q, t)
    [] q.st = "s_req_spaces_before_url"  -> s_req_spaces_before_url(q, t)
    [] q.st \in UrlState                 -> s_req_url(q, t)
    [] q.st = "s_req_http_start"         -> s_req_http_start(q, t)
    [] q.st = "s_req_line_almost_done"   -> s_req_line_almost_done(q, t)
    [] q.st = "s_header_field_start"     -> s_header_field_start(q, t)
    [] q.st = "s_header_field"           -> s_header_field(q, t)
    [] q.st = "s_header_value_discard_ws" -> s_header_value_discard_ws(q, t)
    [] q.st = "s_header_value_discard_lws" -> s_header_value_discard_lws(q, t)
    [] q.st = "s_header_value"           -> s_header_value(q, t)
    [] q.st = "s_header_value_lws"       -> s_header_value_lws(q, t)
    [] q.st = "s_header_almost_done"     -> s_header_almost_done(q, t)
    [] q.st = "s_headers_almost_done"    -> s_headers_almost_done(q, t)
    [] q.st = "s_chunk_size_start"       -> s_chunk_size_start(Claim(q, "CHUNKED" \in q.flags), t)
    [] q.st = "s_chunk_size"             -> s_chunk_size(q, t)
    [] q.st = "s_chunk_parameters"       -> s_chunk_parameters(q, t)
    [] q.st = "s_chunk_size_almost_done" -> s_chunk_size_almost_done(q, t)
    [] q.st = "s_chunk_data"             -> s_chunk_data(q, t)
    [] q.st = "s_chunk_data_almost_done" -> s_chunk_data_almost_done(q, t)
    [] q.st = "s_chunk_data_done"        -> s_chunk_data_done(q, t)
    [] q.st = "s_body_identity"          -> s_body_identity(q, t)
    [] q.st = "s_body_identity_eof"      -> s_body_identity_eof(q, t)
    [] OTHER                             -> Fail(Claim(q, FALSE), "INVALID_INTERNAL_STATE")

(* What a mark holds after the byte t, of which q was before it: the bytes  *)
(* from where it was set, this one too, unless the state set the mark and   *)
(* took the byte itself.                                                    *)
Held(r, q, t, m) ==
  CASE m \notin r.marks -> <<>>
    [] m \in r.marks /\ Len(r.text[m]) > Len(q.text[m]) -> r.text[m]
    [] OTHER -> Append(r.text[m], t)

Taken(r, q, t) ==
  [r EXCEPT !.text = [m \in Mark |-> Held(r, q, t, m)],
            !.inner = IF r.st = q.st THEN @ ELSE "no"]

(* One byte.                                                                *)
Feed(q, t) ==
  LET n == [q EXCEPT !.nread = @ + Counted(q, t), !.some = TRUE]
  IN Taken(IF Counted(q, t) > 0 /\ n.nread > MaxHeader THEN Fail(n, "HEADER_OVERFLOW")
           ELSE InState(n, t),
           q, t)

(* The end of a read: what is marked is delivered.                          *)
Flush(q) ==
  LET o == Claim(q, Cardinality(q.marks) <= 1)
      headers == CALLBACK_DATA(CALLBACK_DATA(o, "header_field"), "header_value")
      r == CALLBACK_DATA(CALLBACK_DATA(CALLBACK_DATA(headers, "url"), "body"), "status")
  IN IF q.errno # "OK" THEN q ELSE r

(* Mutant of Enter: a value that the last read began is not marked again.   *)
EnterUnmarked(q) ==
  [q EXCEPT !.text = NoText, !.inner = "no", !.exit = FALSE, !.some = FALSE,
            !.marks = IF q.st = "s_header_field" THEN {"header_field"} ELSE {}]

(* The start of the next: marks are local to the call.                      *)
Enter(q) ==
  [q EXCEPT !.text = NoText, !.inner = "no", !.exit = FALSE, !.some = FALSE,
            !.marks = CASE q.st = "s_header_field" -> {"header_field"}
                        [] q.st = "s_header_value" -> {"header_value"}
                        [] q.st \in UrlState       -> {"url"}
                        [] q.st = "s_res_status"   -> {"status"}
                        [] OTHER                   -> {}]

(* The call with no bytes, at the end of the peer's data.                   *)
ExecuteEof(q) ==
  CASE q.st = "s_body_identity_eof" -> message_complete(q)
    [] q.st \in {"s_dead", "s_start_res", "s_start_req"} -> q
    [] OTHER -> Fail(q, "INVALID_EOF_STATE")

-----------------------------------------------------------------------------
Stream == plan[at]

(* wrk reads its URL, or has read it and talks to its peers.                *)
Init ==
  /\ parts = [read |-> FALSE, ok |-> FALSE, u |-> NoParts]
  /\ \/ url \in Urls /\ plan = <<>> /\ at = 0
     \/ url = [text |-> <<>>, is |-> <<>>] /\ plan \in Plans /\ at = 1
  /\ pos = 0
  /\ p = IF at = 0 THEN Enter(NewParser("RESPONSE")) ELSE Enter(NewParser(plan[1].type))
  /\ uncut = p

ParseUrl ==
  /\ at = 0 /\ ~parts.read
  /\ parts' = [read |-> TRUE] @@ script_parse_url(url.text)
  /\ UNCHANGED <<url, plan, at, pos, p, uncut>>

(* The parser takes the next byte of the call.                              *)
Byte ==
  /\ at > 0 /\ pos < Len(Stream.sent)
  /\ p.errno = "OK" /\ ~p.exit
  /\ pos' = pos + 1
  /\ p' = Feed(p, Stream.sent[pos + 1])
  /\ uncut' = IF uncut.errno = "OK" /\ ~uncut.exit THEN Feed(uncut, Stream.sent[pos + 1]) ELSE uncut
  /\ UNCHANGED <<url, parts, plan, at>>

(* The read ends here and another begins; a request comes in one piece.     *)
Cut ==
  /\ at > 0 /\ Stream.type = "RESPONSE"
  /\ p.some /\ p.errno = "OK" /\ ~p.closed
  /\ p' = Enter(Flush(p))
  /\ uncut' = [uncut EXCEPT !.exit = FALSE]
  /\ UNCHANGED <<url, parts, plan, at, pos>>

(* The peer is done: a read of no bytes.  socket_readable takes it for an   *)
(* error, also when it completed an answer.                                 *)
Eof ==
  /\ at > 0 /\ Stream.type = "RESPONSE"
  /\ pos = Len(Stream.sent) /\ p.errno = "OK" /\ ~p.closed /\ ~p.some
  /\ p' = [ExecuteEof(p) EXCEPT !.closed = TRUE]
  /\ uncut' = [ExecuteEof(Flush(uncut)) EXCEPT !.closed = TRUE]
  /\ UNCHANGED <<url, parts, plan, at, pos>>

(* socket_readable sees fewer bytes parsed than read, or response_complete  *)
(* saw that the peer does not keep the connection: reconnect_socket, and in *)
(* socket_connected the parser as new, the script's buffers as they are.    *)
Reconnect ==
  /\ at > 0 /\ at < Len(plan)
  /\ p.errno # "OK" \/ p.closed \/ (p.exit /\ pos < Len(Stream.sent))
  /\ at' = at + 1 /\ pos' = 0
  /\ p' = Enter([http_parser_init(p) EXCEPT !.closed = FALSE, !.done = <<>>,
                   !.stale = p.headers # <<>> \/ p.body # <<>>])
  /\ uncut' = p'
  /\ UNCHANGED <<url, parts, plan>>

Next == ParseUrl \/ Byte \/ Cut \/ Eof \/ Reconnect

Spec == Init /\ [][Next]_vars
===============================================================================
