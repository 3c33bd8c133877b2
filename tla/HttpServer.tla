------------------------------- MODULE HttpServer -------------------------------
(***************************************************************************)
(* One connection of an HttpServer: the HttpContext that parses what the   *)
(* connection has received, and OnMessage, which answers the requests.     *)
(* The peer's bytes arrive in pieces of any size; each piece is appended   *)
(* to _in_buffer and OnMessage runs to its end before the next one.  Its   *)
(* loop is taken step by step.  Shutdown inside OnMessage calls OnMessage  *)
(* again when _in_buffer is not empty, so there may be several frames.     *)
(***************************************************************************)
EXTENDS HttpTokens, HttpUtil

CONSTANTS Inputs, MaxLine, Status, HandlerSays   (* as in HttpStream        *)

ASSUME ServerAssumption ==
  /\ Inputs \subseteq Seq(Token)
  /\ MaxLine \in Nat /\ MaxLine >= 2
  /\ Status \subseteq Nat
  /\ HandlerSays \subseteq {"close", "keep-alive"}

VARIABLES
  coming,   (* what the peer will still send                               *)
  buffer,   (* _in_buffer                                                  *)
  recv,     (* _recv_status                                                *)
  resp,     (* _resp_status                                                *)
  request,  (* _request: path, parameters, headers and body                *)
  frames,   (* calls of OnMessage under way                                *)
  pc,       (* where the innermost one is                                  *)
  statu,    (* the connection's _statu                                     *)
  out,      (* _out_buffer is not empty                                    *)
  answers,  (* history: the responses                                      *)
  taken     (* history: what the parser has taken of the current request   *)

context == <<recv, resp, request>>
vars    == <<coming, buffer, context, frames, pc, statu, out, answers, taken>>

NoRequest == [path |-> <<>>, params |-> {}, fields |-> {}, body |-> <<>>]

Init ==
  /\ coming \in Inputs
  /\ buffer = <<>>
  /\ recv = "LINE" /\ resp = 200 /\ request = NoRequest
  /\ frames = 0 /\ pc = "idle"
  /\ statu = "CONNECTED" /\ out = FALSE
  /\ answers = <<>>
  /\ taken = <<>>

Drop(s, k) == SubSeq(s, k + 1, Len(s))

-------------------------------------------------------------------------------
(* The connection.                                                          *)

(* HandleRead with data: a piece of any size, and the message callback.     *)
Receive(n) ==
  /\ frames = 0 /\ statu # "DISCONNECTED"
  /\ buffer' = buffer \o SubSeq(coming, 1, n)
  /\ coming' = Drop(coming, n)
  /\ frames' = 1 /\ pc' = "test"
  /\ UNCHANGED <<context, statu, out, answers, taken>>

(* HandleRead at the end of the peer's data: ShutdownInLoop, which calls    *)
(* the message callback for what is left, and releases if nothing is to be  *)
(* sent.                                                                    *)
EndOfData ==
  /\ frames = 0 /\ statu # "DISCONNECTED"
  /\ coming = <<>>
  /\ IF buffer = <<>>
     THEN /\ statu' = IF out THEN "DISCONNECTING" ELSE "DISCONNECTED"
          /\ UNCHANGED <<frames, pc>>
     ELSE statu' = "DISCONNECTING" /\ frames' = 1 /\ pc' = "test"
  /\ UNCHANGED <<coming, buffer, context, out, answers, taken>>

(* HandleWrite with all of the output taken by the socket.                  *)
HandleWrite ==
  /\ frames = 0 /\ statu # "DISCONNECTED"
  /\ out
  /\ out' = FALSE
  /\ statu' = IF statu = "DISCONNECTING" THEN "DISCONNECTED" ELSE statu
  /\ UNCHANGED <<coming, buffer, context, frames, pc, answers, taken>>

-------------------------------------------------------------------------------
(* HttpContext::RecvHttpRequest.                                            *)

HasLine(b) == \E i \in 1 .. Len(b) : b[i] = NL
LineLen(b) == CHOOSE i \in 1 .. Len(b) : b[i] = NL /\ \A j \in 1 .. i - 1 : b[j] # NL

(* GetLineAndPop takes the line with its newline.                           *)
PopLine ==
  /\ buffer' = Drop(buffer, LineLen(buffer))
  /\ taken' = taken \o SubSeq(buffer, 1, LineLen(buffer))

Fail(status) == recv' = "ERROR" /\ resp' = status /\ pc' = "received"

Receiving(s) == pc = "recv" /\ recv = s

(* RecvHttpLine and RecvHttpHead without a whole line.                      *)
NoLineYet ==
  /\ Receiving("LINE") \/ Receiving("HEAD")
  /\ ~HasLine(buffer)
  /\ IF Len(buffer) > MaxLine
     THEN Fail(414)
     ELSE pc' = "received" /\ UNCHANGED <<recv, resp>>
  /\ UNCHANGED <<coming, buffer, request, frames, statu, out, answers, taken>>

LineTooLong ==
  /\ Receiving("LINE") \/ Receiving("HEAD")
  /\ HasLine(buffer) /\ LineLen(buffer) > MaxLine
  /\ PopLine
  /\ Fail(414)
  /\ UNCHANGED <<coming, request, frames, statu, out, answers>>

Line == /\ HasLine(buffer) /\ LineLen(buffer) <= MaxLine
        /\ PopLine

(* What a client writes for a target, as RFC 3986 and HTML forms have it:   *)
(* letters, digits and . - _ ~ stay, and the slashes of a path; a space of  *)
(* a query becomes +, every other byte %HH.                                 *)
Unreserved == Digit \cup 65 .. 90 \cup 97 .. 122 \cup {46, 45, 95, 126}
Slash == 47

HexDigit(n) == IF n < 10 THEN 48 + n ELSE 55 + n

Escape(c) == <<Percent, HexDigit(c \div 16), HexDigit(c % 16)>>

InPath(text) ==
  FlattenSeq([i \in 1 .. Len(text) |->
    IF text[i] \in Unreserved \cup {Slash} THEN <<text[i]>> ELSE Escape(text[i])])

InQuery(text) ==
  FlattenSeq([i \in 1 .. Len(text) |->
    CASE text[i] \in Unreserved -> <<text[i]>>
      [] text[i] = Space        -> <<Plus>>
      [] OTHER                  -> Escape(text[i])])

WriteParam(p) == InQuery(p.key) \o (IF p.bare THEN <<>> ELSE <<Equals>> \o InQuery(p.val))

WriteTarget(m) ==
  [path  |-> InPath(m.path),
   query |-> FlattenSeq([i \in 1 .. Len(m.params) |->
               (IF i = 1 THEN <<>> ELSE <<Amp>>) \o WriteParam(m.params[i])])]

Parsed == [n \in 1 .. Len(Meant) |-> ParseHttpLine(WriteTarget(Meant[n]))]

RecvHttpLine ==
  /\ Receiving("LINE")
  /\ Line
  /\ IF LineLen(buffer) = 2 /\ buffer[1].kind = "request" /\ Parsed[buffer[1].n].ok
     THEN /\ request' = [request EXCEPT !.path = Parsed[buffer[1].n].path,
                                        !.params = Parsed[buffer[1].n].params]
          /\ recv' = "HEAD"
          /\ UNCHANGED <<resp, pc>>
     ELSE Fail(400) /\ UNCHANGED request
  /\ UNCHANGED <<coming, frames, statu, out, answers>>

(* One turn of RecvHttpHead's loop.                                         *)
RecvHttpHead ==
  /\ Receiving("HEAD")
  /\ Line
  /\ \/ /\ LineLen(buffer) = 1
        /\ recv' = "BODY"
        /\ UNCHANGED <<resp, request, pc>>
     \/ /\ LineLen(buffer) = 2 /\ IsField(buffer[1])
        /\ request' = [request EXCEPT !.fields = SetHeader(@, buffer[1])]
        /\ UNCHANGED <<recv, resp, pc>>
     \/ /\ LineLen(buffer) # 1 /\ ~(LineLen(buffer) = 2 /\ IsField(buffer[1]))
        /\ Fail(400)
        /\ UNCHANGED request
  /\ UNCHANGED <<coming, frames, statu, out, answers>>

Need == ContentLength(request.fields) - Len(request.body)

TakeBody(n) ==
  /\ request' = [request EXCEPT !.body = @ \o SubSeq(buffer, 1, n)]
  /\ buffer' = Drop(buffer, n)
  /\ taken' = taken \o SubSeq(buffer, 1, n)
  /\ recv' = IF n >= Need THEN "OVER" ELSE "BODY"
  /\ pc' = "received"
  /\ UNCHANGED <<coming, resp, frames, statu, out, answers>>

RecvHttpBody ==
  /\ Receiving("BODY")
  /\ TakeBody(IF Need <= Len(buffer) THEN Need ELSE Len(buffer))

-------------------------------------------------------------------------------
(* HttpServer::OnMessage.                                                   *)

ResetKeepsRequest ==
  /\ recv' = "LINE" /\ resp' = 200
  /\ taken' = <<>>
  /\ UNCHANGED request

Reset ==
  /\ recv' = "LINE" /\ resp' = 200 /\ request' = NoRequest
  /\ taken' = <<>>

Return ==
  /\ frames' = frames - 1
  /\ pc' = IF frames = 1 THEN "idle" ELSE "test"

(* ... to HandleRead or to ShutdownInLoop, which releases the connection if *)
(* there is nothing to send.                                                *)
ReturnAsIs ==
  /\ Return
  /\ statu' = IF frames = 1 /\ statu = "DISCONNECTING" /\ ~out THEN "DISCONNECTED" ELSE statu

TestBuffer ==
  /\ pc = "test"
  /\ IF buffer = <<>> THEN ReturnAsIs ELSE pc' = "recv" /\ UNCHANGED <<frames, statu>>
  /\ UNCHANGED <<coming, buffer, context, out, answers, taken>>

(* MakeResponse sets a Connection header after the request, unless the      *)
(* handler has set one: SetHeader keeps the first.                          *)
Asked(fields) == IF IsShortConnection(fields) THEN "close" ELSE "keep-alive"

(* ErrorHandler, MakeResponse, Reset, the buffer emptied, Shutdown.         *)
RefuseRequest ==
  /\ pc = "received"
  /\ resp >= 400
  /\ answers' = Append(answers, [target |-> [path |-> <<>>, params |-> {}], body |-> <<>>,
                                 status |-> resp, says |-> Asked(request.fields), refusal |-> TRUE])
  /\ Reset
  /\ buffer' = <<>>
  /\ statu' = "DISCONNECTING" /\ out' = TRUE
  /\ Return
  /\ UNCHANGED coming

TryAgain ==
  /\ pc = "received"
  /\ resp < 400 /\ recv # "OVER"
  /\ pc' = "test"
  /\ UNCHANGED <<coming, buffer, context, frames, statu, out, answers, taken>>

AwaitMore ==
  /\ pc = "received"
  /\ resp < 400 /\ recv # "OVER"
  /\ ReturnAsIs
  /\ UNCHANGED <<coming, buffer, context, out, answers, taken>>

(* Shutdown after a short connection's response, without what it calls.     *)
ShutdownOnly ==
  /\ statu' = "DISCONNECTING"
  /\ Return

(* Shutdown, called in the loop: ShutdownInLoop calls OnMessage for what is *)
(* left; it does not release, for a response is in _out_buffer.             *)
Shutdown ==
  /\ statu' = "DISCONNECTING"
  /\ frames' = IF buffer = <<>> THEN frames ELSE frames + 1
  /\ pc' = "test"

(* Route: a file of the base directory, no handler, or what a handler makes *)
(* of it.  A file is found or not whatever was found for the last request;  *)
(* one that is gone before it is read makes an empty answer of status 200.  *)
Route(fields) ==
  {[status |-> st, says |-> Asked(fields)] : st \in {200, 404}}
    \cup [status : Status, says : HandlerSays \cup {Asked(fields)}]

ShortByRequest(says, fields) == IsShortConnection(fields)

(* HttpResponse::IsShortConnection, which decides, not the request's.       *)
IsShort(says, fields) == says # "keep-alive"

(* Route, MakeResponse and Reset; then Shutdown or the next request.        *)
AnswerRequest ==
  /\ pc = "received"
  /\ resp < 400 /\ recv = "OVER"
  /\ \E r \in Route(request.fields) :
       /\ answers' = Append(answers,
            [target |-> [path |-> request.path, params |-> request.params], body |-> request.body,
             status |-> r.status, says |-> r.says, refusal |-> FALSE])
       /\ IF IsShort(r.says, request.fields) THEN Shutdown
          ELSE pc' = "test" /\ UNCHANGED <<statu, frames>>
  /\ out' = TRUE
  /\ Reset
  /\ UNCHANGED <<coming, buffer>>

OnMessage ==
  \/ TestBuffer
  \/ NoLineYet \/ LineTooLong \/ RecvHttpLine \/ RecvHttpHead \/ RecvHttpBody
  \/ RefuseRequest \/ AwaitMore \/ AnswerRequest

Next ==
  \/ \E n \in 1 .. Len(coming) : Receive(n)
  \/ EndOfData
  \/ HandleWrite
  \/ OnMessage

Spec == Init /\ [][Next]_vars

(* The loop's thread goes on with a handler it is in.                       *)
FairSpec == Spec /\ WF_vars(OnMessage)

-------------------------------------------------------------------------------
(* When OnMessage has returned, nothing it could have dealt with is left:   *)
(* only new data calls it again, so a whole request, a refusable line or a  *)
(* byte of the body in hand must not stay behind in _in_buffer.             *)
NothingLeftBehind ==
  pc = "idle" =>
    /\ resp = 200
    /\ \/ recv \in {"LINE", "HEAD"} /\ ~HasLine(buffer) /\ Len(buffer) <= MaxLine
       \/ recv = "BODY" /\ buffer = <<>> /\ Need > 0

(* What an answer tells the client of the connection is what the server     *)
(* does: after "close" it is not kept, and it is closed by the server only  *)
(* after an answer that said so, after a refusal (which may have said       *)
(* "keep-alive": MakeResponse looks at the headers parsed so far) or after  *)
(* the end of the client's data.  OnMessage decides by the response, which  *)
(* a handler may have set, in nested calls too.                             *)
KeepsItsWord ==
  pc = "idle" =>
    LET says == {answers[i].says : i \in 1 .. Len(answers)}
    IN  /\ "close" \in says => statu # "CONNECTED"
        /\ statu # "CONNECTED" =>
             \/ "close" \in says \/ coming = <<>>
             \/ \E i \in 1 .. Len(answers) : answers[i].refusal

(* However the client's bytes are cut, and through the nested calls, the    *)
(* server answers the requests of the stream, in order, each by its own     *)
(* request line, headers and body (HttpContext keeps its state across       *)
(* pieces and Reset clears it between requests).  What the text of a        *)
(* request line means is TargetIsMeant's.                                   *)
Stream == INSTANCE HttpStream WITH rest <- taken \o buffer \o coming, Read <- Parsed

CutsDoNotMatter == Stream!StreamSpec

(* What a request is answered for is what its client meant: the path, and   *)
(* of parameters with the same key the first, byte for byte (UrlDecode      *)
(* undoes what clients do to them).  Only a parameter written without "="   *)
(* makes ParseHttpLine refuse a request line.  A query of one parameter is  *)
(* left to the next property.                                               *)
LineAccepted == recv \in {"HEAD", "BODY", "OVER"}
LineRefused  == resp = 400 /\ Len(taken) = 2 /\ taken[1].kind = "request"

Asks == Meant[taken[1].n]

FirstValues(ps) ==
  {[key |-> ps[i].key, val |-> ps[i].val] :
     i \in {k \in 1 .. Len(ps) : \A j \in 1 .. k - 1 : ps[j].key # ps[k].key}}

TargetIsMeant ==
  /\ LineAccepted => request.path = Asks.path
  /\ LineAccepted /\ Len(Asks.params) # 1 => request.params = FirstValues(Asks.params)
  /\ LineRefused => \E i \in 1 .. Len(Asks.params) : Asks.params[i].bare

(* ... and so is the parameter of a query that has only one: Util::Split    *)
(* makes what comes after the last separator a part of its own, and without *)
(* a separator that is the whole query.                                     *)
LoneParameterIsRead ==
  LineAccepted /\ Len(Asks.params) = 1 /\ ~Asks.params[1].bare
    => request.params = FirstValues(Asks.params)

(* Every call of OnMessage returns, also with a partial request in the      *)
(* buffer and after the nested calls.                                       *)
HandlerReturns == (pc # "idle") ~> (pc = "idle")

===============================================================================
