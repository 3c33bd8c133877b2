------------------------------- MODULE HttpStream -------------------------------
(***************************************************************************)
(* What the HTTP server promises a client about requests and answers,      *)
(* whatever pieces the requests arrive in: the client's bytes are one      *)
(* stream; the server answers the requests in it one after the other, each *)
(* once, each by what is in it; a malformed request is answered with 400   *)
(* or 414, and then some part of what follows it is skipped.  There is no  *)
(* buffer, parser state or call structure here: HttpServer implements it.  *)
(* What the text of a request line is read as is a parameter.              *)
(***************************************************************************)
EXTENDS HttpTokens

CONSTANTS
  Inputs,         (* the streams clients send                              *)
  MaxLine,        (* MAX_LINE, in tokens                                   *)
  Status,         (* the statuses handlers answer with                     *)
  HandlerSays,    (* what handlers themselves may set Connection to        *)
  Read            (* what the n-th request line is read as, in one piece:  *)
                  (* [ok, path, params], ok unless it is refused           *)

VARIABLES
  rest,     (* the stream from the first byte of the next request on       *)
  answers   (* the responses                                               *)

streamVars == <<rest, answers>>

Drop(s, k) == SubSeq(s, k + 1, Len(s))

IsRequestLine(t) == t.kind = "request" /\ Read[t.n].ok

(* s begins with a request line and h header lines, all well formed.        *)
BeginsWell(s, h) ==
  /\ Len(s) >= 2 * h + 2
  /\ IsRequestLine(s[1]) /\ s[2] = NL
  /\ \A i \in 1 .. h : IsField(s[2 * i + 1]) /\ s[2 * i + 2] = NL

FieldAt(s, i) == s[2 * i + 1]

(* Of two header lines with the same key the first counts.                  *)
Fields(s, h) ==
  {FieldAt(s, i) : i \in {k \in 1 .. h : \A j \in 1 .. k - 1 :
                                           FieldAt(s, j).kind # FieldAt(s, k).kind}}

(* The first k tokens of the stream are a request with h header lines.      *)
IsRequest(k, h) ==
  /\ k <= Len(rest)
  /\ BeginsWell(rest, h)
  /\ k >= 2 * h + 3
  /\ rest[2 * h + 3] = NL
  /\ k = 2 * h + 3 + ContentLength(Fields(rest, h))

(* The path and the parameters a request is answered by.                    *)
Target(n) == [path |-> Read[n].path, params |-> Read[n].params]

NoTarget == [path |-> <<>>, params |-> {}]

(* What a response says of the connection: the request decides, or the      *)
(* handler that answers it.                                                 *)
Asked(fields) == IF IsShortConnection(fields) THEN "close" ELSE "keep-alive"

Answer(k, h) ==
  /\ IsRequest(k, h)
  /\ LET fields == Fields(rest, h) IN
       \E st \in Status \cup {200, 404}, says \in HandlerSays \cup {Asked(fields)} :
         answers' = Append(answers, [target |-> Target(rest[1].n), body |-> SubSeq(rest, 2 * h + 4, k),
                                     status |-> st, says |-> says, refusal |-> FALSE])
  /\ rest' = Drop(rest, k)

(* The line that follows a good beginning, or the first one, is too long.   *)
TooLong(s) == Len(s) > MaxLine /\ \A i \in 1 .. MaxLine : s[i] # NL

BadLine(s, first) ==
  \E l \in 1 .. MaxLine :
    /\ l <= Len(s) /\ s[l] = NL /\ \A i \in 1 .. l - 1 : s[i] # NL
    /\ first => ~(l = 2 /\ IsRequestLine(s[1]))
    /\ ~first => ~(l = 1 \/ (l = 2 /\ IsField(s[1])))

(* A refusal, too, says of the connection what the headers so far ask for.  *)
Refusal(st, fields) ==
  [target |-> NoTarget, body |-> <<>>, status |-> st, says |-> Asked(fields), refusal |-> TRUE]

Reject(begun, fields, first) ==
  /\ LET bad == Drop(rest, begun)
     IN  \/ TooLong(bad) /\ answers' = Append(answers, Refusal(414, fields))
         \/ BadLine(bad, first) /\ answers' = Append(answers, Refusal(400, fields))
  /\ \E m \in begun + 1 .. Len(rest) : rest' = Drop(rest, m)

StreamInit == rest \in Inputs /\ answers = <<>>

StreamNext ==
  \/ \E k, h \in 0 .. Len(rest) : Answer(k, h)
  \/ Reject(0, {}, TRUE)
  \/ \E h \in 0 .. Len(rest) : BeginsWell(rest, h) /\ Reject(2 * h + 2, Fields(rest, h), FALSE)

StreamSpec == StreamInit /\ [][StreamNext]_streamVars

===============================================================================
