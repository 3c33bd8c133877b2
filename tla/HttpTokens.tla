------------------------------- MODULE HttpTokens -------------------------------
(***************************************************************************)
(* The bytes of an HTTP connection as far as the parser tells them apart.  *)
(* A token is a piece of text without a newline, or the newline NL:        *)
(*   "request"     the whole text of a request line of the right form, n   *)
(*                 names what its client means by the target               *)
(*   "connection"  Connection: keep-alive (n = 1) or another value (n = 0) *)
(*   "length"      Content-Length: n                                       *)
(*   "field"       any other "key: value"                                  *)
(*   "junk"        text that is none of these                              *)
(* A line may consist of several tokens: then it is none of these either.  *)
(***************************************************************************)
EXTENDS Naturals, Sequences

CONSTANT Meant   (* what clients mean: [path, a sequence of bytes,          *)
                 (* params, a sequence of [key, val, bare]]; a bare         *)
                 (* parameter is written without "=" and value              *)

Kind  == {"request", "connection", "length", "field", "junk", "nl"}
Token == {t \in [kind : Kind, n : Nat] : t.kind = "request" => t.n \in 1 .. Len(Meant)}

NL == [kind |-> "nl", n |-> 0]

IsField(t) == t.kind \in {"connection", "length", "field"}

(* HttpRequest::SetHeader inserts into a map: the first value of a key      *)
(* stays.                                                                   *)
SetHeader(fields, t) ==
  IF \E u \in fields : u.kind = t.kind THEN fields ELSE fields \cup {t}

ContentLength(fields) ==
  IF \E t \in fields : t.kind = "length"
  THEN (CHOOSE t \in fields : t.kind = "length").n
  ELSE 0

IsShortConnection(fields) == [kind |-> "connection", n |-> 1] \notin fields

===============================================================================
