-------------------------------- MODULE HttpUtil --------------------------------
(***************************************************************************)
(* class Util of http.hpp, as far as a request line needs it: splitting a  *)
(* query and decoding the text of a URL.  A text is a sequence of bytes    *)
(* 0 .. 255.                                                               *)
(***************************************************************************)
EXTENDS Integers, SequencesExt

Amp     == 38
Equals  == 61
Percent == 37
Plus    == 43
Space   == 32

Digit  == 48 .. 57
UpperHex == 65 .. 70
LowerHex == 97 .. 102

-------------------------------------------------------------------------------
(* Util::Split.  Each turn of its loop takes one separator; the test of the *)
(* rest compares its offset with the number of parts found so far, which    *)
(* are equal only at the beginning: a text without a separator yields       *)
(* nothing (HttpServer, LoneParameterIsRead).                               *)
Part(s, from, to) == IF from > to THEN <<>> ELSE <<SubSeq(s, from, to)>>

Rest(s, from, parts) ==
  IF from - 1 = Len(parts) THEN <<>> ELSE Part(s, from, Len(s))

Split(s, sep) ==
  LET end == FoldLeftDomain(
               LAMBDA a, i : IF s[i] = sep
                             THEN [from |-> i + 1, parts |-> a.parts \o Part(s, a.from, i - 1)]
                             ELSE a,
               [from |-> 1, parts |-> <<>>], s)
  IN  end.parts \o Rest(s, end.from, end.parts)

-------------------------------------------------------------------------------
HEXTOI(c) ==
  IF c \in Digit THEN c - 48
  ELSE IF c \in LowerHex THEN c - 87
  ELSE IF c \in UpperHex THEN c - 55
  ELSE -1

(* Util::UrlDecode: an escape takes the two bytes after it, whatever they   *)
(* are, if there are two; the value is cut to a byte.                       *)
HasEscape(url, i) == url[i] = Percent /\ i + 2 <= Len(url)

UrlDecode(url, plusToSpace) ==
  LET Byte(a, i) ==
        IF a.skip > 0 THEN [a EXCEPT !.skip = @ - 1]
        ELSE IF url[i] = Plus /\ plusToSpace THEN [a EXCEPT !.res = Append(@, Space)]
        ELSE IF HasEscape(url, i)
             THEN [skip |-> 2, res |-> Append(a.res, (HEXTOI(url[i + 1]) * 16 + HEXTOI(url[i + 2])) % 256)]
        ELSE [a EXCEPT !.res = Append(@, url[i])]
  IN  FoldLeftDomain(Byte, [skip |-> 0, res |-> <<>>], url).res

-------------------------------------------------------------------------------
(* HttpContext::ParseHttpLine, of the text between method and version: the  *)
(* path, and the parameters of the query.  A part of the query without "="  *)
(* makes it a bad request.                                                  *)
FirstEquals(s) == SelectInSeq(s, LAMBDA c : c = Equals)

SetParamLastWins(params, key, val) ==
  {p \in params : p.key # key} \cup {[key |-> key, val |-> val]}

(* HttpRequest::SetParam keeps the first value of a key.                    *)
SetParam(params, key, val) ==
  IF \E p \in params : p.key = key THEN params ELSE params \cup {[key |-> key, val |-> val]}

ParamsOf(parts) ==
  FoldLeft(LAMBDA params, s :
             SetParam(params, UrlDecode(SubSeq(s, 1, FirstEquals(s) - 1), TRUE),
                              UrlDecode(SubSeq(s, FirstEquals(s) + 1, Len(s)), TRUE)),
           {}, parts)

ParseHttpLine(target) ==
  LET parts == Split(target.query, Amp)
  IN  [ok     |-> \A i \in 1 .. Len(parts) : FirstEquals(parts[i]) # 0,
       path   |-> UrlDecode(target.path, FALSE),
       params |-> ParamsOf(parts)]
===============================================================================
