---------------------------- MODULE HttpServerProofs ----------------------------
(***************************************************************************)
(* Proofs about HttpServer, for any streams, targets, handlers and MaxLine. *)
(***************************************************************************)
EXTENDS HttpServer, SequenceTheorems, FiniteSetTheorems, WellFoundedInduction, TLAPS

-------------------------------------------------------------------------------
(* A set of numbers has a first one.                                        *)
LEMMA FirstOf ==
  ASSUME NEW T \in SUBSET Nat, T # {}
  PROVE  \E m \in T : \A k \in T : m <= k
<1> DEFINE U == {1 .. n : n \in T}
           R == StrictSubsetOrdering(Nat)
<1>1. U \subseteq FiniteSubsetsOf(Nat) /\ U # {}
  <2>1. ASSUME NEW n \in T PROVE 1 .. n \in FiniteSubsetsOf(Nat)
    <3>1. IsFiniteSet(1 .. n)
      BY FS_Interval
    <3>2. QED
      BY <3>1 DEF FiniteSubsetsOf
  <2>2. QED
    BY <2>1
<1>2. PICK s \in U : \A t \in U : ~ (<<t, s>> \in R)
  <2>1. IsWellFoundedOn(R, FiniteSubsetsOf(Nat))
    BY FS_StrictSubsetOrderingWellFounded
  <2> HIDE DEF U, R
  <2>2. QED
    BY <1>1, <2>1, WFMin
<1>3. PICK m \in T : s = 1 .. m
  OBVIOUS
<1>4. ASSUME NEW k \in T, k < m PROVE FALSE
  <2>1. 1 .. k \subseteq 1 .. m /\ m \in 1 .. m /\ m \notin 1 .. k
    BY <1>4
  <2>2. 1 .. k \in SUBSET Nat /\ 1 .. m \in SUBSET Nat
    OBVIOUS
  <2>3. <<1 .. k, 1 .. m>> \in R
    BY <2>1, <2>2 DEF StrictSubsetOrdering
  <2>4. QED
    BY <1>2, <1>3, <2>3
<1>5. QED
  BY <1>4

(* A sequence cut in two.                                                   *)
LEMMA CutInTwo ==
  ASSUME NEW s \in Seq(Token), NEW k \in 0 .. Len(s)
  PROVE  /\ SubSeq(s, 1, k) \in Seq(Token) /\ Len(SubSeq(s, 1, k)) = k
         /\ \A i \in 1 .. k : SubSeq(s, 1, k)[i] = s[i]
         /\ Drop(s, k) \in Seq(Token) /\ Len(Drop(s, k)) = Len(s) - k
         /\ \A i \in 1 .. Len(s) - k : Drop(s, k)[i] = s[k + i]
         /\ SubSeq(s, 1, k) \o Drop(s, k) = s
<1>0. Len(s) \in Nat /\ \A i \in 1 .. Len(s) : s[i] \in Token
  BY LenProperties, ElementOfSeq
<1>1. /\ SubSeq(s, 1, k) \in Seq(Token) /\ Len(SubSeq(s, 1, k)) = k
      /\ \A i \in 1 .. k : SubSeq(s, 1, k)[i] = s[i]
  <2>1. \A i \in 1 .. k : s[i] \in Token
    BY <1>0
  <2>2. /\ SubSeq(s, 1, k) \in Seq(Token)
        /\ Len(SubSeq(s, 1, k)) = (IF 1 <= k THEN k - 1 + 1 ELSE 0)
        /\ \A i \in 1 .. k - 1 + 1 : SubSeq(s, 1, k)[i] = s[1 + i - 1]
    BY <2>1, SubSeqProperties
  <2>3. QED
    BY <1>0, <2>2
<1>2. /\ Drop(s, k) \in Seq(Token) /\ Len(Drop(s, k)) = Len(s) - k
      /\ \A i \in 1 .. Len(s) - k : Drop(s, k)[i] = s[k + i]
  <2>1. \A i \in k + 1 .. Len(s) : s[i] \in Token
    BY <1>0
  <2>2. k + 1 \in Int /\ Len(s) \in Int
    BY <1>0
  <2>3. /\ SubSeq(s, k + 1, Len(s)) \in Seq(Token)
        /\ Len(SubSeq(s, k + 1, Len(s)))
             = (IF k + 1 <= Len(s) THEN Len(s) - (k + 1) + 1 ELSE 0)
        /\ \A i \in 1 .. Len(s) - (k + 1) + 1 :
             SubSeq(s, k + 1, Len(s))[i] = s[k + 1 + i - 1]
    BY <2>1, <2>2, SubSeqProperties
  <2>4. QED
    BY <1>0, <2>3 DEF Drop
<1>3. SubSeq(s, 1, k) \o Drop(s, k) = s
  <2>1. SubSeq(s, 1, k) \o SubSeq(s, k + 1, Len(s)) = SubSeq(s, 1, Len(s))
    <3>1. 1 \in 1 .. Len(s) + 1 /\ k \in 1 - 1 .. Len(s) /\ Len(s) \in k .. Len(s)
      BY <1>0
    <3>2. QED
      BY <3>1, ConcatAdjacentSubSeq
  <2>2. QED
    BY <2>1, SubSeqFull DEF Drop
<1>4. QED
  BY <1>1, <1>2, <1>3

(* What moves from the front of one sequence to the end of another leaves   *)
(* the whole as it is.                                                      *)
LEMMA Regrouped ==
  ASSUME NEW a \in Seq(Token), NEW b \in Seq(Token), NEW c \in Seq(Token)
  PROVE  a \o b \in Seq(Token) /\ b \o c \in Seq(Token) /\ (a \o b) \o c = a \o (b \o c)
<1>1. (a \o b) \o c = a \o (b \o c)
  BY ConcatAssociative
<1>2. QED
  BY <1>1, ConcatProperties

LEMMA MovedAlong ==
  ASSUME NEW a \in Seq(Token), NEW b \in Seq(Token), NEW k \in 0 .. Len(b)
  PROVE  (a \o SubSeq(b, 1, k)) \o Drop(b, k) = a \o b
<1>1. /\ SubSeq(b, 1, k) \in Seq(Token) /\ Drop(b, k) \in Seq(Token)
      /\ SubSeq(b, 1, k) \o Drop(b, k) = b
  BY CutInTwo
<1>2. PICK x \in Seq(Token) : x = SubSeq(b, 1, k)
  BY <1>1
<1>3. PICK y \in Seq(Token) : y = Drop(b, k)
  BY <1>1
<1>4. (a \o x) \o y = a \o (x \o y)
  BY Regrouped
<1>5. QED
  BY <1>1, <1>2, <1>3, <1>4

(* The first line of a sequence that has one.                               *)
LEMMA LineBounds ==
  ASSUME NEW b \in Seq(Token), HasLine(b)
  PROVE  /\ LineLen(b) \in 1 .. Len(b) /\ b[LineLen(b)] = NL
         /\ \A j \in 1 .. LineLen(b) - 1 : b[j] # NL
<1> DEFINE T == {i \in 1 .. Len(b) : b[i] = NL}
<1>1. T \in SUBSET Nat /\ T # {}
  BY LenProperties DEF HasLine
<1>2. PICK m \in T : \A k \in T : m <= k
  <2> HIDE DEF T
  <2>1. QED
    BY <1>1, FirstOf
<1>3. m \in 1 .. Len(b) /\ b[m] = NL /\ \A j \in 1 .. m - 1 : b[j] # NL
  BY <1>2, LenProperties
<1>4. QED
  BY <1>3 DEF LineLen

-------------------------------------------------------------------------------
(* The types of the variables.                                              *)
ReadTargets ==
  {[path |-> <<>>, params |-> {}]}
    \cup {[path |-> Parsed[n].path, params |-> Parsed[n].params] : n \in 1 .. Len(Meant)}

Response == [target : ReadTargets, body : Seq(Token), status : Nat,
             says : {"close", "keep-alive"}, refusal : BOOLEAN]

RequestType ==
  /\ request \in [path : {request.path}, params : {request.params},
                  fields : SUBSET Token, body : Seq(Token)]
  /\ [path |-> request.path, params |-> request.params] \in ReadTargets

HttpTypes ==
  /\ coming \in Seq(Token) /\ buffer \in Seq(Token) /\ taken \in Seq(Token)
  /\ recv \in {"LINE", "HEAD", "BODY", "OVER", "ERROR"} /\ resp \in {200, 400, 414}
  /\ RequestType
  /\ frames \in Nat /\ pc \in {"idle", "test", "recv", "received"}
  /\ statu \in {"CONNECTED", "DISCONNECTING", "DISCONNECTED"} /\ out \in BOOLEAN
  /\ answers \in Seq(Response)

LEMMA LengthIsNat ==
  ASSUME NEW fields \in SUBSET Token
  PROVE  ContentLength(fields) \in Nat
  BY DEF ContentLength, Token

LEMMA TypesInit == Init => HttpTypes
<1> SUFFICES ASSUME Init PROVE HttpTypes
  OBVIOUS
<1>1. coming \in Seq(Token) /\ \A S : <<>> \in Seq(S)
  BY ServerAssumption, EmptySeq DEF Init
<1>2. answers \in Seq(Response) /\ buffer \in Seq(Token) /\ taken \in Seq(Token)
  BY <1>1 DEF Init
<1>3. RequestType
  <2>1. <<>> \in Seq(Token)
    BY <1>1
  <2>2. request = [path |-> <<>>, params |-> {}, fields |-> {}, body |-> <<>>]
    BY DEF Init, NoRequest
  <2>3. QED
    BY <2>1, <2>2 DEF RequestType, ReadTargets
<1>4. QED
  BY <1>1, <1>2, <1>3 DEF Init, HttpTypes

(* The lines the parser takes.                                              *)
LEMMA PoppedTypes ==
  ASSUME HttpTypes, HasLine(buffer), PopLine
  PROVE  buffer' \in Seq(Token) /\ taken' \in Seq(Token)
<1>1. LineLen(buffer) \in 0 .. Len(buffer)
  BY LineBounds DEF HttpTypes
<1>2. SubSeq(buffer, 1, LineLen(buffer)) \in Seq(Token) /\ Drop(buffer, LineLen(buffer)) \in Seq(Token)
  BY <1>1, CutInTwo DEF HttpTypes
<1>3. QED
  BY <1>2, ConcatProperties DEF HttpTypes, PopLine

LEMMA ResetTypes == Reset => RequestType' /\ taken' \in Seq(Token)
<1> SUFFICES ASSUME Reset PROVE RequestType' /\ taken' \in Seq(Token)
  OBVIOUS
<1>1. <<>> \in Seq(Token)
  BY EmptySeq
<1>2. request' = [path |-> <<>>, params |-> {}, fields |-> {}, body |-> <<>>]
  BY DEF Reset, NoRequest
<1>3. QED
  BY <1>1, <1>2 DEF Reset, RequestType, ReadTargets

(* The answers.                                                             *)
LEMMA AskedType == \A fields : Asked(fields) \in {"close", "keep-alive"}
  BY DEF Asked

LEMMA RouteType ==
  ASSUME NEW fields, NEW r \in Route(fields)
  PROVE  r.status \in Nat /\ r.says \in {"close", "keep-alive"}
<1>1. CASE r \in {[status |-> st, says |-> Asked(fields)] : st \in {200, 404}}
  BY <1>1, AskedType
<1>2. CASE r \in [status : Status, says : HandlerSays \cup {Asked(fields)}]
  BY <1>2, ServerAssumption, AskedType
<1>3. QED
  BY <1>1, <1>2 DEF Route

-------------------------------------------------------------------------------
(* Where OnMessage and the parser are: between calls and between requests   *)
(* the parser is at a line or in a body that is not whole; it has stopped   *)
(* for an error, a whole request, or want of data.                          *)
AwaitsData ==
  \/ recv \in {"LINE", "HEAD"} /\ ~HasLine(buffer) /\ Len(buffer) <= MaxLine
  \/ recv = "BODY" /\ buffer = <<>> /\ Need > 0

Parsing == resp = 200 /\ recv \in {"LINE", "HEAD", "BODY"}

Turn ==
  /\ pc = "idle" <=> frames = 0
  /\ recv \in {"LINE", "HEAD"} => request.body = <<>>
  /\ recv = "BODY" => Need >= 0
  /\ pc \in {"idle", "test"} => Parsing /\ (recv = "BODY" => Need > 0)
  /\ pc = "recv" => Parsing
  /\ pc = "received" => resp >= 400 \/ (resp = 200 /\ recv = "OVER") \/ (Parsing /\ AwaitsData)
  /\ NothingLeftBehind

LEMMA TurnInit == Init => Turn
<1> SUFFICES ASSUME Init PROVE Turn
  OBVIOUS
<1>1. /\ recv = "LINE" /\ resp = 200 /\ request.body = <<>>
      /\ frames = 0 /\ pc = "idle" /\ buffer = <<>>
  BY DEF Init, NoRequest
<1>2. ~HasLine(buffer) /\ Len(buffer) <= MaxLine
  BY <1>1, ServerAssumption, EmptySeq DEF HasLine
<1>3. NothingLeftBehind
  BY <1>1, <1>2 DEF NothingLeftBehind
<1>4. QED
  BY <1>1, <1>3 DEF Turn, Parsing

(* The steps, by name.                                                      *)
LEMMA HttpCases ==
  ASSUME [Next]_vars
  PROVE  \/ \E n \in 1 .. Len(coming) : Receive(n)
         \/ EndOfData \/ HandleWrite
         \/ TestBuffer
         \/ NoLineYet \/ LineTooLong \/ RecvHttpLine \/ RecvHttpHead \/ RecvHttpBody
         \/ RefuseRequest \/ AwaitMore \/ AnswerRequest
         \/ UNCHANGED vars
  BY DEF Next, OnMessage

LEMMA Received ==
  ASSUME HttpTypes, Turn, NEW n \in 1 .. Len(coming), Receive(n)
  PROVE  HttpTypes' /\ Turn'
<1>1. n \in 0 .. Len(coming)
  BY LenProperties DEF HttpTypes
<1>2. SubSeq(coming, 1, n) \in Seq(Token) /\ Drop(coming, n) \in Seq(Token)
  BY <1>1, CutInTwo DEF HttpTypes
<1>3. buffer' \in Seq(Token) /\ coming' \in Seq(Token)
  BY <1>2, ConcatProperties DEF Receive, HttpTypes
<1>4. HttpTypes'
  BY <1>3 DEF Receive, HttpTypes, RequestType, context
<1>5. Turn'
  BY DEF Receive, Turn, Parsing, context, Need, NothingLeftBehind
<1>6. QED
  BY <1>4, <1>5

(* Nothing else than where OnMessage is, and the connection's status.       *)
LEMMA DataKept ==
  ASSUME HttpTypes, UNCHANGED <<coming, buffer, context, answers, taken>>,
         frames' \in Nat, pc' \in {"idle", "test", "recv", "received"},
         statu' \in {"CONNECTED", "DISCONNECTING", "DISCONNECTED"}, out' \in BOOLEAN
  PROVE  HttpTypes'
  BY DEF HttpTypes, RequestType, context

LEMMA Outside ==
  ASSUME HttpTypes, Turn, EndOfData \/ HandleWrite \/ UNCHANGED vars
  PROVE  HttpTypes' /\ Turn'
<1>1. CASE EndOfData
  <2>1. HttpTypes'
    BY <1>1, DataKept DEF EndOfData, HttpTypes
  <2>2. Turn'
    BY <1>1 DEF EndOfData, Turn, Parsing, context, Need, NothingLeftBehind
  <2>3. QED
    BY <2>1, <2>2
<1>2. CASE HandleWrite
  <2>1. HttpTypes'
    BY <1>2, DataKept DEF HandleWrite, HttpTypes
  <2>2. Turn'
    BY <1>2 DEF HandleWrite, Turn, Parsing, AwaitsData, context, Need, NothingLeftBehind
  <2>3. QED
    BY <2>1, <2>2
<1>3. CASE UNCHANGED vars
  <2>1. HttpTypes'
    BY <1>3, DataKept DEF vars, HttpTypes
  <2>2. Turn'
    BY <1>3 DEF vars, Turn, Parsing, AwaitsData, context, Need, NothingLeftBehind
  <2>3. QED
    BY <2>1, <2>2
<1>4. QED
  BY <1>1, <1>2, <1>3

(* A call of OnMessage that returns leaves data that it had to leave.       *)
LEMMA Returned ==
  ASSUME HttpTypes, Turn, pc # "idle", Parsing, AwaitsData, ReturnAsIs,
         UNCHANGED <<coming, buffer, context, out, answers, taken>>
  PROVE  HttpTypes' /\ Turn'
<1>1. frames \in Nat \ {0}
  BY DEF HttpTypes, Turn
<1>2. frames' = frames - 1 /\ pc' = IF frames = 1 THEN "idle" ELSE "test"
  BY DEF ReturnAsIs, Return
<1>3. HttpTypes'
  BY <1>1, <1>2, DataKept DEF HttpTypes, ReturnAsIs
<1>4. Turn'
  BY <1>1, <1>2 DEF Turn, Parsing, AwaitsData, context, Need, NothingLeftBehind
<1>5. QED
  BY <1>3, <1>4

LEMMA Tested ==
  ASSUME HttpTypes, Turn, TestBuffer
  PROVE  HttpTypes' /\ Turn'
<1>1. CASE buffer = <<>>
  <2>1. ~HasLine(buffer) /\ Len(buffer) <= MaxLine
    BY <1>1, ServerAssumption, EmptySeq DEF HasLine
  <2>2. Parsing /\ AwaitsData
    BY <1>1, <2>1 DEF TestBuffer, Turn, Parsing, AwaitsData
  <2>3. QED
    BY <1>1, <2>2, Returned DEF TestBuffer
<1>2. CASE buffer # <<>>
  <2>1. HttpTypes'
    BY <1>2, DataKept DEF TestBuffer, HttpTypes
  <2>2. Turn'
    BY <1>2 DEF TestBuffer, Turn, Parsing, context, Need, NothingLeftBehind
  <2>3. QED
    BY <2>1, <2>2
<1>3. QED
  BY <1>1, <1>2

LEMMA Awaited ==
  ASSUME HttpTypes, Turn, AwaitMore
  PROVE  HttpTypes' /\ Turn'
<1>1. pc # "idle" /\ Parsing /\ AwaitsData
  BY DEF AwaitMore, Turn, HttpTypes
<1>2. QED
  BY <1>1, Returned DEF AwaitMore

(* The parser's steps.                                                      *)
LEMMA LineAwaited ==
  ASSUME HttpTypes, Turn, NoLineYet
  PROVE  HttpTypes' /\ Turn'
<1>1. HttpTypes'
  BY DEF NoLineYet, Fail, HttpTypes, RequestType
<1>2. Len(buffer) \in Nat /\ MaxLine \in Nat
  BY LenProperties, ServerAssumption DEF HttpTypes
<1>3. Turn'
  <2>1. CASE Len(buffer) > MaxLine
    BY <2>1 DEF NoLineYet, Receiving, Fail, Turn, Parsing, NothingLeftBehind
  <2>2. CASE ~(Len(buffer) > MaxLine)
    <3>1. Parsing /\ AwaitsData
      BY <1>2, <2>2 DEF NoLineYet, Receiving, Turn, Parsing, AwaitsData
    <3>2. QED
      BY <2>2, <3>1
      DEF NoLineYet, Receiving, Turn, Parsing, AwaitsData, NothingLeftBehind, Need
  <2>3. QED
    BY <2>1, <2>2
<1>4. QED
  BY <1>1, <1>3

LEMMA LongLineTaken ==
  ASSUME HttpTypes, Turn, LineTooLong
  PROVE  HttpTypes' /\ Turn'
<1>1. buffer' \in Seq(Token) /\ taken' \in Seq(Token)
  BY PoppedTypes DEF LineTooLong
<1>2. HttpTypes'
  BY <1>1 DEF LineTooLong, Fail, HttpTypes, RequestType
<1>3. Turn'
  BY DEF LineTooLong, Receiving, Fail, Turn, Parsing, NothingLeftBehind
<1>4. QED
  BY <1>2, <1>3

(* The first token of a line is one of the buffer's.                        *)
LEMMA FirstToken ==
  ASSUME HttpTypes, HasLine(buffer)
  PROVE  /\ Len(buffer) \in Nat \ {0} /\ buffer[1] \in Token
         /\ buffer[1].kind = "request" => buffer[1].n \in 1 .. Len(Meant)
<1>1. LineLen(buffer) \in 1 .. Len(buffer) /\ Len(buffer) \in Nat
  BY LineBounds, LenProperties DEF HttpTypes
<1>2. 1 \in 1 .. Len(buffer)
  BY <1>1
<1>3. buffer[1] \in Token
  BY <1>2, ElementOfSeq DEF HttpTypes
<1>4. QED
  BY <1>1, <1>3 DEF Token

LEMMA RequestLineTaken ==
  ASSUME HttpTypes, Turn, RecvHttpLine
  PROVE  HttpTypes' /\ Turn'
<1>1. buffer' \in Seq(Token) /\ taken' \in Seq(Token) /\ HasLine(buffer)
  BY PoppedTypes DEF RecvHttpLine, Line
<1>2. /\ UNCHANGED <<coming, frames, statu, out, answers>>
      /\ pc = "recv" /\ recv = "LINE"
      /\ \/ /\ buffer[1].kind = "request"
            /\ request' = [request EXCEPT !.path = Parsed[buffer[1].n].path,
                                          !.params = Parsed[buffer[1].n].params]
            /\ recv' = "HEAD" /\ UNCHANGED <<resp, pc>>
         \/ recv' = "ERROR" /\ resp' = 400 /\ pc' = "received" /\ UNCHANGED request
  BY DEF RecvHttpLine, Receiving, Fail
<1>3. CASE recv' = "HEAD"
  <2>1. /\ buffer[1].n \in 1 .. Len(Meant)
        /\ request' = [request EXCEPT !.path = Parsed[buffer[1].n].path,
                                      !.params = Parsed[buffer[1].n].params]
        /\ UNCHANGED <<resp, pc>>
    BY <1>1, <1>2, <1>3, FirstToken
  <2>2. /\ request'.path = Parsed[buffer[1].n].path
        /\ request'.params = Parsed[buffer[1].n].params
        /\ request'.fields = request.fields /\ request'.body = request.body
        /\ request' \in [path : {request'.path}, params : {request'.params},
                         fields : SUBSET Token, body : Seq(Token)]
    BY <2>1 DEF HttpTypes, RequestType
  <2>3. RequestType'
    BY <2>1, <2>2 DEF RequestType, ReadTargets
  <2>4. HttpTypes'
    BY <1>1, <1>2, <1>3, <2>1, <2>3 DEF HttpTypes
  <2>5. Turn'
    BY <1>2, <1>3, <2>1, <2>2 DEF Turn, Parsing, NothingLeftBehind
  <2>6. QED
    BY <2>4, <2>5
<1>4. CASE recv' = "ERROR"
  <2>1. resp' = 400 /\ pc' = "received" /\ UNCHANGED request
    BY <1>2, <1>4
  <2>2. HttpTypes'
    BY <1>1, <1>2, <1>4, <2>1 DEF HttpTypes, RequestType
  <2>3. Turn'
    BY <1>2, <1>4, <2>1 DEF Turn, NothingLeftBehind
  <2>4. QED
    BY <2>2, <2>3
<1>5. QED
  BY <1>2, <1>3, <1>4

LEMMA HeadLineTaken ==
  ASSUME HttpTypes, Turn, RecvHttpHead
  PROVE  HttpTypes' /\ Turn'
<1>1. buffer' \in Seq(Token) /\ taken' \in Seq(Token) /\ buffer[1] \in Token
  BY PoppedTypes, FirstToken DEF RecvHttpHead, Line
<1>2. /\ UNCHANGED <<coming, frames, statu, out, answers>>
      /\ pc = "recv" /\ recv = "HEAD"
  BY DEF RecvHttpHead, Receiving
<1>3. CASE recv' = "BODY" /\ UNCHANGED <<resp, request, pc>>
  <2>1. HttpTypes'
    BY <1>1, <1>2, <1>3 DEF HttpTypes, RequestType
  <2>2. Need' >= 0
    <3>1. ContentLength(request.fields) \in Nat /\ request.body = <<>> /\ Len(<<>>) = 0
      BY <1>2, LengthIsNat, EmptySeq DEF HttpTypes, RequestType, Turn
    <3>2. QED
      BY <1>3, <3>1 DEF Need
  <2>3. Turn'
    BY <1>2, <1>3, <2>2 DEF Turn, Parsing, NothingLeftBehind
  <2>4. QED
    BY <2>1, <2>3
<1>4. CASE /\ request' = [request EXCEPT !.fields = SetHeader(@, buffer[1])]
           /\ UNCHANGED <<recv, resp, pc>>
  <2>1. SetHeader(request.fields, buffer[1]) \in SUBSET Token
    BY <1>1 DEF SetHeader, HttpTypes, RequestType
  <2>2. /\ request'.path = request.path /\ request'.params = request.params
        /\ request'.body = request.body
        /\ request' \in [path : {request'.path}, params : {request'.params},
                         fields : SUBSET Token, body : Seq(Token)]
    BY <1>4, <2>1 DEF HttpTypes, RequestType
  <2>3. HttpTypes'
    BY <1>1, <1>2, <1>4, <2>2 DEF HttpTypes, RequestType
  <2>4. Turn'
    BY <1>2, <1>4, <2>2 DEF Turn, Parsing, NothingLeftBehind
  <2>5. QED
    BY <2>3, <2>4
<1>5. CASE Fail(400) /\ UNCHANGED request
  <2>1. HttpTypes'
    BY <1>1, <1>2, <1>5 DEF Fail, HttpTypes, RequestType
  <2>2. Turn'
    BY <1>2, <1>5 DEF Fail, Turn, NothingLeftBehind
  <2>3. QED
    BY <2>1, <2>2
<1>6. QED
  BY <1>3, <1>4, <1>5 DEF RecvHttpHead

(* Of a body as much is taken as there is and is needed.                    *)
BodyPart == IF Need <= Len(buffer) THEN Need ELSE Len(buffer)

LEMMA PartTypes ==
  ASSUME HttpTypes, Turn, RecvHttpBody
  PROVE  /\ Need \in Nat /\ Len(buffer) \in Nat /\ BodyPart \in 0 .. Len(buffer)
         /\ SubSeq(buffer, 1, BodyPart) \in Seq(Token)
         /\ request'.body = request.body \o SubSeq(buffer, 1, BodyPart)
         /\ request'.path = request.path /\ request'.params = request.params
         /\ request'.fields = request.fields
         /\ Need' = Need - BodyPart
         /\ buffer' = Drop(buffer, BodyPart)
         /\ taken' = taken \o SubSeq(buffer, 1, BodyPart)
         /\ recv' = IF BodyPart >= Need THEN "OVER" ELSE "BODY"
         /\ HttpTypes'
<1>1. recv = "BODY" /\ pc = "recv" /\ TakeBody(BodyPart)
  BY DEF RecvHttpBody, Receiving, BodyPart
<1>2. /\ ContentLength(request.fields) \in Nat /\ Len(request.body) \in Nat
      /\ Len(buffer) \in Nat
  BY LengthIsNat, LenProperties DEF HttpTypes, RequestType
<1>3. Need \in Nat
  BY <1>1, <1>2 DEF Turn, Need
<1>4. BodyPart \in 0 .. Len(buffer)
  BY <1>2, <1>3 DEF BodyPart
<1>5. PICK part \in Seq(Token) : part = SubSeq(buffer, 1, BodyPart) /\ Len(part) = BodyPart
  BY <1>4, CutInTwo DEF HttpTypes
<1>6. Drop(buffer, BodyPart) \in Seq(Token)
  BY <1>4, CutInTwo DEF HttpTypes
<1>7. /\ request.body \o part \in Seq(Token)
      /\ Len(request.body \o part) = Len(request.body) + Len(part)
      /\ taken \o part \in Seq(Token)
  BY ConcatProperties DEF HttpTypes, RequestType
<1>8. /\ request' = [request EXCEPT !.body = @ \o part]
      /\ buffer' = Drop(buffer, BodyPart)
      /\ taken' = taken \o part
      /\ recv' = (IF BodyPart >= Need THEN "OVER" ELSE "BODY")
      /\ pc' = "received"
      /\ UNCHANGED <<coming, resp, frames, statu, out, answers>>
  BY <1>1, <1>5 DEF TakeBody
<1>9. /\ request'.body = request.body \o part
      /\ request'.path = request.path /\ request'.params = request.params
      /\ request'.fields = request.fields
      /\ request' \in [path : {request'.path}, params : {request'.params},
                       fields : SUBSET Token, body : Seq(Token)]
  BY <1>7, <1>8 DEF HttpTypes, RequestType
<1>10. Need' = Need - BodyPart
  BY <1>2, <1>5, <1>7, <1>9 DEF Need
<1>11. HttpTypes'
  BY <1>6, <1>7, <1>8, <1>9 DEF HttpTypes, RequestType
<1>12. QED
  BY <1>2, <1>3, <1>4, <1>5, <1>8, <1>9, <1>10, <1>11

LEMMA BodyTaken ==
  ASSUME HttpTypes, Turn, RecvHttpBody
  PROVE  HttpTypes' /\ Turn'
<1>1. /\ pc = "recv" /\ recv = "BODY" /\ pc' = "received" /\ UNCHANGED <<resp, frames>>
  BY DEF RecvHttpBody, Receiving, TakeBody
<1>2. resp' = 200 /\ frames' # 0
  BY <1>1 DEF Turn, Parsing
<1>3. CASE Need <= Len(buffer)
  <2>1. recv' = "OVER"
    BY <1>3, PartTypes DEF BodyPart
  <2>2. QED
    BY <1>1, <1>2, <2>1, PartTypes DEF Turn, NothingLeftBehind
<1>4. CASE ~(Need <= Len(buffer))
  <2>1. /\ BodyPart = Len(buffer) /\ Need \in Nat /\ Len(buffer) \in Nat
        /\ recv' = "BODY" /\ Need' > 0 /\ Need' >= 0
    BY <1>4, PartTypes DEF BodyPart
  <2>2. buffer' = <<>>
    <3>1. Len(buffer) < Len(buffer) + 1 /\ Len(buffer) \in Int
      BY <2>1
    <3>2. SubSeq(buffer, Len(buffer) + 1, Len(buffer)) = <<>>
      BY <3>1, SubSeqEmpty
    <3>3. QED
      BY <2>1, <3>2, PartTypes DEF Drop
  <2>3. (Parsing /\ AwaitsData)'
    BY <1>2, <2>1, <2>2 DEF Parsing, AwaitsData
  <2>4. QED
    BY <1>1, <1>2, <2>1, <2>3, PartTypes DEF Turn, NothingLeftBehind
<1>5. QED
  BY <1>3, <1>4

(* The answers.                                                             *)
LEMMA AfterReset ==
  Reset => /\ Parsing' /\ recv' = "LINE" /\ request'.body = <<>> /\ request'.fields = {}
           /\ request' = NoRequest
  BY DEF Reset, Parsing, NoRequest

LEMMA Refused ==
  ASSUME HttpTypes, Turn, RefuseRequest
  PROVE  HttpTypes' /\ Turn'
<1>1. frames \in Nat \ {0}
  BY DEF HttpTypes, Turn, RefuseRequest
<1>2. frames' = frames - 1 /\ pc' = IF frames = 1 THEN "idle" ELSE "test"
  BY DEF RefuseRequest, Return
<1>3. /\ buffer' = <<>> /\ UNCHANGED coming
      /\ statu' = "DISCONNECTING" /\ out' = TRUE
      /\ Reset
  BY DEF RefuseRequest
<1>4. answers' \in Seq(Response)
  <2>1. [target |-> [path |-> <<>>, params |-> {}], body |-> <<>>, status |-> resp,
         says |-> Asked(request.fields), refusal |-> TRUE] \in Response
    BY AskedType, EmptySeq DEF Response, ReadTargets, HttpTypes
  <2>2. QED
    BY <2>1, AppendProperties DEF RefuseRequest, HttpTypes
<1>5. HttpTypes'
  BY <1>1, <1>2, <1>3, <1>4, ResetTypes, EmptySeq DEF HttpTypes, Reset
<1>6. ~HasLine(buffer)' /\ Len(buffer') <= MaxLine
  BY <1>3, ServerAssumption, EmptySeq DEF HasLine
<1>7. Turn'
  BY <1>1, <1>2, <1>3, <1>6, AfterReset DEF Turn, NothingLeftBehind, Parsing, Reset
<1>8. QED
  BY <1>5, <1>7

LEMMA Answered ==
  ASSUME HttpTypes, Turn, AnswerRequest
  PROVE  HttpTypes' /\ Turn'
<1>1. frames \in Nat \ {0}
  BY DEF HttpTypes, Turn, AnswerRequest
<1>2. PICK r \in Route(request.fields) :
       /\ answers' = Append(answers,
            [target |-> [path |-> request.path, params |-> request.params], body |-> request.body,
             status |-> r.status, says |-> r.says, refusal |-> FALSE])
       /\ IF IsShort(r.says, request.fields) THEN Shutdown
          ELSE pc' = "test" /\ UNCHANGED <<statu, frames>>
  BY DEF AnswerRequest
<1>3. pc' = "test" /\ frames' \in Nat \ {0}
      /\ statu' \in {"CONNECTED", "DISCONNECTING", "DISCONNECTED"}
  BY <1>1, <1>2 DEF Shutdown, HttpTypes
<1>4. Reset /\ out' = TRUE /\ UNCHANGED <<coming, buffer>>
  BY DEF AnswerRequest
<1>5. answers' \in Seq(Response)
  <2>1. r.status \in Nat /\ r.says \in {"close", "keep-alive"}
    BY RouteType
  <2>2. [target |-> [path |-> request.path, params |-> request.params], body |-> request.body,
         status |-> r.status, says |-> r.says, refusal |-> FALSE] \in Response
    BY <2>1 DEF Response, HttpTypes, RequestType
  <2>3. QED
    BY <1>2, <2>2, AppendProperties DEF HttpTypes
<1>6. HttpTypes'
  BY <1>3, <1>4, <1>5, ResetTypes DEF HttpTypes, Reset
<1>7. Turn'
  BY <1>3, <1>4, AfterReset DEF Turn, NothingLeftBehind, Parsing
<1>8. QED
  BY <1>6, <1>7

LEMMA TurnStep == HttpTypes /\ Turn /\ [Next]_vars => (HttpTypes /\ Turn)'
  BY HttpCases, Received, Outside, Tested, LineAwaited, LongLineTaken, RequestLineTaken,
     HeadLineTaken, BodyTaken, Refused, Awaited, Answered

(* The types of the connection's and the parser's state (http.hpp,          *)
(* HttpContext and OnMessage).                                              *)
THEOREM HttpTypesCorrect == Spec => []HttpTypes
  BY TypesInit, TurnInit, TurnStep, PTL DEF Spec

(* When OnMessage has returned, no whole line, no refusable line and no     *)
(* byte of the body in hand is left in _in_buffer, through nested calls and *)
(* however the data was cut (http.hpp, OnMessage and RecvHttpRequest).      *)
THEOREM NothingIsLeftBehind == Spec => []NothingLeftBehind
<1>1. Turn => NothingLeftBehind
  BY DEF Turn
<1>2. QED
  BY <1>1, TypesInit, TurnInit, TurnStep, PTL DEF Spec

-------------------------------------------------------------------------------
(* Why the server keeps its word: at every point, not only between calls,   *)
(* what the answers said is matched by the connection's status.             *)
SaysClose  == \E i \in 1 .. Len(answers) : answers[i].says = "close"
HasRefused == \E i \in 1 .. Len(answers) : answers[i].refusal

Word ==
  /\ SaysClose => statu # "CONNECTED"
  /\ statu # "CONNECTED" => SaysClose \/ HasRefused \/ coming = <<>>

LEMMA WordMeans == Word => KeepsItsWord
  BY DEF Word, KeepsItsWord, SaysClose, HasRefused

LEMMA WordInit == Init => Word
<1>1. Len(<<>>) = 0
  BY EmptySeq
<1>2. QED
  BY <1>1 DEF Init, Word, SaysClose

(* One more answer.                                                         *)
LEMMA OneMore ==
  ASSUME HttpTypes, NEW a \in Response, answers' = Append(answers, a)
  PROVE  /\ SaysClose' <=> SaysClose \/ a.says = "close"
         /\ HasRefused' <=> HasRefused \/ a.refusal
<1>1. /\ Len(answers) \in Nat /\ Len(answers') = Len(answers) + 1
      /\ answers'[Len(answers) + 1] = a
      /\ \A i \in 1 .. Len(answers) : answers'[i] = answers[i]
  BY AppendProperties, LenProperties DEF HttpTypes
<1>2. \A i \in 1 .. Len(answers') : i \in 1 .. Len(answers) \/ i = Len(answers) + 1
  BY <1>1
<1>3. 1 .. Len(answers) \subseteq 1 .. Len(answers') /\ Len(answers) + 1 \in 1 .. Len(answers')
  BY <1>1
<1>4. QED
  BY <1>1, <1>2, <1>3 DEF SaysClose, HasRefused

LEMMA WordStep == HttpTypes /\ Word /\ [Next]_vars => Word'
<1> SUFFICES ASSUME HttpTypes, Word, [Next]_vars PROVE Word'
  OBVIOUS
<1>1. ASSUME UNCHANGED answers, coming = <<>> => coming' = <<>>,
             statu' = statu \/ (statu' # "CONNECTED" /\ (statu # "CONNECTED" \/ coming = <<>>))
      PROVE  Word'
  BY <1>1 DEF Word, SaysClose, HasRefused
<1>2. ASSUME NEW n \in 1 .. Len(coming), Receive(n) PROVE Word'
  <2>1. coming # <<>>
    BY <1>2, EmptySeq
  <2>2. QED
    BY <1>1, <1>2, <2>1 DEF Receive
<1>3. CASE EndOfData \/ HandleWrite \/ TestBuffer \/ AwaitMore \/ UNCHANGED vars
  BY <1>1, <1>3 DEF EndOfData, HandleWrite, TestBuffer, AwaitMore, ReturnAsIs, vars
<1>4. CASE NoLineYet \/ LineTooLong \/ RecvHttpLine \/ RecvHttpHead \/ RecvHttpBody
  BY <1>1, <1>4 DEF NoLineYet, LineTooLong, RecvHttpLine, RecvHttpHead, RecvHttpBody, TakeBody
<1>5. CASE RefuseRequest
  <2>1. [target |-> [path |-> <<>>, params |-> {}], body |-> <<>>, status |-> resp,
         says |-> Asked(request.fields), refusal |-> TRUE] \in Response
    BY AskedType, EmptySeq DEF Response, ReadTargets, HttpTypes
  <2>2. HasRefused'
    BY <1>5, <2>1, OneMore DEF RefuseRequest
  <2>3. QED
    BY <1>5, <2>2 DEF RefuseRequest, Word
<1>6. CASE AnswerRequest
  <2>1. PICK r \in Route(request.fields) :
         /\ answers' = Append(answers,
              [target |-> [path |-> request.path, params |-> request.params], body |-> request.body,
               status |-> r.status, says |-> r.says, refusal |-> FALSE])
         /\ IF IsShort(r.says, request.fields) THEN Shutdown
            ELSE pc' = "test" /\ UNCHANGED <<statu, frames>>
    BY <1>6 DEF AnswerRequest
  <2>2. r.status \in Nat /\ r.says \in {"close", "keep-alive"}
    BY RouteType
  <2>3. [target |-> [path |-> request.path, params |-> request.params], body |-> request.body,
         status |-> r.status, says |-> r.says, refusal |-> FALSE] \in Response
    BY <2>2 DEF Response, HttpTypes, RequestType
  <2>4. (SaysClose' <=> SaysClose \/ r.says = "close") /\ (HasRefused' <=> HasRefused)
    BY <2>1, <2>3, OneMore
  <2>5. IF r.says = "close" THEN statu' = "DISCONNECTING" ELSE UNCHANGED statu
    BY <2>1, <2>2 DEF IsShort, Shutdown
  <2>6. UNCHANGED coming
    BY <1>6 DEF AnswerRequest
  <2>7. QED
    BY <2>4, <2>5, <2>6 DEF Word
<1>7. QED
  BY HttpCases, <1>2, <1>3, <1>4, <1>5, <1>6

(* The connection is closed when an answer said so, and by the server only  *)
(* then, after a refusal, or after the end of the client's data, through    *)
(* the calls of OnMessage that Shutdown nests (http.hpp, OnMessage;         *)
(* Connection.hpp, ShutdownInLoop).                                         *)
THEOREM WordIsKept == Spec => []KeepsItsWord
<1>1. Init => HttpTypes /\ Turn /\ Word
  BY TypesInit, TurnInit, WordInit
<1>2. HttpTypes /\ Turn /\ Word /\ [Next]_vars => (HttpTypes /\ Turn /\ Word)'
  BY TurnStep, WordStep
<1>3. QED
  BY <1>1, <1>2, WordMeans, PTL DEF Spec

-------------------------------------------------------------------------------
(* What the parser has taken, compared with the stream.                     *)
Whole == taken \o buffer \o coming

LEMMA DropSame == ASSUME NEW s, NEW k PROVE Stream!Drop(s, k) = Drop(s, k)
  BY DEF Stream!Drop, Drop

(* The stream, place by place.                                              *)
LEMMA WholeProperties ==
  ASSUME HttpTypes
  PROVE  /\ Whole \in Seq(Token)
         /\ Len(taken) \in Nat /\ Len(buffer) \in Nat /\ Len(coming) \in Nat
         /\ Len(Whole) = Len(taken) + Len(buffer) + Len(coming)
         /\ \A i \in 1 .. Len(taken) : Whole[i] = taken[i]
         /\ \A i \in 1 .. Len(buffer) : Whole[Len(taken) + i] = buffer[i]
         /\ \A i \in 1 .. Len(coming) : Whole[Len(taken) + Len(buffer) + i] = coming[i]
<1>1. /\ Len(taken) \in Nat /\ Len(buffer) \in Nat /\ Len(coming) \in Nat
      /\ taken \in Seq(Token) /\ buffer \in Seq(Token) /\ coming \in Seq(Token)
  BY LenProperties DEF HttpTypes
<1>2. PICK a \in Seq(Token) : a = taken \o buffer
  BY <1>1, ConcatProperties
<1>3. /\ Len(a) = Len(taken) + Len(buffer)
      /\ \A i \in 1 .. Len(taken) + Len(buffer) :
           a[i] = IF i <= Len(taken) THEN taken[i] ELSE buffer[i - Len(taken)]
  BY <1>1, <1>2, ConcatProperties
<1>4. /\ a \o coming \in Seq(Token)
      /\ Len(a \o coming) = Len(a) + Len(coming)
      /\ \A i \in 1 .. Len(a) + Len(coming) :
           (a \o coming)[i] = IF i <= Len(a) THEN a[i] ELSE coming[i - Len(a)]
  BY <1>1, ConcatProperties
<1>5. Whole = a \o coming
  BY <1>2 DEF Whole
<1>6. ASSUME NEW i \in 1 .. Len(taken) PROVE Whole[i] = taken[i]
  <2>1. i \in 1 .. Len(a) + Len(coming) /\ i <= Len(a) /\ i \in 1 .. Len(taken) + Len(buffer)
    BY <1>1, <1>3
  <2>2. QED
    BY <1>3, <1>4, <1>5, <2>1
<1>7. ASSUME NEW i \in 1 .. Len(buffer) PROVE Whole[Len(taken) + i] = buffer[i]
  <2>1. /\ Len(taken) + i \in 1 .. Len(a) + Len(coming) /\ Len(taken) + i <= Len(a)
        /\ Len(taken) + i \in 1 .. Len(taken) + Len(buffer) /\ ~(Len(taken) + i <= Len(taken))
        /\ (Len(taken) + i) - Len(taken) = i
    BY <1>1, <1>3
  <2>2. QED
    BY <1>3, <1>4, <1>5, <2>1
<1>8. ASSUME NEW i \in 1 .. Len(coming) PROVE Whole[Len(taken) + Len(buffer) + i] = coming[i]
  <2>1. /\ Len(a) + i \in 1 .. Len(a) + Len(coming) /\ ~(Len(a) + i <= Len(a))
        /\ (Len(a) + i) - Len(a) = i /\ Len(a) + i = Len(taken) + Len(buffer) + i
    BY <1>1, <1>3
  <2>2. QED
    BY <1>4, <1>5, <2>1
<1>9. QED
  BY <1>1, <1>3, <1>4, <1>5, <1>6, <1>7, <1>8

(* What is left of the stream after what was taken.                         *)
LEMMA AfterTaken ==
  ASSUME HttpTypes
  PROVE  /\ Drop(Whole, Len(taken)) \in Seq(Token)
         /\ Len(Drop(Whole, Len(taken))) = Len(buffer) + Len(coming)
         /\ \A i \in 1 .. Len(buffer) : Drop(Whole, Len(taken))[i] = buffer[i]
         /\ Drop(Whole, Len(taken)) = buffer \o coming
<1>1. /\ Whole \in Seq(Token) /\ Len(taken) \in 0 .. Len(Whole)
      /\ Len(taken) \in Nat /\ Len(buffer) \in Nat /\ Len(coming) \in Nat
      /\ Len(Whole) = Len(taken) + Len(buffer) + Len(coming)
      /\ \A i \in 1 .. Len(buffer) : Whole[Len(taken) + i] = buffer[i]
      /\ \A i \in 1 .. Len(coming) : Whole[Len(taken) + Len(buffer) + i] = coming[i]
  BY WholeProperties
<1>2. PICK d \in Seq(Token) : d = Drop(Whole, Len(taken))
  BY <1>1, CutInTwo
<1>3. /\ Len(d) = Len(Whole) - Len(taken)
      /\ \A i \in 1 .. Len(Whole) - Len(taken) : d[i] = Whole[Len(taken) + i]
  BY <1>1, <1>2, CutInTwo
<1>4. Len(d) = Len(buffer) + Len(coming)
  BY <1>1, <1>3
<1>5. ASSUME NEW i \in 1 .. Len(buffer) PROVE d[i] = buffer[i]
  BY <1>1, <1>3
<1>6. ASSUME NEW i \in 1 .. Len(coming) PROVE d[Len(buffer) + i] = coming[i]
  <2>1. Len(buffer) + i \in 1 .. Len(Whole) - Len(taken)
    BY <1>1
  <2>2. d[Len(buffer) + i] = Whole[Len(taken) + (Len(buffer) + i)]
    BY <1>3, <2>1
  <2>3. Len(taken) + (Len(buffer) + i) = Len(taken) + Len(buffer) + i
    BY <1>1
  <2>4. QED
    BY <1>1, <2>2, <2>3
<1>7. d = buffer \o coming
  <2>1. PICK t \in Seq(Token) : t = buffer \o coming
    BY ConcatProperties DEF HttpTypes
  <2>2. /\ Len(t) = Len(buffer) + Len(coming)
        /\ \A i \in 1 .. Len(buffer) + Len(coming) :
             t[i] = IF i <= Len(buffer) THEN buffer[i] ELSE coming[i - Len(buffer)]
    BY <2>1, ConcatProperties DEF HttpTypes
  <2>3. ASSUME NEW i \in 1 .. Len(d) PROVE d[i] = t[i]
    <3>1. CASE i <= Len(buffer)
      BY <1>1, <1>4, <1>5, <2>2, <2>3, <3>1
    <3>2. CASE ~(i <= Len(buffer))
      <4>1. i - Len(buffer) \in 1 .. Len(coming) /\ Len(buffer) + (i - Len(buffer)) = i
        BY <1>1, <1>4, <2>3, <3>2
      <4>2. d[i] = coming[i - Len(buffer)]
        BY <1>6, <4>1
      <4>3. QED
        BY <1>4, <2>2, <2>3, <3>2, <4>2
    <3>3. QED
      BY <3>1, <3>2
  <2>4. d = t
    BY <1>4, <2>2, <2>3, SeqEqual
  <2>5. QED
    BY <2>1, <2>4
<1>8. QED
  BY <1>2, <1>4, <1>5, <1>7

LEMMA AfterBuffer ==
  ASSUME HttpTypes
  PROVE  Drop(Whole, Len(taken) + Len(buffer)) = coming
<1>1. /\ Whole \in Seq(Token) /\ Len(taken) + Len(buffer) \in 0 .. Len(Whole)
      /\ Len(taken) \in Nat /\ Len(buffer) \in Nat /\ Len(coming) \in Nat
      /\ Len(Whole) = Len(taken) + Len(buffer) + Len(coming)
      /\ \A i \in 1 .. Len(coming) : Whole[Len(taken) + Len(buffer) + i] = coming[i]
  BY WholeProperties
<1>2. PICK d \in Seq(Token) : d = Drop(Whole, Len(taken) + Len(buffer))
  BY <1>1, CutInTwo
<1>3. /\ Len(d) = Len(Whole) - (Len(taken) + Len(buffer))
      /\ \A i \in 1 .. Len(Whole) - (Len(taken) + Len(buffer)) :
           d[i] = Whole[Len(taken) + Len(buffer) + i]
  BY <1>1, <1>2, CutInTwo
<1>4. Len(d) = Len(coming) /\ \A i \in 1 .. Len(d) : d[i] = coming[i]
  BY <1>1, <1>3
<1>5. d = coming
  BY <1>4, SeqEqual DEF HttpTypes
<1>6. QED
  BY <1>2, <1>5

(* Steps that only move data along leave the stream as it is.               *)
LEMMA WholeKept ==
  ASSUME HttpTypes, NEW k \in 0 .. Len(buffer), UNCHANGED coming,
         buffer' = Drop(buffer, k), taken' = taken \o SubSeq(buffer, 1, k)
  PROVE  Whole' = Whole
<1>1. taken' \o buffer' = taken \o buffer
  BY MovedAlong DEF HttpTypes
<1>2. QED
  BY <1>1 DEF Whole

LEMMA WholeReceived ==
  ASSUME HttpTypes, NEW n \in 1 .. Len(coming), Receive(n)
  PROVE  Whole' = Whole
<1>1. n \in 0 .. Len(coming)
  BY LenProperties DEF HttpTypes
<1>2. PICK x \in Seq(Token) : x = SubSeq(coming, 1, n)
  BY <1>1, CutInTwo DEF HttpTypes
<1>3. PICK a \in Seq(Token), b \in Seq(Token) : a = taken /\ b = buffer
  BY DEF HttpTypes
<1>4. (a \o b) \o x = a \o (b \o x)
  BY Regrouped, Zenon
<1>5. PICK y \in Seq(Token) : y = Drop(coming, n)
  BY <1>1, CutInTwo DEF HttpTypes
<1>6. x \o y = coming
  BY <1>1, <1>2, <1>5, CutInTwo DEF HttpTypes
<1>7. PICK z \in Seq(Token) : z = a \o b
  BY Regrouped
<1>8. (z \o x) \o y = z \o (x \o y)
  BY Regrouped, Zenon
<1>9. taken' = a /\ buffer' = b \o x /\ coming' = y
  BY <1>2, <1>3, <1>5 DEF Receive
<1>10. QED
  BY <1>3, <1>4, <1>6, <1>7, <1>8, <1>9 DEF Whole

-------------------------------------------------------------------------------
(* Two streams that begin alike begin with the same header.                 *)
Alike(s, t, h) ==
  /\ 2 * h + 2 <= Len(s) /\ 2 * h + 2 <= Len(t)
  /\ \A i \in 1 .. 2 * h + 2 : s[i] = t[i]

LEMMA SameBeginning ==
  ASSUME NEW s \in Seq(Token), NEW t \in Seq(Token), NEW h \in Nat, Alike(s, t, h),
         Stream!BeginsWell(s, h)
  PROVE  /\ Stream!BeginsWell(t, h)
         /\ Stream!Fields(t, h) = Stream!Fields(s, h)
         /\ t[1] = s[1]
<1>1. Len(s) \in Nat /\ Len(t) \in Nat
  BY LenProperties
<1>2. \A i \in 1 .. h : 2 * i + 1 \in 1 .. 2 * h + 2 /\ 2 * i + 2 \in 1 .. 2 * h + 2
  OBVIOUS
<1>3. \A i \in 1 .. h : t[2 * i + 1] = s[2 * i + 1] /\ t[2 * i + 2] = s[2 * i + 2]
  BY <1>2 DEF Alike
<1>4. t[1] = s[1] /\ t[2] = s[2]
  BY DEF Alike
<1>5. Stream!BeginsWell(t, h)
  BY <1>1, <1>3, <1>4 DEF Alike, Stream!BeginsWell
<1>6. \A i \in 1 .. h : Stream!FieldAt(t, i) = Stream!FieldAt(s, i)
  BY <1>3 DEF Stream!FieldAt
<1>7. \A k \in 1 .. h : \A j \in 1 .. k - 1 : j \in 1 .. h
  OBVIOUS
<1>8. {k \in 1 .. h : \A j \in 1 .. k - 1 : Stream!FieldAt(t, j).kind # Stream!FieldAt(t, k).kind}
        = {k \in 1 .. h : \A j \in 1 .. k - 1 : Stream!FieldAt(s, j).kind # Stream!FieldAt(s, k).kind}
  BY <1>6, <1>7
<1>9. Stream!Fields(t, h) = Stream!Fields(s, h)
  BY <1>6, <1>8 DEF Stream!Fields
<1>10. QED
  BY <1>4, <1>5, <1>9

(* One more header line: SetHeader keeps the first of a key.                *)
LEMMA OneMoreField ==
  ASSUME NEW s \in Seq(Token), NEW h \in Nat
  PROVE  Stream!Fields(s, h + 1) = SetHeader(Stream!Fields(s, h), Stream!FieldAt(s, h + 1))
<1> DEFINE F(i) == Stream!FieldAt(s, i)
           First(n) == {k \in 1 .. n : \A j \in 1 .. k - 1 : F(j).kind # F(k).kind}
<1>1. \A n \in Nat : Stream!Fields(s, n) = {F(i) : i \in First(n)}
  BY DEF Stream!Fields
<1>2. \A k \in 1 .. h : k \in First(h) <=> k \in First(h + 1)
  OBVIOUS
<1>3. h + 1 \in First(h + 1) <=> \A j \in 1 .. h : F(j).kind # F(h + 1).kind
  OBVIOUS
<1>4. (\A j \in 1 .. h : F(j).kind # F(h + 1).kind)
        <=> ~ \E i \in First(h) : F(i).kind = F(h + 1).kind
  <2>1. ASSUME NEW j \in 1 .. h, F(j).kind = F(h + 1).kind
        PROVE  \E i \in First(h) : F(i).kind = F(h + 1).kind
    <3> DEFINE T == {i \in 1 .. h : F(i).kind = F(h + 1).kind}
    <3>1. T \in SUBSET Nat /\ T # {}
      BY <2>1
    <3>2. PICK m \in T : \A k \in T : m <= k
      <4> HIDE DEF T
      <4>1. QED
        BY <3>1, FirstOf
    <3>3. m \in First(h) /\ F(m).kind = F(h + 1).kind
      BY <3>2
    <3>4. QED
      BY <3>3
  <2>2. First(h) \subseteq 1 .. h
    OBVIOUS
  <2> HIDE DEF First, F
  <2>3. QED
    BY <2>1, <2>2
<1>5. First(h + 1) \subseteq 1 .. h + 1 /\ First(h) \subseteq 1 .. h
      /\ \A k \in 1 .. h + 1 : k \in 1 .. h \/ k = h + 1
  OBVIOUS
<1> HIDE DEF First, F
<1>6. CASE \E i \in First(h) : F(i).kind = F(h + 1).kind
  <2>1. First(h + 1) = First(h)
    BY <1>2, <1>3, <1>4, <1>5, <1>6
  <2>2. \E u \in {F(i) : i \in First(h)} : u.kind = F(h + 1).kind
    BY <1>6
  <2>3. h + 1 \in Nat
    OBVIOUS
  <2>4. Stream!Fields(s, h + 1) = Stream!Fields(s, h)
    BY <1>1, <2>1, <2>3
  <2>5. \E u \in Stream!Fields(s, h) : u.kind = F(h + 1).kind
    BY <1>1, <2>2
  <2>6. QED
    BY <2>4, <2>5 DEF SetHeader, F
<1>7. CASE ~ \E i \in First(h) : F(i).kind = F(h + 1).kind
  <2>1. First(h + 1) = First(h) \cup {h + 1}
    BY <1>2, <1>3, <1>4, <1>5, <1>7
  <2>2. {F(i) : i \in First(h + 1)} = {F(i) : i \in First(h)} \cup {F(h + 1)}
    BY <2>1
  <2>3. ~ \E u \in {F(i) : i \in First(h)} : u.kind = F(h + 1).kind
    BY <1>7
  <2>4. h + 1 \in Nat
    OBVIOUS
  <2>5. Stream!Fields(s, h + 1) = Stream!Fields(s, h) \cup {F(h + 1)}
    BY <1>1, <2>2, <2>4
  <2>6. ~ \E u \in Stream!Fields(s, h) : u.kind = F(h + 1).kind
    BY <1>1, <2>3
  <2>7. QED
    BY <2>5, <2>6 DEF SetHeader, F
<1>8. QED
  BY <1>6, <1>7

-------------------------------------------------------------------------------
(* What has been taken is what the parser made of it: nothing before the    *)
(* request line; then a good beginning with the fields and the target of    *)
(* the request; then the empty line and the body.  After an error the line  *)
(* that follows a good beginning, or the first one, is bad.                 *)
HeadRead(h) ==
  /\ Stream!BeginsWell(taken, h)
  /\ request.fields = Stream!Fields(taken, h)
  /\ [path |-> request.path, params |-> request.params] = Stream!Target(taken[1].n)

BodyRead(h) ==
  /\ HeadRead(h)
  /\ Len(taken) = 2 * h + 3 + Len(request.body)
  /\ taken[2 * h + 3] = NL
  /\ \A i \in 1 .. Len(request.body) : request.body[i] = taken[2 * h + 3 + i]

Bad(begun, first) ==
  /\ begun < Len(taken) + Len(buffer)
  /\ \/ resp = 414 /\ Stream!TooLong(Drop(Whole, begun))
     \/ resp = 400 /\ Stream!BadLine(Drop(Whole, begun), first)

Malformed ==
  \/ request.fields = {} /\ Bad(0, TRUE)
  \/ \E h \in Nat : /\ Stream!BeginsWell(Whole, h)
                    /\ request.fields = Stream!Fields(Whole, h)
                    /\ Bad(2 * h + 2, FALSE)

ReadInv ==
  /\ recv = "LINE" => taken = <<>> /\ request = NoRequest
  /\ recv = "HEAD" => \E h \in Nat : HeadRead(h) /\ Len(taken) = 2 * h + 2
  /\ recv \in {"BODY", "OVER"} => \E h \in Nat : BodyRead(h)
  /\ recv = "OVER" => Need = 0
  /\ recv = "ERROR" => Malformed
  /\ resp # 200 <=> recv = "ERROR"

LEMMA ReadInit == Init => ReadInv
  BY DEF Init, ReadInv

(* Between errors, only what was taken and made of it matters.              *)
LEMMA ReadKept ==
  ASSUME ReadInv, recv # "ERROR", UNCHANGED <<recv, resp, request, taken>>
  PROVE  ReadInv'
  BY DEF ReadInv, HeadRead, BodyRead, Need

(* Tokens that move from the buffer to what has been taken.                 *)
LEMMA TakenMore ==
  ASSUME HttpTypes, NEW k \in 0 .. Len(buffer),
         taken' = taken \o SubSeq(buffer, 1, k), buffer' = Drop(buffer, k)
  PROVE  /\ Len(taken) \in Nat /\ Len(buffer) \in Nat
         /\ taken' \in Seq(Token) /\ Len(taken') = Len(taken) + k
         /\ Len(buffer') = Len(buffer) - k
         /\ \A i \in 1 .. Len(taken) : taken'[i] = taken[i]
         /\ \A i \in 1 .. k : taken'[Len(taken) + i] = buffer[i]
<1>1. Len(taken) \in Nat /\ Len(buffer) \in Nat /\ taken \in Seq(Token)
  BY LenProperties DEF HttpTypes
<1>2. PICK x \in Seq(Token) : x = SubSeq(buffer, 1, k)
  BY CutInTwo DEF HttpTypes
<1>3. Len(x) = k /\ (\A i \in 1 .. k : x[i] = buffer[i]) /\ Len(Drop(buffer, k)) = Len(buffer) - k
  BY <1>2, CutInTwo DEF HttpTypes
<1>4. /\ taken \o x \in Seq(Token) /\ Len(taken \o x) = Len(taken) + Len(x)
      /\ \A i \in 1 .. Len(taken) + Len(x) :
           (taken \o x)[i] = IF i <= Len(taken) THEN taken[i] ELSE x[i - Len(taken)]
  BY <1>1, ConcatProperties
<1>5. taken' = taken \o x
  BY <1>2
<1>6. \A i \in 1 .. Len(taken) : taken'[i] = taken[i]
  BY <1>1, <1>3, <1>4, <1>5
<1>7. ASSUME NEW i \in 1 .. k PROVE taken'[Len(taken) + i] = buffer[i]
  <2>1. /\ Len(taken) + i \in 1 .. Len(taken) + Len(x) /\ ~(Len(taken) + i <= Len(taken))
        /\ (Len(taken) + i) - Len(taken) = i
    BY <1>1, <1>3
  <2>2. QED
    BY <1>3, <1>4, <1>5, <2>1
<1>8. QED
  BY <1>1, <1>3, <1>4, <1>5, <1>6, <1>7

(* A good beginning that was taken stays one, and begins the stream.        *)
LEMMA HeadStays ==
  ASSUME HttpTypes, NEW k \in 0 .. Len(buffer),
         taken' = taken \o SubSeq(buffer, 1, k), buffer' = Drop(buffer, k),
         NEW h \in Nat, 2 * h + 2 <= Len(taken), Stream!BeginsWell(taken, h)
  PROVE  /\ Stream!BeginsWell(taken', h)
         /\ Stream!Fields(taken', h) = Stream!Fields(taken, h)
         /\ taken'[1] = taken[1]
<1>1. PICK t \in Seq(Token) : t = taken'
  BY TakenMore
<1>2. Len(t) \in Nat /\ Len(t) = Len(taken) + k /\ Len(taken) \in Nat
      /\ \A i \in 1 .. Len(taken) : t[i] = taken[i]
  BY <1>1, TakenMore
<1>3. Alike(taken, t, h)
  BY <1>2 DEF Alike
<1>4. /\ Stream!BeginsWell(t, h)
      /\ Stream!Fields(t, h) = Stream!Fields(taken, h)
      /\ t[1] = taken[1]
  BY <1>3, SameBeginning DEF HttpTypes
<1>5. QED
  BY <1>1, <1>4

LEMMA HeadOfWhole ==
  ASSUME HttpTypes, NEW h \in Nat, 2 * h + 2 <= Len(taken), Stream!BeginsWell(taken, h)
  PROVE  /\ Stream!BeginsWell(Whole, h)
         /\ Stream!Fields(Whole, h) = Stream!Fields(taken, h)
         /\ Whole[1] = taken[1]
<1>1. PICK w \in Seq(Token) : w = Whole
  BY WholeProperties
<1>2. Alike(taken, w, h)
  BY <1>1, WholeProperties DEF Alike
<1>3. /\ Stream!BeginsWell(w, h)
      /\ Stream!Fields(w, h) = Stream!Fields(taken, h)
      /\ w[1] = taken[1]
  BY <1>2, SameBeginning DEF HttpTypes
<1>4. QED
  BY <1>1, <1>3

(* The line the parser is at.                                               *)
LEMMA LongHere ==
  ASSUME HttpTypes,
         \/ ~HasLine(buffer) /\ Len(buffer) > MaxLine
         \/ HasLine(buffer) /\ LineLen(buffer) > MaxLine
  PROVE  Stream!TooLong(Drop(Whole, Len(taken))) /\ Len(buffer) \in Nat \ {0}
<1>1. PICK d : d = Drop(Whole, Len(taken))
  OBVIOUS
<1>2. /\ Len(d) = Len(buffer) + Len(coming)
      /\ \A i \in 1 .. Len(buffer) : d[i] = buffer[i]
      /\ Len(buffer) \in Nat /\ Len(coming) \in Nat /\ MaxLine \in Nat
  BY <1>1, AfterTaken, WholeProperties, ServerAssumption
<1>3. Len(buffer) > MaxLine
      \/ (Len(buffer) >= LineLen(buffer) /\ LineLen(buffer) > MaxLine /\ LineLen(buffer) \in Nat)
  BY LineBounds DEF HttpTypes
<1>4. \A i \in 1 .. MaxLine : i \in 1 .. Len(buffer) /\ buffer[i] # NL
  <2>1. CASE ~HasLine(buffer) /\ Len(buffer) > MaxLine
    BY <1>2, <2>1 DEF HasLine
  <2>2. CASE HasLine(buffer) /\ LineLen(buffer) > MaxLine
    BY <1>2, <2>2, LineBounds DEF HttpTypes
  <2>3. QED
    BY <2>1, <2>2
<1>5. Stream!TooLong(d)
  BY <1>2, <1>3, <1>4 DEF Stream!TooLong, Stream!NL, NL
<1>6. QED
  BY <1>1, <1>2, <1>3, <1>5

LEMMA BadHere ==
  ASSUME HttpTypes, HasLine(buffer), LineLen(buffer) <= MaxLine
  PROVE  /\ Len(buffer) \in Nat \ {0}
         /\ ~(LineLen(buffer) = 2 /\ Stream!IsRequestLine(buffer[1]))
              => Stream!BadLine(Drop(Whole, Len(taken)), TRUE)
         /\ ~(LineLen(buffer) = 1 \/ (LineLen(buffer) = 2 /\ IsField(buffer[1])))
              => Stream!BadLine(Drop(Whole, Len(taken)), FALSE)
<1>1. PICK d : d = Drop(Whole, Len(taken))
  OBVIOUS
<1>2. PICK l : l = LineLen(buffer)
  OBVIOUS
<1>3. /\ Len(d) = Len(buffer) + Len(coming)
      /\ \A i \in 1 .. Len(buffer) : d[i] = buffer[i]
      /\ Len(buffer) \in Nat /\ Len(coming) \in Nat /\ MaxLine \in Nat
  BY <1>1, AfterTaken, WholeProperties, ServerAssumption
<1>4. l \in 1 .. Len(buffer) /\ buffer[l] = NL /\ \A j \in 1 .. l - 1 : buffer[j] # NL
  BY <1>2, LineBounds DEF HttpTypes
<1>5. /\ l \in 1 .. MaxLine /\ l <= Len(d) /\ d[l] = NL /\ d[1] = buffer[1]
      /\ \A j \in 1 .. l - 1 : d[j] # NL
  BY <1>2, <1>3, <1>4
<1>6. ASSUME ~(l = 2 /\ Stream!IsRequestLine(buffer[1])) PROVE Stream!BadLine(d, TRUE)
  BY <1>5, <1>6 DEF Stream!BadLine, Stream!NL, NL, Stream!IsRequestLine
<1>7. ASSUME ~(l = 1 \/ (l = 2 /\ IsField(buffer[1]))) PROVE Stream!BadLine(d, FALSE)
  BY <1>5, <1>7 DEF Stream!BadLine, Stream!NL, NL, Stream!IsField, IsField
<1>8. Len(buffer) \in Nat \ {0}
  BY <1>3, <1>4
<1>9. ~(LineLen(buffer) = 2 /\ Stream!IsRequestLine(buffer[1]))
        => Stream!BadLine(Drop(Whole, Len(taken)), TRUE)
  BY <1>1, <1>2, <1>6
<1>10. ~(LineLen(buffer) = 1 \/ (LineLen(buffer) = 2 /\ IsField(buffer[1])))
        => Stream!BadLine(Drop(Whole, Len(taken)), FALSE)
  BY <1>1, <1>2, <1>7
<1>11. QED
  BY <1>8, <1>9, <1>10

(* The grammar of lines does not change with the state.                     *)
LEMMA GrammarIsFixed ==
  ASSUME NEW CONSTANT s
  PROVE  /\ Stream!TooLong(s)' <=> Stream!TooLong(s)
         /\ Stream!BadLine(s, TRUE)' <=> Stream!BadLine(s, TRUE)
         /\ Stream!BadLine(s, FALSE)' <=> Stream!BadLine(s, FALSE)
  BY DEF Stream!TooLong, Stream!BadLine, Stream!NL, Stream!IsRequestLine, Stream!IsField

LEMMA NowBad ==
  ASSUME NEW CONSTANT b \in Nat, Len(taken) = b, Whole' = Whole,
         Len(taken') + Len(buffer') = Len(taken) + Len(buffer), Len(buffer) \in Nat \ {0}
  PROVE  /\ resp' = 414 /\ Stream!TooLong(Drop(Whole, Len(taken))) => Bad(b, TRUE)' /\ Bad(b, FALSE)'
         /\ resp' = 400 /\ Stream!BadLine(Drop(Whole, Len(taken)), TRUE) => Bad(b, TRUE)'
         /\ resp' = 400 /\ Stream!BadLine(Drop(Whole, Len(taken)), FALSE) => Bad(b, FALSE)'
<1>1. PICK d : d = Drop(Whole, b)
  OBVIOUS
<1>2. Drop(Whole, b)' = d
  BY <1>1 DEF Drop
<1>3. b < Len(taken') + Len(buffer')
  OBVIOUS
<1>4. Stream!TooLong(d)' <=> Stream!TooLong(Drop(Whole, Len(taken)))
  BY <1>1, GrammarIsFixed
<1>5. Stream!BadLine(d, TRUE)' <=> Stream!BadLine(Drop(Whole, Len(taken)), TRUE)
  BY <1>1, GrammarIsFixed
<1>6. Stream!BadLine(d, FALSE)' <=> Stream!BadLine(Drop(Whole, Len(taken)), FALSE)
  BY <1>1, GrammarIsFixed
<1>7. QED
  BY <1>2, <1>3, <1>4, <1>5, <1>6 DEF Bad

LEMMA NowMalformed ==
  ASSUME HttpTypes, ReadInv, recv \in {"LINE", "HEAD"}, Whole' = Whole, UNCHANGED request,
         Len(taken') + Len(buffer') = Len(taken) + Len(buffer), Len(buffer) \in Nat \ {0},
         \/ resp' = 414 /\ Stream!TooLong(Drop(Whole, Len(taken)))
         \/ resp' = 400 /\ recv = "LINE" /\ Stream!BadLine(Drop(Whole, Len(taken)), TRUE)
         \/ resp' = 400 /\ recv = "HEAD" /\ Stream!BadLine(Drop(Whole, Len(taken)), FALSE)
  PROVE  Malformed'
<1>1. Len(taken) \in Nat
  BY LenProperties DEF HttpTypes
<1>2. CASE recv = "LINE"
  <2>1. Len(taken) = 0 /\ request.fields = {}
    BY <1>2, EmptySeq DEF ReadInv, NoRequest
  <2>2. PICK b \in Nat : b = 0
    OBVIOUS
  <2>3. Bad(b, TRUE)'
    BY <1>2, <2>1, <2>2, NowBad
  <2>4. QED
    BY <2>1, <2>2, <2>3 DEF Malformed
<1>3. CASE recv = "HEAD"
  <2>1. PICK h \in Nat : HeadRead(h) /\ Len(taken) = 2 * h + 2
    BY <1>3 DEF ReadInv
  <2>2. Stream!BeginsWell(Whole, h) /\ request.fields = Stream!Fields(Whole, h)
    BY <2>1, HeadOfWhole DEF HeadRead
  <2>3. PICK b \in Nat : b = 2 * h + 2
    OBVIOUS
  <2>4. Bad(b, FALSE)'
    BY <1>3, <2>1, <2>3, NowBad
  <2>5. QED
    BY <2>2, <2>3, <2>4 DEF Malformed
<1>4. QED
  BY <1>2, <1>3

-------------------------------------------------------------------------------
(* The steps, and what they make of what they take.                         *)
LEMMA ReadOutside ==
  ASSUME HttpTypes, Turn, ReadInv,
         \/ \E n \in 1 .. Len(coming) : Receive(n)
         \/ EndOfData \/ HandleWrite \/ TestBuffer \/ AwaitMore \/ UNCHANGED vars
  PROVE  ReadInv'
<1>1. CASE UNCHANGED vars
  <2>1. Malformed => Malformed'
    BY <1>1 DEF vars, context, Malformed, Bad, Whole
  <2>2. QED
    BY <1>1, <2>1 DEF vars, context, ReadInv, HeadRead, BodyRead, Need
<1>2. CASE ~ UNCHANGED vars
  <2>1. UNCHANGED <<recv, resp, request, taken>>
    BY <1>2 DEF Receive, EndOfData, HandleWrite, TestBuffer, AwaitMore, context
  <2>2. pc \in {"idle", "test"} \/ (pc = "received" /\ resp < 400 /\ recv # "OVER")
    BY <1>2 DEF Receive, EndOfData, HandleWrite, TestBuffer, AwaitMore, Turn
  <2>3. recv # "ERROR"
    BY <2>2 DEF HttpTypes, Turn, Parsing
  <2>4. QED
    BY <2>1, <2>3, ReadKept
<1>3. QED
  BY <1>1, <1>2

LEMMA ReadNoLine ==
  ASSUME HttpTypes, Turn, ReadInv, NoLineYet
  PROVE  ReadInv'
<1>1. /\ recv \in {"LINE", "HEAD"} /\ ~HasLine(buffer)
      /\ UNCHANGED <<coming, buffer, request, taken>>
  BY DEF NoLineYet, Receiving
<1>2. CASE Len(buffer) > MaxLine
  <2>1. recv' = "ERROR" /\ resp' = 414
    BY <1>2 DEF NoLineYet, Fail
  <2>2. Stream!TooLong(Drop(Whole, Len(taken))) /\ Len(buffer) \in Nat \ {0}
    BY <1>1, <1>2, LongHere
  <2>3. Whole' = Whole /\ Len(taken') + Len(buffer') = Len(taken) + Len(buffer)
    BY <1>1 DEF Whole
  <2>4. Malformed'
    BY <1>1, <2>1, <2>2, <2>3, NowMalformed
  <2>5. QED
    BY <2>1, <2>4 DEF ReadInv
<1>3. CASE ~(Len(buffer) > MaxLine)
  <2>1. UNCHANGED <<recv, resp, request, taken>>
    BY <1>3 DEF NoLineYet
  <2>2. QED
    BY <1>1, <2>1, ReadKept
<1>4. QED
  BY <1>2, <1>3

(* A line that is taken.                                                    *)
LEMMA LineTaken ==
  ASSUME HttpTypes, HasLine(buffer), PopLine, UNCHANGED coming
  PROVE  /\ LineLen(buffer) \in 1 .. Len(buffer)
         /\ buffer[LineLen(buffer)] = NL
         /\ Len(buffer) \in Nat \ {0}
         /\ Whole' = Whole
         /\ Len(taken') + Len(buffer') = Len(taken) + Len(buffer)
         /\ Len(taken) \in Nat
         /\ taken' \in Seq(Token)
         /\ Len(taken') = Len(taken) + LineLen(buffer)
         /\ \A i \in 1 .. Len(taken) : taken'[i] = taken[i]
         /\ \A i \in 1 .. LineLen(buffer) : taken'[Len(taken) + i] = buffer[i]
<1>1. LineLen(buffer) \in 1 .. Len(buffer) /\ buffer[LineLen(buffer)] = NL /\ Len(buffer) \in Nat
  BY LineBounds, LenProperties DEF HttpTypes
<1>2. PICK k \in 0 .. Len(buffer) : k = LineLen(buffer)
  BY <1>1
<1>3. taken' = taken \o SubSeq(buffer, 1, k) /\ buffer' = Drop(buffer, k)
  BY <1>2 DEF PopLine
<1>4. Whole' = Whole
  BY <1>3, WholeKept
<1>5. /\ Len(taken) \in Nat
      /\ taken' \in Seq(Token) /\ Len(taken') = Len(taken) + k
      /\ Len(buffer') = Len(buffer) - k
      /\ \A i \in 1 .. Len(taken) : taken'[i] = taken[i]
      /\ \A i \in 1 .. k : taken'[Len(taken) + i] = buffer[i]
  BY <1>3, TakenMore
<1>6. QED
  BY <1>1, <1>2, <1>4, <1>5

LEMMA ReadLongLine ==
  ASSUME HttpTypes, Turn, ReadInv, LineTooLong
  PROVE  ReadInv'
<1>1. /\ recv \in {"LINE", "HEAD"} /\ recv' = "ERROR" /\ resp' = 414
      /\ HasLine(buffer) /\ LineLen(buffer) > MaxLine /\ PopLine
      /\ UNCHANGED coming /\ UNCHANGED request
  BY DEF LineTooLong, Receiving, Fail
<1>2. Stream!TooLong(Drop(Whole, Len(taken))) /\ Len(buffer) \in Nat \ {0}
  BY <1>1, LongHere
<1>3. Whole' = Whole /\ Len(taken') + Len(buffer') = Len(taken) + Len(buffer)
  BY <1>1, LineTaken
<1>4. Malformed'
  BY <1>1, <1>2, <1>3, NowMalformed
<1>5. QED
  BY <1>1, <1>4 DEF ReadInv

LEMMA ReadBadLine ==
  ASSUME HttpTypes, ReadInv, Line, UNCHANGED coming, UNCHANGED request, Fail(400),
         \/ recv = "LINE" /\ ~(LineLen(buffer) = 2 /\ Stream!IsRequestLine(buffer[1]))
         \/ recv = "HEAD" /\ ~(LineLen(buffer) = 1 \/ (LineLen(buffer) = 2 /\ IsField(buffer[1])))
  PROVE  ReadInv'
<1>1. /\ recv' = "ERROR" /\ resp' = 400
      /\ HasLine(buffer) /\ LineLen(buffer) <= MaxLine /\ PopLine
  BY DEF Line, Fail
<1>2. /\ Len(buffer) \in Nat \ {0}
      /\ recv = "LINE" => Stream!BadLine(Drop(Whole, Len(taken)), TRUE)
      /\ recv = "HEAD" => Stream!BadLine(Drop(Whole, Len(taken)), FALSE)
  BY <1>1, BadHere
<1>3. Whole' = Whole /\ Len(taken') + Len(buffer') = Len(taken) + Len(buffer)
  BY <1>1, LineTaken
<1>4. Malformed'
  BY <1>1, <1>2, <1>3, NowMalformed
<1>5. QED
  BY <1>1, <1>4 DEF ReadInv

LEMMA ReadRequestLine ==
  ASSUME HttpTypes, Turn, ReadInv, RecvHttpLine
  PROVE  ReadInv'
<1>1. /\ recv = "LINE" /\ Line /\ HasLine(buffer) /\ PopLine /\ UNCHANGED coming
      /\ resp = 200
  BY DEF RecvHttpLine, Receiving, Line, Turn, Parsing
<1>2. /\ Len(buffer) \in Nat \ {0} /\ buffer[1] \in Token
      /\ buffer[1].kind = "request" => buffer[1].n \in 1 .. Len(Meant)
  BY <1>1, FirstToken
<1>3. Stream!IsRequestLine(buffer[1])
        <=> buffer[1].kind = "request" /\ Parsed[buffer[1].n].ok
  BY DEF Stream!IsRequestLine
<1>4. CASE LineLen(buffer) = 2 /\ buffer[1].kind = "request" /\ Parsed[buffer[1].n].ok
  <2>1. PICK n \in 1 .. Len(Meant) : n = buffer[1].n
    BY <1>2, <1>4
  <2>2. /\ request' = [request EXCEPT !.path = Parsed[n].path, !.params = Parsed[n].params]
        /\ recv' = "HEAD" /\ resp' = 200
    BY <1>1, <1>4, <2>1 DEF RecvHttpLine
  <2>3. taken = <<>> /\ request = NoRequest
    BY <1>1 DEF ReadInv
  <2>4. /\ request'.path = Parsed[n].path /\ request'.params = Parsed[n].params
        /\ request'.fields = {}
    BY <2>2, <2>3 DEF NoRequest
  <2>5. Len(taken') = 2 /\ taken'[1] = buffer[1] /\ taken'[2] = NL
    BY <1>1, <1>4, <2>3, LineTaken, EmptySeq
  <2>6. PICK h \in Nat : h = 0
    OBVIOUS
  <2>7. PICK t : t = taken'
    OBVIOUS
  <2>8. Stream!BeginsWell(t, h) /\ Stream!Fields(t, h) = {}
    <3>1. 2 * h + 2 = 2 /\ 1 .. h = {}
      BY <2>6
    <3>2. Stream!Fields(t, h) = {}
      BY <3>1 DEF Stream!Fields
    <3>3. Stream!IsRequestLine(t[1]) /\ t[2] = Stream!NL
      BY <1>3, <1>4, <2>5, <2>7 DEF Stream!NL, NL
    <3>4. Len(t) = 2
      BY <2>5, <2>7
    <3>5. QED
      BY <3>1, <3>2, <3>3, <3>4 DEF Stream!BeginsWell
  <2>9. [path |-> request'.path, params |-> request'.params] = Stream!Target(t[1].n)
    BY <2>1, <2>4, <2>5, <2>7 DEF Stream!Target
  <2>10. HeadRead(h)'
    BY <2>4, <2>7, <2>8, <2>9 DEF HeadRead
  <2>11. QED
    BY <2>2, <2>5, <2>6, <2>10 DEF ReadInv
<1>5. CASE ~(LineLen(buffer) = 2 /\ buffer[1].kind = "request" /\ Parsed[buffer[1].n].ok)
  <2>1. Fail(400) /\ UNCHANGED request
    BY <1>5 DEF RecvHttpLine
  <2>2. QED
    BY <1>1, <1>3, <1>5, <2>1, ReadBadLine
<1>6. QED
  BY <1>4, <1>5

LEMMA ReadHeadLine ==
  ASSUME HttpTypes, Turn, ReadInv, RecvHttpHead
  PROVE  ReadInv'
<1>1. /\ recv = "HEAD" /\ Line /\ HasLine(buffer) /\ PopLine /\ UNCHANGED coming
      /\ resp = 200 /\ request.body = <<>>
  BY DEF RecvHttpHead, Receiving, Line, Turn, Parsing
<1>2. PICK h \in Nat : HeadRead(h) /\ Len(taken) = 2 * h + 2
  BY <1>1 DEF ReadInv
<1>3. PICK k \in 0 .. Len(buffer) : k = LineLen(buffer)
  BY <1>1, LineTaken
<1>4. taken' = taken \o SubSeq(buffer, 1, k) /\ buffer' = Drop(buffer, k)
  BY <1>1, <1>3 DEF PopLine
<1>5. PICK t \in Seq(Token) : t = taken'
  BY <1>1, LineTaken
<1>6. /\ Stream!BeginsWell(t, h)
      /\ Stream!Fields(t, h) = request.fields
      /\ t[1] = taken[1]
  BY <1>2, <1>4, <1>5, HeadStays DEF HeadRead
<1>7. /\ Len(t) = 2 * h + 2 + k /\ buffer[k] = NL /\ k \in Nat \ {0}
      /\ \A i \in 1 .. k : t[2 * h + 2 + i] = buffer[i]
  <2>1. /\ Len(t) = Len(taken) + k /\ buffer[k] = NL /\ k \in 1 .. Len(buffer)
        /\ \A i \in 1 .. k : t[Len(taken) + i] = buffer[i]
    BY <1>1, <1>3, <1>5, LineTaken
  <2>2. QED
    BY <1>2, <2>1
<1>8. [path |-> request.path, params |-> request.params] = Stream!Target(t[1].n)
  BY <1>2, <1>6 DEF HeadRead
<1>9. CASE k = 1 /\ recv' = "BODY" /\ UNCHANGED <<resp, request, pc>>
  <2>1. HeadRead(h)'
    BY <1>5, <1>6, <1>8, <1>9 DEF HeadRead
  <2>2. Len(t) = 2 * h + 3 /\ t[2 * h + 3] = NL
    <3>1. 2 * h + 2 + 1 = 2 * h + 3 /\ 1 \in 1 .. k
      BY <1>9
    <3>2. QED
      BY <1>7, <1>9, <3>1
  <2>3. request'.body = <<>> /\ Len(request'.body) = 0
    BY <1>1, <1>9, EmptySeq
  <2>4. BodyRead(h)'
    BY <1>5, <2>1, <2>2, <2>3 DEF BodyRead
  <2>5. QED
    BY <1>1, <1>9, <2>4 DEF ReadInv
<1>10. CASE /\ k = 2 /\ IsField(buffer[1])
            /\ request' = [request EXCEPT !.fields = SetHeader(@, buffer[1])]
            /\ UNCHANGED <<recv, resp, pc>>
  <2>1. PICK g \in Nat : g = h + 1
    OBVIOUS
  <2>2. Len(t) = 2 * g + 2 /\ t[2 * g + 1] = buffer[1] /\ t[2 * g + 2] = NL
    <3>1. 2 * g + 1 = 2 * h + 2 + 1 /\ 2 * g + 2 = 2 * h + 2 + 2 /\ 1 \in 1 .. k /\ 2 \in 1 .. k
      BY <1>10, <2>1
    <3>2. QED
      BY <1>7, <1>10, <3>1
  <2>3. /\ request'.path = request.path /\ request'.params = request.params
        /\ request'.fields = SetHeader(request.fields, buffer[1])
    BY <1>10 DEF HttpTypes, RequestType
  <2>4. Stream!Fields(t, g) = SetHeader(request.fields, buffer[1])
    BY <1>6, <2>1, <2>2, OneMoreField DEF Stream!FieldAt
  <2>5. Stream!BeginsWell(t, g)
    <3>1. \A i \in 1 .. g : i \in 1 .. h \/ i = g
      BY <2>1
    <3>2. Stream!IsField(t[2 * g + 1]) /\ t[2 * g + 2] = Stream!NL
      BY <1>10, <2>2 DEF IsField, Stream!IsField, Stream!NL, NL
    <3>3. Len(t) >= 2 * g + 2
      BY <2>2
    <3>4. QED
      BY <1>6, <3>1, <3>2, <3>3 DEF Stream!BeginsWell
  <2>6. HeadRead(g)'
    BY <1>5, <1>8, <2>3, <2>4, <2>5 DEF HeadRead
  <2>7. QED
    BY <1>1, <1>5, <1>10, <2>2, <2>6 DEF ReadInv
<1>11. CASE /\ k # 1 /\ ~(k = 2 /\ IsField(buffer[1]))
            /\ Fail(400) /\ UNCHANGED request
  BY <1>1, <1>3, <1>11, ReadBadLine
<1>12. QED
  BY <1>3, <1>9, <1>10, <1>11 DEF RecvHttpHead

LEMMA ReadBody ==
  ASSUME HttpTypes, Turn, ReadInv, RecvHttpBody
  PROVE  ReadInv'
<1>1. /\ recv = "BODY" /\ resp = 200 /\ resp' = 200
  BY DEF RecvHttpBody, TakeBody, Receiving, Turn, Parsing
<1>2. PICK h \in Nat : BodyRead(h)
  BY <1>1 DEF ReadInv
<1>3. PICK k \in 0 .. Len(buffer) : k = BodyPart
  BY PartTypes
<1>4. taken' = taken \o SubSeq(buffer, 1, k) /\ buffer' = Drop(buffer, k)
  BY <1>3, PartTypes
<1>5. PICK t \in Seq(Token) : t = taken'
  BY <1>4, TakenMore
<1>6. PICK part \in Seq(Token) : part = SubSeq(buffer, 1, k)
  BY CutInTwo DEF HttpTypes
<1>7. Len(part) = k /\ \A i \in 1 .. k : part[i] = buffer[i]
  BY <1>6, CutInTwo DEF HttpTypes
<1>8. PICK b \in Seq(Token) : b = request.body
  BY DEF HttpTypes, RequestType
<1>9. /\ Len(b) \in Nat
      /\ Len(b \o part) = Len(b) + Len(part)
      /\ \A i \in 1 .. Len(b) + Len(part) :
           (b \o part)[i] = IF i <= Len(b) THEN b[i] ELSE part[i - Len(b)]
  BY LenProperties, ConcatProperties
<1>10. PICK c : c = b \o part
  OBVIOUS
<1>11. /\ request'.body = c /\ request'.path = request.path /\ request'.params = request.params
       /\ request'.fields = request.fields
  BY <1>3, <1>6, <1>8, <1>10, PartTypes
<1>12. /\ Len(taken) = 2 * h + 3 + Len(b) /\ taken[2 * h + 3] = NL
       /\ \A i \in 1 .. Len(b) : b[i] = taken[2 * h + 3 + i]
       /\ HeadRead(h)
  BY <1>2, <1>8 DEF BodyRead
<1>13. /\ Len(t) = Len(taken) + k
       /\ \A i \in 1 .. Len(taken) : t[i] = taken[i]
       /\ \A i \in 1 .. k : t[Len(taken) + i] = buffer[i]
  BY <1>4, <1>5, TakenMore
<1>14. 2 * h + 2 <= Len(taken)
  BY <1>9, <1>12
<1>15. /\ Stream!BeginsWell(t, h)
       /\ Stream!Fields(t, h) = request.fields
       /\ t[1] = taken[1]
  BY <1>4, <1>5, <1>12, <1>14, HeadStays DEF HeadRead
<1>16. HeadRead(h)'
  BY <1>5, <1>11, <1>12, <1>15 DEF HeadRead
<1>17. Len(t) = 2 * h + 3 + Len(c) /\ t[2 * h + 3] = NL
  <2>1. 2 * h + 3 \in 1 .. Len(taken)
    BY <1>9, <1>12
  <2>2. t[2 * h + 3] = NL
    BY <1>12, <1>13, <2>1
  <2>3. Len(c) = Len(b) + k
    BY <1>7, <1>9, <1>10
  <2>4. QED
    BY <1>9, <1>12, <1>13, <2>2, <2>3
<1>18. ASSUME NEW i \in 1 .. Len(c) PROVE c[i] = t[2 * h + 3 + i]
  <2>1. i \in 1 .. Len(b) + Len(part)
    BY <1>9, <1>10, <1>18
  <2>2. CASE i <= Len(b)
    <3>1. i \in 1 .. Len(b) /\ 2 * h + 3 + i \in 1 .. Len(taken)
      BY <1>9, <1>12, <2>1, <2>2
    <3>2. c[i] = b[i]
      BY <1>9, <1>10, <2>1, <2>2
    <3>3. b[i] = taken[2 * h + 3 + i]
      BY <1>12, <3>1
    <3>4. t[2 * h + 3 + i] = taken[2 * h + 3 + i]
      BY <1>13, <3>1
    <3>5. QED
      BY <3>2, <3>3, <3>4
  <2>3. CASE ~(i <= Len(b))
    <3>1. i - Len(b) \in 1 .. k /\ 2 * h + 3 + i = Len(taken) + (i - Len(b))
      BY <1>7, <1>9, <1>12, <2>1, <2>3
    <3>2. c[i] = buffer[i - Len(b)]
      BY <1>7, <1>9, <1>10, <2>1, <2>3, <3>1
    <3>3. t[Len(taken) + (i - Len(b))] = buffer[i - Len(b)]
      BY <1>13, <3>1
    <3>4. QED
      BY <3>1, <3>2, <3>3
  <2>4. QED
    BY <2>2, <2>3
<1>19. BodyRead(h)'
  BY <1>5, <1>11, <1>16, <1>17, <1>18 DEF BodyRead
<1>20. recv' = "OVER" => Need' = 0
  BY PartTypes DEF BodyPart
<1>21. recv' \in {"BODY", "OVER"}
  BY PartTypes
<1>22. QED
  BY <1>1, <1>19, <1>20, <1>21 DEF ReadInv

LEMMA ReadReset ==
  ASSUME Reset
  PROVE  ReadInv'
  BY DEF Reset, ReadInv

LEMMA ReadStep ==
  ASSUME HttpTypes, Turn, ReadInv, [Next]_vars
  PROVE  ReadInv'
<1>1. CASE RefuseRequest \/ AnswerRequest
  BY <1>1, ReadReset DEF RefuseRequest, AnswerRequest
<1>2. QED
  BY <1>1, HttpCases, ReadOutside, ReadNoLine, ReadLongLine, ReadRequestLine, ReadHeadLine, ReadBody

-------------------------------------------------------------------------------
(* HttpServer implements HttpStream, the stream being what was taken of the *)
(* current request, _in_buffer and what is still to come.                   *)
LEMMA NothingTaken ==
  ASSUME NEW a \in Seq(Token), NEW b \in Seq(Token)
  PROVE  /\ <<>> \o a \o b = a \o b
         /\ <<>> \o <<>> \o b = b
<1>1. <<>> \o a = a /\ <<>> \o b = b
  BY ConcatEmptySeq
<1>2. <<>> \o <<>> = <<>>
  BY ConcatEmptySeq, EmptySeq
<1>3. QED
  BY <1>1, <1>2

LEMMA StreamBegins == Init => Stream!StreamInit
<1> SUFFICES ASSUME Init PROVE Stream!StreamInit
  OBVIOUS
<1>1. coming \in Seq(Token) /\ coming \in Inputs
  BY ServerAssumption DEF Init
<1>2. PICK b \in Seq(Token) : b = coming
  BY <1>1
<1>3. <<>> \o <<>> \o b = b
  BY NothingTaken
<1>4. taken \o buffer \o coming \in Inputs
  BY <1>1, <1>2, <1>3 DEF Init
<1>5. QED
  BY <1>4 DEF Init, Stream!StreamInit

(* The steps of the parser only move data along.                            *)
LEMMA StreamStays ==
  ASSUME HttpTypes, Turn, [Next]_vars, ~RefuseRequest, ~AnswerRequest
  PROVE  Whole' = Whole /\ UNCHANGED answers
<1>1. CASE \E n \in 1 .. Len(coming) : Receive(n)
  BY <1>1, WholeReceived DEF Receive
<1>2. CASE EndOfData \/ HandleWrite \/ TestBuffer \/ AwaitMore \/ NoLineYet \/ UNCHANGED vars
  BY <1>2 DEF EndOfData, HandleWrite, TestBuffer, AwaitMore, NoLineYet, vars, Whole
<1>3. CASE LineTooLong \/ RecvHttpLine \/ RecvHttpHead
  <2>1. HasLine(buffer) /\ PopLine /\ UNCHANGED coming /\ UNCHANGED answers
    BY <1>3 DEF LineTooLong, RecvHttpLine, RecvHttpHead, Line
  <2>2. QED
    BY <2>1, LineTaken
<1>4. CASE RecvHttpBody
  <2>1. PICK k \in 0 .. Len(buffer) : k = BodyPart
    BY <1>4, PartTypes
  <2>2. /\ taken' = taken \o SubSeq(buffer, 1, k) /\ buffer' = Drop(buffer, k)
        /\ UNCHANGED coming /\ UNCHANGED answers
    BY <1>4, <2>1, PartTypes DEF RecvHttpBody, TakeBody
  <2>3. QED
    BY <2>2, WholeKept
<1>5. QED
  BY <1>1, <1>2, <1>3, <1>4, HttpCases

LEMMA BodyOfStream ==
  ASSUME HttpTypes, NEW h \in Nat, BodyRead(h)
  PROVE  SubSeq(Whole, 2 * h + 4, Len(taken)) = request.body
<1>1. /\ Whole \in Seq(Token) /\ Len(taken) \in Nat /\ Len(Whole) >= Len(taken)
      /\ \A i \in 1 .. Len(taken) : Whole[i] = taken[i]
      /\ Len(Whole) \in Nat
  BY WholeProperties
<1>2. PICK b \in Seq(Token) : b = request.body
  BY DEF HttpTypes, RequestType
<1>3. /\ Len(b) \in Nat /\ Len(taken) = 2 * h + 3 + Len(b)
      /\ \A i \in 1 .. Len(b) : b[i] = taken[2 * h + 3 + i]
  BY <1>2, LenProperties DEF BodyRead
<1>4. PICK w \in Seq(Token), m \in Nat, n \in Nat :
        w = Whole /\ m = 2 * h + 4 /\ n = Len(taken)
  BY <1>1
<1>5. m \in 1 .. Len(w) + 1 /\ n \in m - 1 .. Len(w)
  BY <1>1, <1>3, <1>4
<1>6. /\ SubSeq(w, m, n) \in Seq(Token)
      /\ Len(SubSeq(w, m, n)) = n - m + 1
      /\ \A i \in 1 .. n - m + 1 : SubSeq(w, m, n)[i] = w[m + i - 1]
  BY <1>5, SubSeqProperties
<1>7. n - m + 1 = Len(b)
  BY <1>3, <1>4
<1>8. ASSUME NEW i \in 1 .. Len(b) PROVE SubSeq(w, m, n)[i] = b[i]
  <2>1. m + i - 1 = 2 * h + 3 + i /\ 2 * h + 3 + i \in 1 .. Len(taken)
    BY <1>3, <1>4
  <2>2. QED
    BY <1>1, <1>3, <1>4, <1>6, <1>7, <2>1
<1>9. SubSeq(w, m, n) = b
  BY <1>6, <1>7, <1>8, SeqEqual
<1>10. QED
  BY <1>2, <1>4, <1>9

LEMMA StreamAnswers ==
  ASSUME HttpTypes, Turn, ReadInv, AnswerRequest
  PROVE  Stream!StreamNext
<1>1. recv = "OVER" /\ Reset /\ UNCHANGED <<coming, buffer>>
  BY DEF AnswerRequest
<1>2. PICK h \in Nat : BodyRead(h)
  BY <1>1 DEF ReadInv
<1>3. PICK k : k = Len(taken)
  OBVIOUS
<1>4. PICK w \in Seq(Token) : w = Whole
  BY WholeProperties
<1>5. /\ k \in Nat /\ k <= Len(w) /\ Len(w) \in Nat
      /\ \A i \in 1 .. k : w[i] = taken[i]
  BY <1>3, <1>4, WholeProperties
<1>6. /\ HeadRead(h) /\ taken[2 * h + 3] = NL
      /\ Len(request.body) \in Nat /\ k = 2 * h + 3 + Len(request.body)
  BY <1>2, <1>3, LenProperties DEF BodyRead, HttpTypes, RequestType
<1>6a. 2 * h + 3 \in 1 .. k /\ 2 * h + 2 <= k /\ h <= k
  <2>1. PICK n \in Nat : n = Len(request.body)
    BY <1>6
  <2>2. k = 2 * h + 3 + n
    BY <1>6, <2>1
  <2>3. QED
    BY <2>2
<1>7. /\ Stream!BeginsWell(w, h)
      /\ Stream!Fields(w, h) = request.fields
      /\ w[1] = taken[1]
  <2>1. Stream!BeginsWell(taken, h) /\ 2 * h + 2 <= Len(taken)
    BY <1>6a, <1>3, <1>6 DEF HeadRead
  <2>2. QED
    BY <1>2, <1>4, <1>6, <2>1, HeadOfWhole DEF HeadRead
<1>8. ContentLength(request.fields) = Len(request.body)
  BY <1>1, <1>6, LengthIsNat DEF ReadInv, Need, HttpTypes, RequestType
<1>9. Stream!IsRequest(k, h)
  <2>1. w[2 * h + 3] = NL
    BY <1>6a, <1>5, <1>6
  <2>2. Stream!ContentLength(request.fields) = Len(request.body)
    BY <1>8 DEF ContentLength, Stream!ContentLength
  <2>3. k >= 2 * h + 3
    BY <1>6a, <1>5
  <2>4. QED
    BY <1>4, <1>5, <1>6, <1>7, <2>1, <2>2, <2>3 DEF Stream!IsRequest, Stream!NL, NL, Whole
<1>10. PICK r \in Route(request.fields) :
        answers' = Append(answers,
            [target |-> [path |-> request.path, params |-> request.params], body |-> request.body,
             status |-> r.status, says |-> r.says, refusal |-> FALSE])
  BY DEF AnswerRequest
<1>11. /\ r.status \in Status \cup {200, 404}
       /\ r.says \in HandlerSays \cup {Stream!Asked(request.fields)}
  <2>1. Stream!Asked(request.fields) = Asked(request.fields)
    BY DEF Asked, Stream!Asked, IsShortConnection, Stream!IsShortConnection
  <2>2. QED
    BY <2>1 DEF Route
<1>12. [path |-> request.path, params |-> request.params] = Stream!Target(w[1].n)
  BY <1>6, <1>7 DEF HeadRead
<1>13. SubSeq(w, 2 * h + 4, k) = request.body
  BY <1>2, <1>3, <1>4, BodyOfStream
<1>14. Whole' = Stream!Drop(w, k)
  <2>1. PICK a \in Seq(Token), b \in Seq(Token) : a = buffer /\ b = coming
    BY DEF HttpTypes
  <2>2. <<>> \o a \o b = a \o b
    BY NothingTaken
  <2>3. Drop(Whole, Len(taken)) = a \o b
    BY <2>1, AfterTaken
  <2>4. Whole' = a \o b
    BY <1>1, <2>1, <2>2 DEF Reset, Whole
  <2>5. QED
    BY <1>3, <1>4, <2>3, <2>4, DropSame
<1>15. Stream!Answer(k, h)
  <2>1. answers' = Append(answers,
          [target |-> Stream!Target(w[1].n), body |-> SubSeq(w, 2 * h + 4, k),
           status |-> r.status, says |-> r.says, refusal |-> FALSE])
    BY <1>10, <1>12, <1>13
  <2>2. QED
    BY <1>4, <1>7, <1>9, <1>11, <1>14, <2>1 DEF Stream!Answer, Whole
<1>16. k \in 0 .. Len(w) /\ h \in 0 .. Len(w)
  BY <1>6a, <1>5
<1>17. QED
  BY <1>4, <1>15, <1>16 DEF Stream!StreamNext, Whole

LEMMA StreamRefuses ==
  ASSUME HttpTypes, Turn, ReadInv, RefuseRequest
  PROVE  Stream!StreamNext
<1>1. /\ resp # 200 /\ Reset /\ buffer' = <<>> /\ UNCHANGED coming
      /\ answers' = Append(answers, Stream!Refusal(resp, request.fields))
  BY DEF RefuseRequest, Stream!Refusal, Stream!NoTarget, Asked, Stream!Asked,
         IsShortConnection, Stream!IsShortConnection
<1>2. Malformed
  BY <1>1 DEF ReadInv
<1>3. PICK w \in Seq(Token) : w = Whole
  BY WholeProperties
<1>4. PICK m \in Nat : m = Len(taken) + Len(buffer)
  BY WholeProperties
<1>5. m <= Len(w) /\ Len(w) \in Nat
  BY <1>3, <1>4, WholeProperties
<1>6. Whole' = Stream!Drop(w, m)
  <2>1. PICK b \in Seq(Token) : b = coming
    BY DEF HttpTypes
  <2>2. <<>> \o <<>> \o b = b
    BY NothingTaken
  <2>3. Whole' = b
    BY <1>1, <2>1, <2>2 DEF Reset, Whole
  <2>4. QED
    BY <1>3, <1>4, <2>1, <2>3, AfterBuffer, DropSame
<1>7. ASSUME NEW b \in Nat, Bad(b, TRUE) PROVE Stream!Reject(b, request.fields, TRUE)
  <2>1. m \in b + 1 .. Len(w)
    BY <1>4, <1>5, <1>7 DEF Bad
  <2>2. \/ resp = 414 /\ Stream!TooLong(Stream!Drop(w, b))
        \/ resp = 400 /\ Stream!BadLine(Stream!Drop(w, b), TRUE)
    BY <1>3, <1>7, DropSame DEF Bad
  <2>3. \E n \in b + 1 .. Len(w) : Whole' = Stream!Drop(w, n)
    BY <1>6, <2>1
  <2>4. \/ /\ Stream!TooLong(Stream!Drop(w, b))
           /\ answers' = Append(answers, Stream!Refusal(414, request.fields))
        \/ /\ Stream!BadLine(Stream!Drop(w, b), TRUE)
           /\ answers' = Append(answers, Stream!Refusal(400, request.fields))
    BY <1>1, <2>2
  <2>5. QED
    BY <1>3, <2>3, <2>4 DEF Stream!Reject, Whole
<1>8. ASSUME NEW b \in Nat, Bad(b, FALSE) PROVE Stream!Reject(b, request.fields, FALSE)
  <2>1. m \in b + 1 .. Len(w)
    BY <1>4, <1>5, <1>8 DEF Bad
  <2>2. \/ resp = 414 /\ Stream!TooLong(Stream!Drop(w, b))
        \/ resp = 400 /\ Stream!BadLine(Stream!Drop(w, b), FALSE)
    BY <1>3, <1>8, DropSame DEF Bad
  <2>3. \E n \in b + 1 .. Len(w) : Whole' = Stream!Drop(w, n)
    BY <1>6, <2>1
  <2>4. \/ /\ Stream!TooLong(Stream!Drop(w, b))
           /\ answers' = Append(answers, Stream!Refusal(414, request.fields))
        \/ /\ Stream!BadLine(Stream!Drop(w, b), FALSE)
           /\ answers' = Append(answers, Stream!Refusal(400, request.fields))
    BY <1>1, <2>2
  <2>5. QED
    BY <1>3, <2>3, <2>4 DEF Stream!Reject, Whole
<1>9. CASE request.fields = {} /\ Bad(0, TRUE)
  BY <1>7, <1>9 DEF Stream!StreamNext
<1>10. CASE \E h \in Nat : /\ Stream!BeginsWell(Whole, h)
                           /\ request.fields = Stream!Fields(Whole, h)
                           /\ Bad(2 * h + 2, FALSE)
  <2>1. PICK h \in Nat : /\ Stream!BeginsWell(w, h)
                         /\ request.fields = Stream!Fields(w, h)
                         /\ Bad(2 * h + 2, FALSE)
    BY <1>3, <1>10
  <2>2. PICK b \in Nat : b = 2 * h + 2
    OBVIOUS
  <2>3. Stream!Reject(b, Stream!Fields(w, h), FALSE)
    BY <1>8, <2>1, <2>2
  <2>4. h \in 0 .. Len(w)
    BY <1>5, <2>1 DEF Stream!BeginsWell
  <2>5. QED
    BY <1>3, <2>1, <2>2, <2>3, <2>4 DEF Stream!StreamNext, Whole
<1>11. QED
  BY <1>2, <1>9, <1>10 DEF Malformed

(* However the data is cut, and through the nested calls of OnMessage, the  *)
(* server answers the requests of the stream one after the other, each by   *)
(* its own target, headers and body, and refuses what is malformed          *)
(* (http.hpp, RecvHttpRequest, OnMessage and Reset).  That a target is read *)
(* as its client means it is another property, TargetIsMeant.               *)
THEOREM CutsDoNotShow == Spec => CutsDoNotMatter
<1>1. Init => HttpTypes /\ Turn /\ ReadInv
  BY TypesInit, TurnInit, ReadInit
<1>2. HttpTypes /\ Turn /\ ReadInv /\ [Next]_vars => (HttpTypes /\ Turn /\ ReadInv)'
  BY TurnStep, ReadStep
<1>3. HttpTypes /\ Turn /\ ReadInv /\ [Next]_vars => [Stream!StreamNext]_(Stream!streamVars)
  <2> SUFFICES ASSUME HttpTypes, Turn, ReadInv, [Next]_vars
               PROVE  [Stream!StreamNext]_(Stream!streamVars)
    OBVIOUS
  <2>1. CASE RefuseRequest \/ AnswerRequest
    BY <2>1, StreamAnswers, StreamRefuses
  <2>2. CASE ~RefuseRequest /\ ~AnswerRequest
    BY <2>2, StreamStays DEF Stream!streamVars, Whole
  <2>3. QED
    BY <2>1, <2>2
<1>4. QED
  BY <1>1, <1>2, <1>3, StreamBegins, PTL DEF Spec, CutsDoNotMatter, Stream!StreamSpec

===============================================================================
