------------------------------- MODULE HttpUrl -------------------------------
(***************************************************************************)
(* URLs as wrk's http_parser reads them: the character machine shared by    *)
(* the request line and http_parser_parse_url, the machine of the host      *)
(* part, and the checks on the whole.  A character is a member of a class   *)
(* the code tells apart, written as one of its characters; PortMax is       *)
(* 0xffff in the code.                                                      *)
(***************************************************************************)
EXTENDS Naturals, Sequences, SequencesExt, FiniteSets

CONSTANT PortMax

ASSUME PortAssumption == PortMax \in Nat

Digit == [d \in {"0", "1", "2", "3", "4", "5", "6", "7", "8", "9"} |->
            CASE d = "0" -> 0 [] d = "1" -> 1 [] d = "2" -> 2 [] d = "3" -> 3
              [] d = "4" -> 4 [] d = "5" -> 5 [] d = "6" -> 6 [] d = "7" -> 7
              [] d = "8" -> 8 [] d = "9" -> 9]

Num      == DOMAIN Digit
Hex      == Num \cup {"a", "f"}
Alpha    == {"a", "f", "h"}
Userinfo == Alpha \cup Num \cup {"-", "_", ".", "!", "*", "%", ";", ":", "&", "="}
HostChar == Alpha \cup Num \cup {".", "-"}
ZoneChar == Alpha \cup Num \cup {"%", ".", "-", "_"}
UrlChar  == Userinfo \cup {"/", "@", "[", "]", "<"}

Number(digits) == FoldLeft(LAMBDA v, d : v * 10 + Digit[d], 0, digits)

Rule(from, on, to) == [from |-> from, on |-> on, to |-> to]

Moves(rules, dead, s, ch) ==
  LET r == {x \in rules : s \in x.from /\ ch \in x.on}
  IN IF r = {} THEN dead ELSE (CHOOSE x \in r : TRUE).to

(* Refused characters lead to s_dead, and so does whatever no rule names.   *)
UrlRules == {
  Rule({"s_req_spaces_before_url"}, {"/", "*"}, "s_req_path"),
  Rule({"s_req_spaces_before_url", "s_req_schema"}, Alpha, "s_req_schema"),
  Rule({"s_req_schema"}, {":"}, "s_req_schema_slash"),
  Rule({"s_req_schema_slash"}, {"/"}, "s_req_schema_slash_slash"),
  Rule({"s_req_schema_slash_slash"}, {"/"}, "s_req_server_start"),
  Rule({"s_req_server_start", "s_req_server", "s_req_server_with_at"}, {"/"}, "s_req_path"),
  Rule({"s_req_server_start", "s_req_server", "s_req_server_with_at"}, {"?"},
       "s_req_query_string_start"),
  Rule({"s_req_server_start", "s_req_server"}, {"@"}, "s_req_server_with_at"),
  Rule({"s_req_server_start", "s_req_server", "s_req_server_with_at"},
       Userinfo \cup {"[", "]"}, "s_req_server"),
  Rule({"s_req_path"}, UrlChar, "s_req_path"),
  Rule({"s_req_path"}, {"?"}, "s_req_query_string_start"),
  Rule({"s_req_query_string_start", "s_req_query_string"}, UrlChar \cup {"?"},
       "s_req_query_string"),
  Rule({"s_req_path", "s_req_query_string_start", "s_req_query_string"}, {"#"},
       "s_req_fragment_start"),
  Rule({"s_req_fragment_start", "s_req_fragment"}, UrlChar \cup {"?"}, "s_req_fragment"),
  Rule({"s_req_fragment_start"}, {"#"}, "s_req_fragment_start"),
  Rule({"s_req_fragment"}, {"#"}, "s_req_fragment")}

(* Mutant of parse_url_char: a question mark right behind the first is lost. *)
UrlCharStops(s, ch) ==
  IF s = "s_req_query_string_start" /\ ch = "?" THEN s ELSE Moves(UrlRules, "s_dead", s, ch)

parse_url_char(s, ch) == Moves(UrlRules, "s_dead", s, ch)

HostRules == {
  Rule({"s_http_userinfo", "s_http_userinfo_start"}, {"@"}, "s_http_host_start"),
  Rule({"s_http_userinfo", "s_http_userinfo_start"}, Userinfo, "s_http_userinfo"),
  Rule({"s_http_host_start"}, {"["}, "s_http_host_v6_start"),
  Rule({"s_http_host_start", "s_http_host"}, HostChar, "s_http_host"),
  Rule({"s_http_host", "s_http_host_v6_end"}, {":"}, "s_http_host_port_start"),
  Rule({"s_http_host_v6", "s_http_host_v6_zone"}, {"]"}, "s_http_host_v6_end"),
  Rule({"s_http_host_v6", "s_http_host_v6_start"}, Hex \cup {":", "."}, "s_http_host_v6"),
  Rule({"s_http_host_v6"}, {"%"}, "s_http_host_v6_zone_start"),
  Rule({"s_http_host_v6_zone", "s_http_host_v6_zone_start"}, ZoneChar, "s_http_host_v6_zone"),
  Rule({"s_http_host_port", "s_http_host_port_start"}, Num, "s_http_host_port")}

http_parse_host_char(s, ch) == Moves(HostRules, "s_http_host_dead", s, ch)

Part == {"schema", "userinfo", "host", "port", "path", "query", "fragment"}

(* http_parser_url: field_set, and per member of it where it starts and how *)
(* long it is.                                                              *)
NoParts == [set |-> {}, off |-> [f \in Part |-> 0], len |-> [f \in Part |-> 0]]

StartPart(u, f, at) ==
  [u EXCEPT !.set = @ \cup {f}, !.off[f] = at, !.len[f] = 1]

Grow(u, f) == [u EXCEPT !.len[f] = @ + 1]

(* One character of the host part, from the state r.s to s.                 *)
HostPart(r, s, at) ==
  CASE s \in {"s_http_host", "s_http_host_v6"} ->
         Grow([r.u EXCEPT !.off["host"] = IF s # r.s THEN at ELSE @], "host")
    [] s \in {"s_http_host_v6_zone_start", "s_http_host_v6_zone"} -> Grow(r.u, "host")
    [] s = "s_http_host_port" ->
         IF s # r.s THEN StartPart(r.u, "port", at) ELSE Grow(r.u, "port")
    [] s = "s_http_userinfo" ->
         IF s # r.s THEN StartPart(r.u, "userinfo", at) ELSE Grow(r.u, "userinfo")
    [] OTHER -> r.u

HostTo(r, s, at) ==
  IF r.s = "s_http_host_dead" THEN r ELSE [s |-> s, u |-> HostPart(r, s, at)]

HostEnded(r) ==
  [ok |-> r.s \in {"s_http_host", "s_http_host_v6_end", "s_http_host_port"}, u |-> r.u]

http_parse_host(w, u, found_at) ==
  HostEnded(
    FoldLeft(LAMBDA r, i : HostTo(r, http_parse_host_char(r.s, w[i]), i),
             [s |-> IF found_at THEN "s_http_userinfo_start" ELSE "s_http_host_start",
              u |-> [u EXCEPT !.len["host"] = 0]],
             [i \in 1 .. u.len["host"] |-> u.off["host"] + i - 1]))

PartOf == [s_req_schema |-> "schema", s_req_server_with_at |-> "host",
           s_req_server |-> "host", s_req_path |-> "path",
           s_req_query_string |-> "query", s_req_fragment |-> "fragment"]

(* One character of the URL, from r.s to s: delimiters belong to no part.   *)
UrlTo(r, s, at) ==
  CASE r.s = "s_dead" \/ s = "s_dead" -> [r EXCEPT !.s = "s_dead"]
    [] s \notin DOMAIN PartOf -> [r EXCEPT !.s = s]
    [] OTHER -> [s |-> s, old |-> PartOf[s], at |-> r.at \/ s = "s_req_server_with_at",
                 u |-> IF PartOf[s] = r.old THEN Grow(r.u, r.old) ELSE StartPart(r.u, PartOf[s], at)]

UrlParts(w) ==
  FoldLeft(LAMBDA r, i : UrlTo(r, parse_url_char(r.s, w[i]), i),
           [s |-> "s_req_spaces_before_url", old |-> "none", at |-> FALSE, u |-> NoParts],
           [i \in 1 .. Len(w) |-> i])

TextOf(w, u, f) == SubSeq(w, u.off[f], u.off[f] + u.len[f] - 1)

(* Of the whole URL and what the host part made of it.                      *)
UrlChecked(w, r, h) ==
  [ok |-> /\ r.s # "s_dead"
          /\ "schema" \in r.u.set => "host" \in r.u.set
          /\ h.ok
          /\ "port" \in h.u.set => Number(TextOf(w, h.u, "port")) <= PortMax,
   u |-> h.u]

HostOfUrl(w, r) ==
  UrlChecked(w, r, IF "host" \in r.u.set THEN http_parse_host(w, r.u, r.at)
                   ELSE [ok |-> TRUE, u |-> r.u])

(* http_parser_parse_url with is_connect 0: the only way wrk calls it.      *)
http_parser_parse_url(w) == HostOfUrl(w, UrlParts(w))

(* The URL of the command line, and its parts as copy_url_part takes them.  *)
WithHost(r) == [r EXCEPT !.ok = @ /\ {"schema", "host"} \subseteq r.u.set]

script_parse_url(w) == WithHost(http_parser_parse_url(w))

copy_url_part(w, u, f) ==
  IF f \in u.set THEN TextOf(w, u, f) ELSE <<>>

(* wrk.path: the rest of the URL from the path on, "/" when it has none.    *)
script_path(w, u) ==
  IF "path" \in u.set THEN SubSeq(w, u.off["path"], Len(w)) ELSE <<"/">>
===============================================================================
