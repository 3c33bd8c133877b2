------------------------------ MODULE WrkThread ------------------------------
(***************************************************************************)
(* One thread of the wrk client: thread_main, the ae event loop under it,   *)
(* and the request cycle of its connections against a server that answers,  *)
(* answers early, closes, resets or refuses.  A callback of ae is one step: *)
(* it maps the members it may touch to the set of states it may leave them  *)
(* in (which descriptor socket() returns, whether connect() fails at once,  *)
(* how much a write takes).  What the server sends is a sequence of tokens: *)
(* the bytes that complete an answer, with the connection kept ("end") or   *)
(* not ("last"), an answer that ends with the connection ("until"), bytes   *)
(* that are no answer ("junk").  Bytes that complete nothing change nothing *)
(* here.  The plain and the TLS transport of struct sock are both covered:  *)
(* a call may ask to be tried again whenever either of them may.            *)
(***************************************************************************)
EXTENDS Naturals, Integers, Sequences, FiniteSets, SequencesExt

CONSTANTS
  Conn,        (* connections of the thread                                 *)
  Fd,          (* descriptor numbers, finitely many for a process           *)
  None,        (* no connection                                             *)
  Rate,        (* the timer of record_rate                                  *)
  Configs,     (* connections, cfg.delay and cfg.pipeline: the cases; and   *)
               (* how often the server closes or fails, a bound of the model *)
  PendingMod   (* the width of c->pending, 2^64 in the code                 *)

ASSUME WrkAssumption ==
  /\ None \notin Conn /\ Rate \notin Conn
  /\ IsFiniteSet(Fd)
  /\ Configs \subseteq [conns : SUBSET Conn, delay : BOOLEAN, pipeline : Nat \ {0},
                          troubles : Nat]
  /\ PendingMod \in Nat
  /\ \A g \in Configs : g.pipeline < PendingMod

VARIABLES
  cfg,       (* what main read from the script: never changes               *)
  conn,      (* per connection: its members; lost: connect failed at once   *)
  events,    (* aeEventLoop::events: mask, procedures, clientData           *)
  socket,    (* per descriptor: the kernel's and the server's side          *)
  timers,    (* the list of time events, from timeEventHead                 *)
  fired,     (* what is left of aeEventLoop::fired in this round            *)
  left,      (* how many time events at the tail are still to be visited    *)
  aestop,    (* aeEventLoop::stop                                           *)
  stop,      (* the global flag                                             *)
  loc,       (* where the thread is                                         *)
  troubles,  (* closings and failures so far                                *)
  crossed    (* history: a lost connection's timer armed another's socket   *)

members == <<conn, events, socket, timers, crossed>>
vars == <<members, cfg, fired, left, aestop, stop, loc, troubles>>

Closed == [owner |-> None, net |-> "none", in |-> <<>>, fin |-> FALSE,
           closing |-> FALSE, owed |-> 0, used |-> FALSE, early |-> FALSE, haunted |-> FALSE]

NoEvent == [mask |-> {}, r |-> "none", w |-> "none", data |-> None]

(* A connection's first descriptor is the 0 of zcalloc: no socket of ours.  *)
Unopened == [fd |-> 0, delayed |-> cfg.delay, written |-> 0, pending |-> 0,
             parser |-> "start", lost |-> FALSE, opened |-> FALSE]

Init ==
  /\ cfg \in Configs
  /\ conn = [c \in Conn |-> Unopened]
  /\ events = [f \in Fd |-> NoEvent]
  /\ socket = [f \in Fd |-> Closed]
  /\ timers = <<>>
  /\ fired = <<>>
  /\ left = 0
  /\ aestop = FALSE
  /\ stop = FALSE
  /\ loc = "setup"
  /\ troubles = 0
  /\ crossed = FALSE

-------------------------------------------------------------------------------
(* Calls inside a callback: functions of s, the members they start from.    *)

Now == [conn |-> conn, events |-> events, socket |-> socket, timers |-> timers,
        crossed |-> crossed]

Becomes(s) ==
  /\ conn' = s.conn
  /\ events' = s.events
  /\ socket' = s.socket
  /\ timers' = s.timers
  /\ crossed' = s.crossed

Open(s, f) == f \in Fd /\ s.socket[f].owner # None

(* EPOLL_CTL_ADD or MOD fails on a descriptor that is not open.             *)
aeCreateFileEvent(s, f, mask, proc, c) ==
  IF ~Open(s, f) THEN s
  ELSE [s EXCEPT !.events[f] =
          [mask |-> @.mask \cup mask,
           r    |-> IF "R" \in mask THEN proc ELSE @.r,
           w    |-> IF "W" \in mask THEN proc ELSE @.w,
           data |-> c]]

aeDeleteFileEvent(s, f, mask) ==
  IF f \in Fd THEN [s EXCEPT !.events[f].mask = @ \ mask] ELSE s

aeCreateTimeEvent(s, what) == [s EXCEPT !.timers = <<what>> \o @]

HasTimer(s, c) == \E i \in DOMAIN s.timers : s.timers[i] = c

(* socket() returns a descriptor nobody has; c->fd keeps its old value when *)
(* connect fails at once.                                                   *)
connect_socket(s, c) ==
  LET opened(f) ==
        [aeCreateFileEvent(
           [s EXCEPT !.socket[f] = [Closed EXCEPT !.owner = c, !.net = "connecting",
                                                  !.haunted = HasTimer(s, c)]],
           f, {"R", "W"}, "connected", c)
         EXCEPT !.conn[c].fd = f, !.conn[c].lost = FALSE, !.conn[c].opened = TRUE]
  IN  {[s EXCEPT !.conn[c].lost = TRUE, !.conn[c].opened = TRUE]}
        \cup {opened(f) : f \in {g \in Fd : ~Open(s, g)}}

(* close() of a descriptor takes it out of epoll.                           *)
close(s, f) == IF Open(s, f) THEN [s EXCEPT !.socket[f] = Closed] ELSE s

ReconnectKeepsEvents(s, c) == connect_socket(close(s, s.conn[c].fd), c)

reconnect_socket(s, c) ==
  LET f == s.conn[c].fd
  IN  connect_socket(close(aeDeleteFileEvent(s, f, {"R", "W"}), f), c)

-------------------------------------------------------------------------------
(* The request cycle.                                                       *)

(* response_complete without the verdict on keep-alive: --c->pending wraps. *)
Counted(s, c) ==
  LET t == [s EXCEPT !.conn[c].pending = (@ + PendingMod - 1) % PendingMod]
  IN  IF t.conn[c].pending # 0 THEN t
      ELSE aeCreateFileEvent([t EXCEPT !.conn[c].delayed = cfg.delay],
                             t.conn[c].fd, {"W"}, "writeable", c)

(* The parser is left dead when the message does not keep the connection.   *)
response_complete(s, c, keepAlive) ==
  IF keepAlive THEN {[Counted(s, c) EXCEPT !.conn[c].parser = "start"]}
  ELSE reconnect_socket([Counted(s, c) EXCEPT !.conn[c].parser = "dead"], c)

(* What http_parser_execute does with one token: the states it may leave,   *)
(* each with whether it stopped at an error.                                *)
Parse(r, c, token) ==
  LET ok(S)  == {[s |-> t, error |-> FALSE] : t \in S}
      parser == r.s.conn[c].parser
  IN  CASE r.error -> {r}
        [] ~r.error /\ parser = "until" -> {r}
        [] ~r.error /\ parser = "dead" -> {[r EXCEPT !.error = TRUE]}
        [] ~r.error /\ parser = "start" ->
             CASE token = "end"   -> ok(response_complete(r.s, c, TRUE))
               [] token = "last"  -> ok(response_complete(r.s, c, FALSE))
               [] token = "until" -> ok({[r.s EXCEPT !.conn[c].parser = "until"]})
               [] token = "junk"  -> {[r EXCEPT !.error = TRUE]}

Execute(s, c, tokens) ==
  FoldLeft(LAMBDA R, token : UNION {Parse(r, c, token) : r \in R},
           {[s |-> s, error |-> FALSE]}, tokens)

(* The end of data completes an answer that waits for it.                   *)
ExecuteEof(s, c) ==
  IF s.conn[c].parser = "until" THEN response_complete(s, c, FALSE) ELSE {s}

WrittenNotReset(s, c, f) ==
  LET ready == [s EXCEPT !.conn[c].parser = "start"]
      both  == aeCreateFileEvent(aeCreateFileEvent(ready, f, {"R"}, "readable", c),
                                 f, {"W"}, "writeable", c)
  IN  {both, s}
        \cup (IF Open(s, f) /\ s.socket[f].net = "up" THEN {}
              ELSE reconnect_socket(s, c))

socket_connected(s, c, f) ==
  LET ready == [s EXCEPT !.conn[c].parser = "start", !.conn[c].written = 0]
      both  == aeCreateFileEvent(aeCreateFileEvent(ready, f, {"R"}, "readable", c),
                                 f, {"W"}, "writeable", c)
  IN  {both, s}
        \cup (IF Open(s, f) /\ s.socket[f].net = "up" THEN {}
              ELSE reconnect_socket(s, c))

(* A read takes some of the tokens there are.  An empty read, which only    *)
(* the end of data gives, is always an error: the parser never is at its    *)
(* final state between two calls.                                           *)
socket_readable(s, c) ==
  LET f == s.conn[c].fd
      k == IF Open(s, f) THEN s.socket[f] ELSE Closed
      taken(n) == [s EXCEPT !.socket[f].in = SubSeq(@, n + 1, Len(@))]
      read(n)  == UNION {IF r.error THEN reconnect_socket(r.s, c) ELSE {r.s} :
                         r \in Execute(taken(n), c, SubSeq(k.in, 1, n))}
  IN  CASE k.in # <<>> -> UNION {read(n) : n \in 1..Len(k.in)}
        [] k.in = <<>> /\ k.fin ->
             UNION {reconnect_socket(t, c) : t \in ExecuteEof(s, c)}
        [] k.in = <<>> /\ ~k.fin -> {s} \cup reconnect_socket(s, c)

(* A request is two units long, the pipelined ones are one buffer.          *)
Length == 2 * cfg.pipeline

(* The server has the requests whose last unit it received.                 *)
Sent(s, c, f, n) ==
  LET w == s.conn[c].written
  IN  [s EXCEPT !.conn[c].written = w + n,
                !.socket[f].used = TRUE,
                !.socket[f].owed = @ + (w + n) \div 2 - w \div 2]

socket_writeable(s, c, f) ==
  LET g == s.conn[c].fd
      begun == IF s.conn[c].written # 0 THEN s
               ELSE [s EXCEPT !.conn[c].pending = cfg.pipeline]
      written(n) ==
        LET t == Sent(begun, c, g, n)
        IN  IF t.conn[c].written # Length THEN t
            ELSE aeDeleteFileEvent([t EXCEPT !.conn[c].written = 0], f, {"W"})
  IN  IF s.conn[c].delayed
      THEN {aeCreateTimeEvent(aeDeleteFileEvent(s, f, {"W"}), c)}
      ELSE CASE Open(s, g) /\ s.socket[g].net = "up" ->
                  {begun} \cup {written(n) : n \in 1..(Length - s.conn[c].written)}
             [] Open(s, g) /\ s.socket[g].net = "connecting" -> {begun}
             [] OTHER -> reconnect_socket(begun, c)

DelayForgetsRequest(s, c) == [s EXCEPT !.conn[c].delayed = FALSE]

(* delay_request, a timer that is not set again.                            *)
delay_request(s, c) ==
  LET f == s.conn[c].fd
  IN  [aeCreateFileEvent([s EXCEPT !.conn[c].delayed = FALSE], f, {"W"}, "writeable", c)
       EXCEPT !.crossed = @ \/ (s.conn[c].lost /\ Open(s, f))]

-------------------------------------------------------------------------------
(* thread_main and the loop.                                                *)

OpenConnection(c) ==
  /\ loc = "setup"
  /\ ~conn[c].opened
  /\ \E s \in connect_socket(Now, c) : Becomes(s)
  /\ UNCHANGED <<cfg, fired, left, aestop, stop, loc, troubles>>

(* aeMain clears the flag aeStop sets.                                      *)
EnterLoop ==
  /\ loc = "setup"
  /\ \A c \in cfg.conns : conn[c].opened
  /\ Becomes(aeCreateTimeEvent(Now, Rate))
  /\ aestop' = FALSE
  /\ loc' = "poll"
  /\ UNCHANGED <<cfg, fired, left, stop, troubles>>

(* What epoll_wait reports: EPOLLERR and EPOLLHUP, watched or not, are       *)
(* passed on as writable.                                                   *)
Ready(f) ==
  LET k == socket[f]
  IN  (events[f].mask \cap ((IF k.in # <<>> \/ k.fin \/ k.net = "broken" THEN {"R"} ELSE {})
                              \cup (IF k.net = "up" THEN {"W"} ELSE {})))
        \cup (IF events[f].mask # {} /\ k.net = "broken" THEN {"W"} ELSE {})

(* aeApiPoll returns with what is ready, in any order, or at the timeout.   *)
Poll ==
  /\ loc = "poll"
  /\ \E order \in SetToSeqs({f \in Fd : Ready(f) # {}}) :
       fired' = [i \in DOMAIN order |->
                   [fd |-> order[i], mask |-> Ready(order[i]), rfired |-> FALSE]]
  /\ loc' = "files"
  /\ UNCHANGED <<members, cfg, left, aestop, stop, troubles>>

(* A read procedure runs if its event is still wanted.                      *)
HandleReadable ==
  /\ loc = "files"
  /\ fired # <<>>
  /\ LET e == Head(fired)
         f == e.fd
         wanted == "R" \in events[f].mask
         c  == events[f].data
     IN  /\ "R" \in e.mask
         /\ fired' = <<[e EXCEPT !.mask = @ \ {"R"}, !.rfired = wanted]>> \o Tail(fired)
         /\ \E t \in CASE ~wanted -> {Now}
                       [] wanted /\ events[f].r = "connected" -> socket_connected(Now, c, f)
                       [] wanted /\ events[f].r = "readable"  -> socket_readable(Now, c) :
              Becomes(t)
  /\ UNCHANGED <<cfg, left, aestop, stop, loc, troubles>>

(* A write procedure as well, unless the same procedure has just run.       *)
HandleWritable ==
  /\ loc = "files"
  /\ fired # <<>>
  /\ LET e == Head(fired)
         f == e.fd
         wanted == /\ "W" \in e.mask
                   /\ "W" \in events[f].mask
                   /\ ~e.rfired \/ events[f].w # events[f].r
         c  == events[f].data
     IN  /\ "R" \notin e.mask
         /\ fired' = Tail(fired)
         /\ \E t \in CASE ~wanted -> {Now}
                       [] wanted /\ events[f].w = "connected" -> socket_connected(Now, c, f)
                       [] wanted /\ events[f].w = "writeable" -> socket_writeable(Now, c, f) :
              Becomes(t)
  /\ UNCHANGED <<cfg, left, aestop, stop, loc, troubles>>

BeginTimers ==
  /\ loc = "files"
  /\ fired = <<>>
  /\ left' = Len(timers)
  /\ loc' = "timers"
  /\ UNCHANGED <<members, cfg, fired, aestop, stop, troubles>>

At == Len(timers) - left + 1

(* A time event that is not due is passed over, one that returns AE_NOMORE  *)
(* is gone; record_rate sets itself again.                                  *)
PassOver ==
  /\ loc = "timers"
  /\ left > 0
  /\ left' = left - 1
  /\ UNCHANGED <<members, cfg, fired, aestop, stop, loc, troubles>>

FireDelay ==
  /\ loc = "timers"
  /\ left > 0
  /\ timers[At] # Rate
  /\ Becomes([delay_request(Now, timers[At]) EXCEPT !.timers = RemoveAt(timers, At)])
  /\ left' = left - 1
  /\ UNCHANGED <<cfg, fired, aestop, stop, loc, troubles>>

RateDropsStop ==
  /\ loc = "timers"
  /\ left > 0
  /\ timers[At] = Rate
  /\ aestop' = (aestop \/ (stop /\ fired # <<>>))
  /\ left' = left - 1
  /\ UNCHANGED <<members, cfg, fired, stop, loc, troubles>>

record_rate ==
  /\ loc = "timers"
  /\ left > 0
  /\ timers[At] = Rate
  /\ aestop' = (aestop \/ stop)
  /\ left' = left - 1
  /\ UNCHANGED <<members, cfg, fired, stop, loc, troubles>>

(* The end of aeProcessEvents, and the condition of aeMain.                 *)
EndRound ==
  /\ loc = "timers"
  /\ left = 0
  /\ loc' = IF aestop THEN "ended" ELSE "poll"
  /\ UNCHANGED <<members, cfg, fired, left, aestop, stop, troubles>>

(* main, after the duration of the test, or the handler of SIGINT.          *)
SetStop ==
  /\ ~stop
  /\ stop' = TRUE
  /\ UNCHANGED <<members, cfg, fired, left, aestop, loc, troubles>>

Loop ==
  \/ \E c \in cfg.conns : OpenConnection(c)
  \/ EnterLoop \/ Poll \/ HandleReadable \/ HandleWritable
  \/ BeginTimers \/ PassOver \/ FireDelay \/ record_rate \/ EndRound

-------------------------------------------------------------------------------
(* The server.                                                              *)

Peer(f, k) ==
  /\ socket' = [socket EXCEPT ![f] = k]
  /\ UNCHANGED <<conn, events, timers, crossed, cfg, fired, left, aestop, stop, loc>>

Accepts(f) ==
  /\ socket[f].net = "connecting"
  /\ Peer(f, [socket[f] EXCEPT !.net = "up"])
  /\ UNCHANGED troubles

Answers(f) ==
  /\ socket[f].net = "up" /\ ~socket[f].closing
  /\ socket[f].owed > 0
  /\ Peer(f, [socket[f] EXCEPT !.in = Append(@, "end"), !.owed = @ - 1])
  /\ UNCHANGED troubles

(* An answer to a request of which the second unit is still to come.        *)
AnswersEarly(f) ==
  LET k == socket[f]
  IN  /\ k.net = "up" /\ ~k.closing /\ ~k.early
      /\ conn[k.owner].fd = f /\ conn[k.owner].written % 2 = 1
      /\ k.owed = 0
      /\ Peer(f, [k EXCEPT !.in = Append(@, "end"), !.owed = @ - 1, !.early = TRUE])
      /\ UNCHANGED troubles

Trouble == troubles < cfg.troubles /\ troubles' = troubles + 1

(* After such an answer the server only has the end of data to send.        *)
AnswersLast(f, token) ==
  /\ Trouble
  /\ socket[f].net = "up" /\ ~socket[f].closing
  /\ socket[f].owed > 0
  /\ Peer(f, [socket[f] EXCEPT !.in = Append(@, token), !.closing = TRUE])

Finishes(f) ==
  /\ Trouble
  /\ socket[f].net = "up" /\ ~socket[f].fin
  /\ Peer(f, [socket[f] EXCEPT !.fin = TRUE, !.closing = TRUE])

RefusesOrResets(f) ==
  /\ Trouble
  /\ socket[f].net \in {"connecting", "up"}
  /\ Peer(f, [socket[f] EXCEPT !.net = "broken"])

Server ==
  \E f \in Fd : \/ Accepts(f) \/ Answers(f) \/ AnswersEarly(f)
                \/ Finishes(f) \/ RefusesOrResets(f)
                \/ \E token \in {"last", "until", "junk"} : AnswersLast(f, token)

(* The loop goes on, and the record timer is due again and again; what the  *)
(* server does and when main stops the test are free.                       *)
Next == Loop \/ Server \/ SetStop

Spec == Init /\ [][Next]_vars /\ WF_vars(Loop) /\ SF_vars(record_rate)

-------------------------------------------------------------------------------

Live(c) == conn[c].opened /\ ~conn[c].lost /\ ~crossed

(* A callback is only ever armed on the socket its connection opened: no    *)
(* answer of one connection is read for another, no event outlives its      *)
(* socket.  It holds until a delay timer, which survives the reconnect that *)
(* failed, arms a descriptor someone else has by then.                      *)
EventsFollowSockets ==
  ~crossed =>
    \A f \in Fd : events[f].mask # {} =>
      /\ socket[f].owner = events[f].data
      /\ conn[events[f].data].fd = f

(* A connection that was not lost always has a way to go on: it is to       *)
(* write, or a delay is running, or it reads and there is something it      *)
(* still gets.  There are two exceptions.  A server answers before it has   *)
(* the request: the answer ends the cycle, the end of the write disarms it. *)
(* A delay timer set before the socket was opened starts a second cycle     *)
(* over the first, and c->pending wraps with nothing left to write.         *)
NeverStalled ==
  \A c \in Conn : Live(c) =>
    LET f == conn[c].fd
    IN  \/ "W" \in events[f].mask
        \/ HasTimer(Now, c)
        \/ /\ "R" \in events[f].mask
           /\ \/ socket[f].owed > 0 /\ ~socket[f].closing
              \/ socket[f].in # <<>> \/ conn[c].parser = "until"
              \/ socket[f].fin \/ socket[f].net = "broken"
        \/ socket[f].early \/ socket[f].haunted

(* A connection waits for exactly the answers its socket still owes it:     *)
(* none is awaited that nobody will send, and none is in flight that is not *)
(* awaited, so a cycle of requests ends before the next begins.  A delay    *)
(* timer set before the socket was opened is the exception: it starts a     *)
(* second cycle over the first.                                             *)
Unwritten(c) == IF conn[c].written = 0 THEN 0 ELSE (Length - conn[c].written + 1) \div 2

AwaitsWhatIsOwed ==
  \A c \in Conn :
    LET f   == conn[c].fd
        due == socket[f].owed + Len(socket[f].in) + Unwritten(c)
        usual == /\ socket[f].used /\ ~socket[f].closing
                 /\ ~socket[f].early /\ ~socket[f].haunted
    IN  Live(c) /\ usual =>
          \/ conn[c].pending = due
          \/ due = 0 /\ conn[c].written = 0 /\ "W" \in events[f].mask

(* The thread ends once the test is stopped, whatever the server does.      *)
StopEndsThread == stop ~> (loc = "ended")
===============================================================================
