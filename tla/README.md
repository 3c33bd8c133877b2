# A TLA+ model of Flux

Flux is a C++ network library in headers: a reactor (`src/source/Reactor`) of event
loops, timers, buffers and TCP connections, and an HTTP server on top of it
(`src/source/Http/http.hpp`). The repository also holds the source of the client its
server is measured with, wrk (`src/wrk_test_server/wrk-master`): an event loop of its
own, an HTTP parser and the statistics. This directory holds TLA+ modules that model
both, TLC configurations that check them on small instances, and proofs checked by
TLAPS. `PROJECT.json` lists the runs, a mutant for each checked property (a plausible
bug that TLC finds by it), the source lines behind every definition, the hazards the
properties are for, and the theorems.

To check: `tlc -config LoopThread.cfg MCLoopThread` and so on for the other
configurations (the table below names the module of each), `tlapm
LoopThreadProofs.tla` for the proofs.

## The system and its hard parts

| Component | State | Operations | What must hold |
|---|---|---|---|
| EventLoop | `_isrunning`, `_tasks` under `_mutex`, eventfd, thread id | `Start`, `Stop`, `RunInLoop`, `QueueInLoop`, `RunAllTask` | no lost wake-up; closures run once, in order; a stop is seen |
| LoopThread | `_loop` under `_mutex`/`_cond`, the thread | `ThreadEntry`, `GetLoop`, destructor | `Stop` works on a live loop; `join` returns |
| LoopThreadPool, Acceptor, TcpServer | worker loops, `_next_idx`, `_next_id`, `_conns` | `Start`, `NextLoop`, `NewConnection`, `AddTimerTask`, `RemoveConnection` | loops take turns; ids distinct; a served connection is held, and forgotten when closed |
| TimerWheel | 60 slots of `shared_ptr<TimerTask>`, `_tick`, a map of weak pointers, timerfd | `TimerAdd`, `TimerRefresh`, `TimerCancel`, `OnTime`, `HasTimer` | a task fires at its time, once, unless cancelled; the map follows the tasks |
| Poller, Channel | map of channels by descriptor, requested and returned events | `UpdateEvent`, `RemoveEvent`, `Poll`, `HandleEvent` | the kernel watches what the channels ask for |
| Connection, Socket | status, in/out buffers, inactivity flag, descriptor | `Established`, `Send`, `Shutdown`, `Release`, the event handlers | output sent before release; no idle half-closed connection; descriptors not confused |
| Buffer | vector, read and write offsets | `Write*`, `Read*`, `GetLine`, `Clear` | a queue of bytes |
| HttpContext, HttpServer | parse state, request, routes | `RecvHttpRequest`, `Reset`, `OnMessage` | the same answers however the input is cut; nothing answerable left behind |
| HTTP utilities | none | `Split`, `UrlDecode`, `HEXTOI` | a handler gets the path and the parameters the client meant |
| wrk: ae | `events`, `fired`, time events, `stop` | `aeCreateFileEvent`, `aeDeleteFileEvent`, `aeProcessEvents`, `aeMain`, `aeStop` | callbacks stay with their sockets; a stop is seen |
| wrk: threads and connections | per connection `fd`, `delayed`, `written`, `pending`, parser | `connect_socket`, `reconnect_socket`, `socket_connected`, `socket_writeable`, `socket_readable`, `response_complete`, the timers | no connection is stalled; each waits for what it is owed |
| wrk: http_parser and script | state, header state, flags, lengths, marks; the script's buffers | `http_parser_execute`, `http_parser_parse_url`, the callbacks | the callbacks see what was sent, however it was cut; what has no clear end is refused |
| wrk: statistics | table, count, min, max | `stats_record`, `stats_correct`, the queries | no record lost without a lock; the summary is of the table |

Inside a thread components interact by calls (event handlers, callbacks);
between threads only through `RunInLoop`/`QueueInLoop`, which hand a closure to
the loop that owns the object. The kernel is the third party: epoll, eventfd,
timerfd, sockets and descriptor numbers. The hard behaviour is therefore:
closures of other threads against the loop's own round (poll, handlers,
closures); descriptors closed by one handler of a round while another still
holds events of them; timers set while expirations are unread; a loop that
another thread stops and destroys; and input cut into arbitrary pieces. In wrk it
is a socket closed and opened again inside the callback that reads it, timers that
outlive the connection they were set for, answers that arrive before they are
expected, and a table shared by threads without a lock.

## Modules

| Module | Models | Abstract specification it implements | Proofs |
|---|---|---|---|
| `EventLoop` | one loop, any number of threads using it | `TaskQueue` (`QueueSafety`, `QueueServed`) | `LoopThreadProofs` |
| `LoopThread` (extends `EventLoop`) | the thread and the object around a loop | `TaskQueue`, through `EventLoop` | `LoopThreadProofs` |
| `TimerWheel` | the wheel, its map and its timerfd | `CountdownTimers` (`WheelCountsDown`) | `BufferAndWheelProofs` |
| `Connection` | the connections of one loop with Poller, Channel, Socket, accepting | | `ConnectionProofs` |
| `TcpServer` | the base loop, the pool and what the server keeps of connections | | `TcpServerProofs` |
| `Buffer` | the byte buffer | `ByteQueue` (`BufferIsQueue`) | `BufferAndWheelProofs` |
| `HttpServer`, `HttpTokens`, `HttpUtil` | parser and `OnMessage` of one connection, and the target of a request byte by byte | `HttpStream` (`CutsDoNotMatter`) | `HttpServerProofs` |
| `WrkThread` | one thread of wrk: ae, its connections, a server | | `WrkThreadProofs` |
| `HttpUrl`, `HttpParser` | wrk's `http_parser` and URL parser, with the callbacks and the script's buffers | reference definitions in `HttpMessages` | `HttpParserProofs` |
| `WrkStats` | the statistics of wrk, recorded by threads and corrected by main | | `WrkStatsProofs` |

`MC*` modules give sets and symmetry to TLC. Operators named after a mistake
(`SwapDropsTasks`, `ResetKeepsRequest`, ...) are the mutants' forms of the
definitions after them; no specification uses them.

### EventLoop

`running`, `tasks`, `eventfd` are `_isrunning`, `_tasks` and the eventfd's
counter (zero or not: it is level triggered). `functor` and `current` are
`RunAllTask`'s local vector and the closure being executed, `actives` and `loc`
are where the owner's thread is in `Start`, `call` whether a thread is between
its push (or its store of `_isrunning`) and its write of the eventfd. Critical
sections are single steps, as each holds one vector operation. A closure may
call `QueueInLoop`; `Stop` is called by other threads (`Stopper` excludes the owner;
the library's only caller is `~LoopThread`). `RunInLoop` in the loop's own thread executes in
the call and does not touch the queue. What other descriptors do appears as
the reason `"other"` for Poll to return; an interrupted `epoll_wait`, and more
active descriptors than fit in one call, are `PollOther`.

`NoLostWakeup` is the invariant a reviewer argues about: when may the owner
sleep? `TaskQueue` is a first-in first-out queue with one closure executing;
`pending <- functor \o tasks` is the refinement mapping. Liveness (`QueueServed`)
assumes weak fairness of `Start`, of the owner's steps and of each thread's pending
write: threads are scheduled and closures return. Nothing makes anyone call, and
no other descriptor has to be ready. The module is checked inside `LoopThread`,
which is how the library runs a loop.

### LoopThread

The composition of `EventLoop` with `ThreadEntry`, the client that takes the loop,
queues closures and destroys the object, and other threads that use the loop in
the meantime (`Producer`, of which `Client` is one). `mutex` is held across the
destructor's `Stop` with its write, which is what makes `StopOnLiveLoop` true;
`Withdraw` waits for it. The destructor is called when no thread is inside a call
on the loop. `GetLoop`'s second, unlocked read of `_loop` is merged into the
locked one: the only client here (and in `LoopThreadPool`) calls it before
anything can stop the loop. Fairness: the threads are scheduled.

### TimerWheel

`wheel` maps each slot to the set of tasks it points to. The order in which the
pointers of a slot are destroyed is left open, and several pointers of one task
in one slot are one element: they go in one `clear()`. `task` holds the members
of the `TimerTask`s, whose addresses are reused; `dying` is the one whose
destructor is executing, so that callbacks can call back into the wheel in the
middle of `OnTime`; `times` counts the iterations `OnTime` still has to make.
`unread` is what the kernel counts. `age`, `elapsed`, `backlog` are history.
`TimerAddInLoop` has a guard that is the callers' and not the code's
(`TimerWheel.hpp:129`-136 tests nothing): the id has no entry yet, nor is it that of the
task that is dying. The library's callers draw a fresh id (`TcpServer.hpp:22`) or ask
`HasTimer` (`Connection.hpp:179`); a callback that added its own id again would lose the
new entry to the destructor it runs in.
`CountdownTimers` says what a client sees: per id a count that goes down with
every turn, restarts on refresh, and fires or (cancelled) vanishes at zero; the
mapping takes the furthest slot that holds a task as its count.

### Connection

One loop, its poller, the connections in it, the kernel's sockets and the
peers. The helper operators (`UpdateEvent`, `ReleaseInLoop`, `SendInLoop`, ...) are
the calls handlers make, as functions of the state, so that each action is a
whole handler, nested calls included. A handler's events are a copy (`handling`)
and the round's other events wait in `actives`: a connection released by one is
still handled by the other. Descriptor numbers are reused at once, by this loop,
by another loop or by the rest of the process (`TakeElsewhere`). `pooled` tells
a worker loop (the base loop accepts in another thread and queues the closures)
from a server of one loop (the acceptor is a channel of the same loop).
`Verdict` is `HttpServer::OnMessage` as a connection sees it; it may respond and
may then shut down. Output is counted in responses, input is data or nothing;
the timer expires at a moment of its own. `HandleClose` and `HandleError` both release,
so one action stands for both branches after the write branch.

### TcpServer

`NewConnection` step by step (construct with a loop and an id, enable, establish,
insert), each closure executed in the call when the base loop serves the
connection, else queued to the worker; workers execute and release connections at any time.
Timer tasks draw ids from the same counter. `AddTimerTask` has both branches of
`RunInLoop`: handed over as a closure, or executed in the call by code that runs in the
base loop (`UserCodeInBase`). That is between its handlers, and, without worker loops,
also inside `NewConnection`: `Established` runs the user's connected callback, which may
add timer tasks or release the connection before `insert` reads `_next_id` again. The
connection is then entered under another key than its id (below); `ConnectedIsHeld`
asks for the id where a worker serves it, and for some entry of it otherwise.

### Buffer

Real offsets and a real vector, with the three cases of `EnsureWriteSpace`. A
failing assertion of `MoveWriteOffset` is `failed`, after which nothing is
modelled. `io` records the last operation and its bytes, so that
`BufferIsQueue` compares what is returned as well as what is kept.

### HttpServer

Bytes are tokens (`HttpTokens`): a piece of text the parser tells apart, or a
newline; a line that consists of anything but one right token is refused. The
parser's loop and `OnMessage`'s loop are taken step by step; `frames` counts the
nested calls that `Shutdown` makes when input is left. `HttpStream` has no
pieces, no buffer and no calls: it answers the requests of one byte stream in
order. The mapping is `rest <- taken \o buffer \o coming`. After a request that
is refused, how much of the input is thrown away depends on what had arrived,
and `HttpStream` leaves that open.

The target of a request line is bytes. `Meant` lists what clients mean, a path and
parameters; `WriteTarget` is the client, who writes it as RFC 3986 and HTML forms have
it; `ParseHttpLine` reads it with `Split` and `UrlDecode` (`HttpUtil`). What a line is
read as is a parameter of `HttpStream` (`Read`), for its property is about the cuts. That
the handler gets what the client meant is another: `TargetIsMeant` says it of the path
and of every query, of parameters with the same key the first, except queries of one
parameter; `LoneParameterIsRead` says it of those and is violated (finding 3).
`UrlEncode` has no caller and is not modelled. Of routing the status is
kept, and what the answer's Connection header says: `MakeResponse` sets it after
the request unless the handler has (`HandlerSays`), and it, not the request,
decides whether `OnMessage` closes. `KeepsItsWord` relates the two.

### WrkThread

`conn`, `events`, `timers`, `fired`, `aestop` are the members of `connection` and
`aeEventLoop`; `socket` is the kernel's and the server's side of each descriptor,
with what is on its way (`in`) and what the server still owes. A callback of ae is
one step, a function from the members to the set of states it may leave; the
order of `fired`, and which timers are due, are open. Answers are tokens, for the
parser has a module of its own: complete and kept (`end`), complete and last
(`last`), ended by the end of data (`until`), or `junk`. `Configs` holds the cases
of `cfg.delay` and `cfg.pipeline`; `troubles` bounds how often the server closes or
fails. Two exceptions in the properties are behaviours of the code: `early` (the
server answers before it has the whole request) and `haunted` (a delay timer set
for the socket before). `crossed` ends `EventsFollowSockets`: a connection whose
`connect` failed at once still has its old number, and its timer arms it.

### HttpUrl, HttpParser, HttpMessages

The state of the parser is its `p_state` (`st`), its header state (`hs`), flags,
lengths and marks; one operator per state of the switch, named after it. A byte is
a token: a character the code tells apart, or a piece of a name it matches letter
by letter. `Byte` feeds one, `Cut` ends a read and begins another, `Eof` is a read
of no bytes, `Reconnect` the next connection with the script's buffers as they
were left. `uncut` is the same parser fed without cuts. `HttpMessages` writes
messages from a description (status, fields, body or chunks, and how lines end)
and states what is to be seen of them; the reference definitions there are of the
messages, not of the parser. Its exceptions name what the parser does not do
(below). Two are about limits: a length is refused from a conservative limit on
(`TooLarge`, `http_parser.c:1511` and `:1915`), and headers of more than half their limit
may be refused because they are cut (`RefusedByCuts`). The URL parser is two tables of
rules (`UrlRules`, `HostRules`) and the bookkeeping of offsets and lengths.

### WrkStats

Each atomic operation of `stats_record` is a step, with its locals in `call`;
`stats_correct` and the queries are functions of the table, as main is alone then.
Means and deviations are kept as integers, numerator and denominator.

## Runs

| Configuration | Instance | Result |
|---|---|---|
| `LoopThread.cfg` (`MCLoopThread`) | a client and another producer, 2 closures, 3 queued | 18 782 states, all hold |
| `LoopThreadHasty.cfg` (`MCLoopThread`) | the same | `JoinReturns` violated (finding 1) |
| `BufferAndWheel.cfg` (`MCBufferAndWheel`) | the wheel with 3 slots, timeouts 0 to 2, 2 unread expirations; or the buffer with 3 byte values, sizes 2 to 7, writes up to 4 | 338 162 states, all hold |
| `Connection.cfg` (`MCConnection`) | 2 connections, 1 descriptor number, timers, a send from outside, pooled or not | 2.06 million states, all hold |
| `ConnectionPeerClose.cfg` (`MCConnection`) | the same without timers and outside calls, 2 chunks of data, 2 responses | 42 336 states, all hold |
| `ConnectionReuse.cfg` (`MCConnection`) | one loop | `WatchesOwnConnections` violated (finding 2) |
| `TcpServer.cfg` (`MCTcpServer`) | 3 connections; 0, 2 or 3 workers; 2 timer tasks | 196 869 states, all hold |
| `HttpServer.cfg` (`MCHttpServer`) | streams of up to three requests, good and bad, 9 targets, every cut | 205 821 states, all hold |
| `HttpServerLone.cfg` (`MCHttpServer`) | the same | `LoneParameterIsRead` violated (finding 3) |
| `HttpParser.cfg` (`MCHttpParser`) | pairs of answers, broken and odd streams, requests, URLs; every cut | 200 068 states, all hold |
| `WrkThread.cfg` (`MCWrkThread`) | 1 connection pipelining 2 requests or with delays and 2 troubles; 2 connections with delays and 1 | 561 082 states, all hold |
| `WrkStats.cfg` (`MCWrkStats`) | 2 threads, 2 records each, values 0 to 6 of which 6 is refused, intervals 1 to 3 | 251 253 states, all hold |

### Why the bounds suffice

- *LoopThread*: two queued closures from two producers give a batch being
  executed, a closure queued meanwhile, and a wake-up that belongs to an earlier
  push; the eventfd does not count, so more producers add no new kind of state.
- *TimerWheel*: with three slots timeouts are shorter than the wheel and the hand
  goes round; two tasks share a slot, die in one clear, and call on each other;
  two unread expirations make `OnTime` turn twice.
- *Connection*: descriptor confusion needs one number and two owners. One queued
  outside call beside the closures of `NewConnection` races with everything. Two
  responses tell "some of the output is sent" from "all".
- *TcpServer*: three connections wrap two and three workers around. Two timer tasks
  are enough for one that is queued, or waits in the wheel, beside one that is added
  inside `NewConnection`.
- *Buffer*: the limit is reached by enlarging twice, and writes of 1 to 4 bytes
  meet every case of `EnsureWriteSpace` with every offset below it.
- *HttpServer*: the streams hold every kind of line, bodies, pipelined requests
  behind both kinds of connection, lines that are too long; `MaxLine` is 2
  because a good line has two tokens. The targets hold every case of the string
  functions: none, one and several parameters, an empty one, a key twice, escapes,
  blanks, a byte above 127.
- *HttpParser*: `LenMax` (63 for 2^64 - 1) and `MaxHeader` (80) are small, so that
  lengths overflow and headers are too long within a few tokens. Lengths are tried on
  both sides of the limits: 59 (with its body), 60, 62, 63, 64, 256, and chunks of 2f
  (with its data), 30, 3a, 3f, 40, ff; headers, trailers and lines of chunks of 80 and
  81 tokens, and headers of more than 40 with every choice of cuts; every stream is cut everywhere, and a
  broken stream is followed by a good one on the same connection. Each
  form of a Connection list the code tells apart is among the messages.
- *WrkThread*: two descriptors let a number be reused while the other connection
  has one; a request is two units long, so that a write can be partial; 8 for 2^64
  lets `pending` wrap visibly.
- *WrkStats*: two threads are enough for compare-and-swap to fail; values up to 5
  with an interval of 1 leave four phantoms of one record.

### Findings

1. `JoinReturns`: a `LoopThread` destroyed before its loop runs waits for ever.
   Either `_loop` is not published yet and `Stop` is not called, or `Start` sets
   `_isrunning` after `Stop` has cleared it. `JoinReturnsOnceServed` is what holds:
   once the loop has executed a closure the destructor returns.
2. `WatchesOwnConnections`: in a server of one loop `ReleaseInLoop` runs a second
   time for a connection released earlier in the round (its events were already
   taken), and removes the channel of the new connection that has got its
   descriptor number. Worker loops are safe (`WorkersWatchOwn`), because a new
   connection reaches them only as a closure, after the round's events; a thread of
   the application that calls Shutdown or Release on a connection that is closed
   already would break that too, and such calls are not in the run.
3. `LoneParameterIsRead`: `/a?user=root` reaches the handler without its parameter.
   `Split` compares the offset with the size of the array of parts instead of the
   string's, so a string without a separator (both are 0) is dropped, where its comment
   says that what remains becomes a part. With two parameters or more the offset behind
   the last separator is greater than the number of parts, and `TargetIsMeant` holds.

### Seen while modelling, without a run of their own

Reactor: a timer set while expirations are unread (the loop was busy for seconds)
fires early by as many seconds (`TurnsMatchSeconds` states exactly how much);
without worker loops, a connected callback that adds a timer task changes `_next_id`
between the id of the connection and its entry in `_conns`, so that the entry has another
key than `_conn_id`, by which `RemoveConnection` would look for it; nothing sets
`_server_closed_callback`, so `RemoveConnection` is never called and
`_conns` keeps every connection; a timeout of 60 seconds or more fires modulo the
wheel's capacity (the theorems assume shorter ones); an `EnableInactiveRelease`
after a `CancelInactiveRelease` only refreshes the cancelled task; near 1 MB
`EnsureWriteSpace` enlarges instead of moving and its assertion can fail although
the unread bytes and the new ones would fit (`FailsOnlyAtLimit` says when); a
half-closed peer that never reads keeps its inactivity timer refreshed.

HTTP: requests pipelined behind "Connection: close" are still answered, each in one
more nested `OnMessage`; a request that is refused is answered with the Connection
header it asked for, keep-alive included, and closed (`KeepsItsWord` excepts it);
`UrlEncode`, which nobody calls, would print a char above 127 as a negative number, cut
to `%FF`, where its comment promises %HH; 405 cannot be answered, for the regular
expression admits no other methods; the answer to HEAD has a body; an answer
without a body has no Content-Length, so that a client like wrk waits for the end
of the connection; a file that vanishes between `IsRegular` and `ReadFile` gives
an empty answer of status 200.

wrk's thread: a connection whose `connect` fails at once is never tried again
(`wrk.c:47` calls their number "Connections to keep open"); a delay timer survives
the reconnect and starts a second cycle over the first, in which `pending` wraps;
an answer before the request is complete disarms the next request; an answer ended
by the end of data is counted as a read error and the connection opened twice.

wrk's statistics: `stats_correct` does not lower `min`, so after an interval below
it the queries miss what was added; percentile 100 asks for one value more than
there are and gives 0; an interval of 0 would not end.

wrk's parser, beside the documented leniencies: after a reconnect the script's
first answer holds the rest of the one before; a name without a value is completed
from beyond the cursor of the buffer; a tab after a comma, an empty element and a
token that begins like keep-alive, close or upgrade hide the rest of a Connection
list; a folded line loses the header's state; blanks inside Content-Length are
skipped; 304 and answers to HEAD with a Content-Length wait for a body; a read that
ends inside a name or value counts once more towards the size of the headers;
"gzip, chunked" is not taken for chunks; "http://host#fragment" is refused.

### Hazards without a property

`PROJECT.json` lists the hazards the properties are for. These have none:
closures queued around `Stop` may stay in `_tasks` when the loop ends
(`EventLoop.hpp:110`; the abstract queue leaves them pending); a loop that ends
between `GetLoop`'s two reads makes it return nullptr (`LoopThread.hpp:40`; no caller
is that late); timeouts of a whole turn or more (`TimerWheel.hpp:133`) and the
cancelled task that is enabled again (`Connection.hpp:179`), which no caller uses;
the half-closed peer that never reads (`Connection.hpp:104`), which needs the wheel's
timing; `_conns`, which never shrinks (`TcpServer.hpp:42`), as no step of the code could
make it; the index of the pool (`LoopThreadPool.hpp:40`), proved instead; files that
vanish (`http.hpp:942`) and a Content-Length that is no number (`http.hpp:474`); in wrk,
connections that are never tried again (`wrk.c:260`) and a record of two moments within a
millisecond (`wrk.c:278`).

## Proofs

All are for every value of the constants, from the named assumptions on them
(`ThreadAssumption`, `ClientAssumption`, `WheelAssumption`, `NoneAssumption`,
`LoopAssumption`, `ServerAssumption`, `BufferAssumption`, `StatsAssumption`,
`WrkAssumption`, `ParserAssumption`: typing, that `None`-like values differ from real
ones, that a percentile is below 100, that descriptors are finitely many and that fewer
requests are pipelined than `pending` can count, that the largest length is more than
15, as a chunk's size begins with one hexadecimal digit). Five theorems have a hypothesis
of their own, named below.

Types (`TypeOK` of four modules, `HttpTypes`), `RoundRobin` and the inductive
invariants are proved and not repeated in a run; the other properties named here
are checked by a run as well.

- `LoopThreadProofs`, of the loop: `TypeCorrect`; `LostWakeupFree` (inductive beside
  the type invariant: every push or stop leaves its thread in `"wake"`, every write
  leaves the eventfd set, and only the owner's handling of it, after which it must
  swap, clears it); `BatchBounded`; `LoopImplementsQueue`, each step of the loop being
  a step of `TaskQueue` or a stutter under `pending <- functor \o tasks`. Of its
  thread: every step of a `LoopThread` is one of its `EventLoop` or
  leaves it alone (`ThreadRunsLoop`), so the three properties of the loop hold of it
  in its thread as well. `StopFindsLoop` (`StopOnLiveLoop`), from `ThreadInv`:
  `_mutex` is the destructor's from its lock to its unlock, `_loop` is set exactly
  while the loop can be used, no call of the client's is under way when its
  destructor begins, and a `Stop` that has still to write the eventfd found `_loop`
  set, which can only be withdrawn under the same mutex.
- `BufferAndWheelProofs`, of the wheel: `TypeCorrect`; `EntriesCorrect`, from
  `EntriesInv`, which adds that the dying task is in no slot and shares its id with no
  waiting task, else `RemoveTimer` could erase another task's entry; `TurnsAccounted`;
  `TasksFireOnTime` for `Timeout \subseteq 0 .. Capacity - 1`, from `OnSchedule`: one
  pointer of a task is exactly as far ahead as the task has to wait, and none is
  further. `FiresOnTime` alone says nothing of where pointers are and is not inductive.
  Arithmetic modulo the capacity is in `ModOfSum` and `TurnKeepsPosition`.
  `WheelIsCountdown` (`WheelCountsDown`), under the same hypothesis: by `OnSchedule` the
  distance of a task's furthest pointer, which the refinement mapping counts, is the
  number of ticks the task has to wait, so each step of the wheel is a step of
  `CountdownTimers` or a stutter.
- `ConnectionProofs`: `ConnectionInductive`. Its invariant `ConnInv` says of every
  connection, channel, epoll entry and descriptor that they refer to each other
  (`Linked`, `Attached`), and of what a round has still to handle that it concerns
  connections that were accepted. Handlers call each other
  (`HandleRead` may send, shut down and release), so each primitive operation is
  proved first to keep `Sound` and to touch nothing but its connection (`Kept`),
  and a handler is a chain of those. From it follow `ChannelsAreOfOwners`,
  `PendingOutputIsAskedFor` (`OutputIsWatched`, both of its parts), whatever the
  application calls.
  Three properties need to know what the application calls from outside, and TLC
  shows that they do: `ReleasedHasNoTimer` when it does not enable inactivity
  release itself (else `send` and a late `enable` leave a released connection with
  a timer); `PooledConnectionsAreWatched` when it makes no call of `shutdown`,
  `release` or `enable` from outside (else finding 2 happens in a worker loop too);
  `ReleasedWhenSent` without inactivity timers and without `release` or `enable` from
  outside, which release with output pending by intention. Their invariants add
  that the closure that arms a timer comes before all others of its connection
  (`FrontInv`), that a connection with events in hand finds its own channel at its
  descriptor, or none if it has lost it (`WatchInv`), and that a hang-up in hand is
  a reset (`SendInv`).
- `TcpServerProofs`: `ServerTypeCorrect`, with `_next_idx` in the pool;
  `LoopsTakeTurns` (`RoundRobin`), from `TurnsInv`: each of the last `threadCount`
  connections went to the loop as far behind `_next_idx` as the connection is
  behind the last; `IdsAreDistinct` and `ServedIsHeld`, from `IdsInv`: every id in
  use was drawn once, for a connection that has come in or for a timer task, the
  connection being accepted has the last one until it is established (closures that
  draw ids run only in the base loop, which is inside `NewConnection` then; after that
  its callback may have drawn more, and its entry takes the last of them), and whoever
  has come in is being accepted or is in `_conns`; `ServedIsTimed` (`ConnectedIsTimed`), from
  `TimedInv`: a connection's closures are all in the queue of its own loop, the one
  that enables its timer before the one that establishes it, and a timer goes only
  with its connection.
- `BufferAndWheelProofs`, of the buffer: `BufferTypeCorrect`, `FailsAtLimit`, and
  `BufferImplementsQueue`: by `RoomKeepsBytes`, however room is made the unread bytes
  are where the offsets say; then writing appends (`WritePuts`) and reading removes
  (`PopRemoves`).
- `HttpServerProofs`: `HttpTypesCorrect`; `NothingIsLeftBehind`, from `Turn`, which
  says of each place in `OnMessage` in which state the parser can be there, nested
  calls included; `WordIsKept`, from `Word`, the same between the places;
  `CutsDoNotShow`, that the server implements `HttpStream` (`CutsDoNotMatter`). The
  stream is `Whole`, what was taken, `_in_buffer` and what is to come. Every step but
  an answer leaves it as it is, and by `ReadInv` the request is what the tokens
  taken say: no field before the first line, then a good beginning with the fields
  and the target so far, then the blank line and as much of the body; and after an
  error the line it stopped at is malformed in the stream. `OneMoreField` shows that
  `SetHeader`, line by line, collects the fields `HttpStream` defines at once. What a
  target is read as is the same function of its text on both sides, whatever the string
  functions compute.
  `FirstOf` (a set of numbers has a least element) takes the place of induction.
- `WrkStatsProofs`: `StatsInductive`, and from it `TableExact` (`TableIsExact`),
  `CorrectionExact` (`CorrectionIsOfRecorded`) and `SummaryExact` (`SummaryIsOfTable`).
  The invariant says what the calls under way still have to do: each value taken is in
  the table or a call is about to add it (`Adding`), each entry is counted or about to
  be (`Counting`), the minimum a call has read is never below the table's, and a value
  beyond the extremes has its call still before or in the loop of compare-and-swap.
  Recording needs no assumption that the threads are finitely many. After the correction
  the invariant is that the table is the recorded one, corrected, and `CorrectedAll`
  gives the scan a closed form: phantoms lie below the entry they come from, where the
  scan has already been. The summary is proved of every table whose entries lie between
  its extremes (`Bounded`): a percentile by `RankMeans`; the mean by bounding the sum
  from both sides; that a value lies within the deviation because the squares would
  otherwise add up to more than the variance (`SomeAreNear`); the entries by the
  pigeonhole principle (`EveryPlace`). Sums and the scan are folds, whose recursion over
  subsets is opened by `SumsUp` and `Corrects`; `FromSubsets` and `BuildUp` state
  induction over a finite set with a set of subsets in place of an operator.

- `WrkThreadProofs`: `ThreadInductive`, and from it `EventsAreOwn`
  (`EventsFollowSockets`). `EventsFollowSockets` is not inductive alone: the callback
  that answers an event needs its connection to be open (`HasSocket`), a timer that
  is due needs its connection to have been opened, and a socket must belong to the
  connection that has its number, or a `close` could take it from another (`Linked`,
  with these `Wired`). A callback is a chain of calls on the members, each of which
  may leave several states; `Kept` says what every one of them does, and
  `ReconnectKept` is where it is hard: between `close` and `socket()` the connection
  has no socket (`Freed`), and whatever number comes next is nobody's. That a whole
  read is `Kept`, however many answers it brings and wherever the parser reconnects,
  is by `ExecuteKept`, an induction over the positions of the fold. Only
  `delay_request` can leave `Wired`, and then sets `crossed` (`DelayKept`).

  On top of it `CyclesInductive`, and from that `AwaitedIsOwed` (`AwaitsWhatIsOwed`) and
  `NoneIsStalled` (`NeverStalled`). What a connection is due (`Due`) is what its server
  owes, what is on its way, what a read has in hand, and the requests still to be
  written (`Outstanding`). `CycleInv` adds to `ThreadInv` that a connection that was not
  lost has `socket_connected` still to run (`Connecting`), or is in its cycle
  (`Cycling`): between two cycles it is due nothing, and is to write or has exactly one
  delay timer (`Idle`); within one `c->pending` is what it is due, and what is left to
  write is asked for (`Busy`); and once the server closes, what it sent last ends the
  connection (`Ends`). Both properties need it: the answer that ends a cycle may only be
  counted as such when no request is half written and no timer is left over, which
  neither says. TLC found it true of every state of `WrkThread.cfg` before it was proved.
  A callback leaves the others as they were (`Apart`), and its own connection in its
  cycle, lost, or anew (`Leaves`, `Fresh`); within a read this holds after each token
  (`Taking`, `ExecuteTakes`). `early` and `haunted` are where it does not hold (`Usual`).
  A timer that fires is taken out of the list of timers, which shifts those after it:
  `SkipsDelays` says that the timers of the other connections are as many as before.

- `HttpParserProofs`, for any streams of any bytes, cut anywhere, and any limits:
  `ParserInductive`, and from it `AssertionsNeverFail` (`AssertionsHold`) and
  `CutsStayInvisible` (`CutsAreInvisible`). The invariant `ParserInv` says of each
  parser what every one of its states relies on (`Sound`, `Typed`): what can be marked
  there (`MarksOf`; in a body nothing need be, elsewhere exactly that is), that a body
  has something left to come and its length is known, that chunks were announced, and
  that what is not marked holds no bytes. The asserts of the code ask for a part of
  this at a few places; most states have to hold it for the others. `Alike` says that
  the parser whose reads are cut and `uncut` agree on everything that steers them
  (`Agree`), and that what they have delivered together with what they still hold is
  the same (`Data`): so a cut may only move bytes from the one to the other. They do
  not count the same: `COUNT_HEADER_SIZE` counts one byte more where a run of bytes of a
  name or value begins, and so again after every cut inside one. `Slack` bounds it, at
  most once for each byte counted, so the cut parser never counts more than twice what
  the other one does, and refuses only headers of more than half the limit (`Refuses`).
  Every state of the switch has a lemma that it keeps each of the two; `ByteStep`,
  `CutStep`, `EofStep` and `ReconnectStep` put them together.

  The proof corrected `CutsAreInvisible`, which held only of streams while the uncut
  parser had counted at most half the limit. That excused every other difference as
  well, and it missed a case: at the byte that ends the headers the uncut parser's count
  starts anew, just where the cut one may refuse them. It now excepts that refusal only.

Only model-checked: everything about liveness, which is out of the prover's reach;
and what is read byte by byte: the functions of `HttpUtil` (`TargetIsMeant`) and
`HttpUrl`, and three invariants of `HttpMessages` (`MessagesAreSeen`, `RefusedIffAmbiguous`, `UrlIsRead`).
These relate a whole message, or a whole target, to what a machine of dozens of states
has made of its bytes; the proof is an induction over the bytes in which every state
of the machine needs the part of the message it stands for, and the reference
definitions of `HttpMessages`, which build messages from their descriptions, would have
to be taken apart again byte by byte. Every safety invariant of the other modules' runs
is a theorem.

## Fairness

Weak fairness is assumed of threads (the operating system schedules them), of
handlers that have begun (they return), of the clock in `TimerWheel`, and in
`ConnectionPeerClose.cfg` of peers that keep reading what is sent to them, unless
they reset the connection. No client, peer or closure is obliged to do anything
else. In `WrkThread` the loop goes on (weak fairness of its steps: `aeProcessEvents`
never waits beyond the next timer, and the record timer is always set), and the
record timer is due again and again (strong fairness of `record_rate`: a round
passes over it only until 100 ms have gone by). `HttpParser` and `WrkStats` have no
liveness property and no fairness.

## Not modelled

- `Any`, `Log`: no behaviour over time. `UpgradeInLoop` replaces callbacks that the
  model does not keep. `DisableRead`, `DisableAll`, the client side of `Socket` and
  `RemoveConnection` have no caller in the library.
- Failing system calls that end the process (`abort`, `exit`).
- Destroying a wheel or a loop that still holds timer tasks or channels.
- Pushing into the slot that is being cleared (a timer of 0 or of a whole turn from
  inside a callback): undefined behaviour of the vector, excluded by guards.
- The text of HTTP: the regular expression of the request line, files, which
  handler a path reaches, the response's text; `Content-Length` is taken to be a
  number. Of the utilities `ReadFile`, `WriteFile`, `IsRegular`, `IsDirectory` and
  `ValidPath` are file access, `StatuDesc` and `ExtMime` are tables.
- Of wrk: options, units and the printed report, Lua, TLS (`ssl.c` appears as calls
  that may have to be tried again), allocation, the event back ends other than
  epoll, and functions of ae and http_parser that wrk does not call
  (`aeResizeSetSize`, `aeDeleteTimeEvent`, `aeWait`, pausing, `HTTP_BOTH`, parsing a URL
  as a CONNECT target, the lenient mode). A script may stop its own thread from a callback
  (`thread:stop`, `script.c:409`), which sets ae's flag as the record timer does.
- `src/example` and `src/test`: short programs that try one class each.

## Plan

1. Done: the reactor, the HTTP server with its utilities, and wrk's thread, parser
   and statistics, with the abstract specifications and the proofs above.
2. Done: the properties of `LoopThread`, `Connection`, `TcpServer` and `HttpServer`
   that are not liveness, and the refinement of `HttpStream`.
3. Done: the three properties of `WrkStats`, and of `WrkThread` `EventsFollowSockets`,
   `AwaitsWhatIsOwed` and `NeverStalled`. `TargetIsMeant` is left to TLC
   (`HttpServer.cfg`).
4. Extend: the inactivity timer of a connection composed with the wheel's timing;
   the pool's start and end as several `LoopThread`s; `HttpParser` under `WrkThread`
   in place of its tokens.
