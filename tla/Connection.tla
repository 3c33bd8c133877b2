------------------------------ MODULE Connection ------------------------------
(***************************************************************************)
(* The connections of one event loop: Connection, its Channel, the loop's  *)
(* Poller, and the sockets of the operating system with their descriptors  *)
(* and peers.  A loop round is Poll, HandleEvent of each active channel,   *)
(* RunAllTask; a descriptor number is used again as soon as it is closed,  *)
(* possibly by a connection of another loop.  If there is a pool of        *)
(* worker loops, connections are accepted by the base loop in another      *)
(* thread, which queues EnableInactiveReleaseInLoop and EstablishedInLoop; *)
(* without one (SetThreadCount(0)) the acceptor is a channel of this loop. *)
(*                                                                         *)
(* The message callback is HttpServer::OnMessage as the connection sees    *)
(* it: it is indifferent to data it has already seen, it may answer new    *)
(* data, and it calls Shutdown only after a response.  Input left in its   *)
(* buffer changes nothing here; output is counted in responses; a wheel's  *)
(* timer expires at a moment of its own (TimerWheel has the timing).       *)
(***************************************************************************)
EXTENDS Naturals, Sequences

CONSTANTS
  Conn,       (* connection objects: each lives once                       *)
  Fd,         (* descriptor numbers                                        *)
  None,       (* no connection, nothing watched                            *)
  Elsewhere,  (* the owner of a descriptor outside this loop               *)
  Pools,      (* whether there is a pool of worker loops: the cases        *)
  Inactive,   (* the server was told to EnableInactiveRelease              *)
  AppOps,     (* what other threads of the application call                *)
  MaxData,    (* bound of the model: chunks a peer sends per connection    *)
  MaxOut,     (* bound of the model: responses told apart in _out_buffer   *)
  MaxTasks    (* bound of the model: closures queued                       *)

Event == {"in", "out"}

ASSUME LoopAssumption ==
  /\ None \notin Conn \cup {Elsewhere}
  /\ \A events \in SUBSET Event : events # None
  /\ Elsewhere \notin Conn
  /\ Pools \subseteq BOOLEAN
  /\ Inactive \in BOOLEAN
  /\ AppOps \subseteq {"send", "shutdown", "release", "enable", "cancel"}
  /\ MaxData \in Nat /\ MaxOut \in Nat /\ MaxTasks \in Nat

VARIABLES
  pooled,    (* this loop belongs to the pool: never changes               *)
  conn,      (* per Connection: its members                                *)
  channels,  (* Poller::_channels                                          *)
  epoll,     (* per descriptor: the events the kernel watches, or None     *)
  owner,     (* per descriptor: whose socket it is                         *)
  socket,    (* per Connection: what the kernel and the peer hold          *)
  tasks,     (* _tasks                                                     *)
  functor,   (* what is left of RunAllTask's local vector                  *)
  actives,   (* per Connection: _revents of an active channel not begun    *)
  others,    (* the timerfd and the listening socket, if active            *)
  handling,  (* the channel in the middle of HandleEvent, or None          *)
  accepting, (* the connection NewConnection is busy with, or None         *)
  loc        (* where the loop is                                          *)

loopVars == <<pooled, tasks, functor, actives, others, handling, loc>>
vars == <<conn, channels, epoll, owner, socket, accepting, loopVars>>

Idle == [c \in Conn |-> {}]

Unborn == [statu |-> "absent", fd |-> None, events |-> {}, out |-> 0, timer |-> "none"]

Init ==
  /\ pooled \in Pools
  /\ conn = [c \in Conn |-> Unborn]
  /\ channels = [f \in Fd |-> None]
  /\ epoll = [f \in Fd |-> None]
  /\ owner = [f \in Fd |-> None]
  /\ socket = [c \in Conn |-> [rcv |-> 0, sent |-> 0, peer |-> "open", full |-> FALSE]]
  /\ tasks = <<>>
  /\ functor = <<>>
  /\ actives = Idle
  /\ others = {}
  /\ handling = None
  /\ accepting = None
  /\ loc = "poll"

-------------------------------------------------------------------------------
(* What the calls inside a handler do to the members of the connection, the *)
(* poller and the descriptors: functions of w, the state they start from.   *)

Now == [conn |-> conn, channels |-> channels, epoll |-> epoll, owner |-> owner]

Becomes(w) ==
  /\ conn' = w.conn
  /\ channels' = w.channels
  /\ epoll' = w.epoll
  /\ owner' = w.owner

(* Poller::UpdateEvent through Channel::Update: EPOLL_CTL_MOD if the        *)
(* descriptor has a channel, else EPOLL_CTL_ADD, rolled back when it fails. *)
UpdateEvent(w, c) ==
  LET f == w.conn[c].fd
      e == w.conn[c].events
  IN  IF w.channels[f] # None
      THEN IF w.epoll[f] = None THEN w ELSE [w EXCEPT !.epoll[f] = e]
      ELSE IF w.owner[f] = None THEN w
           ELSE [w EXCEPT !.epoll[f] = e, !.channels[f] = c]

EnableRead(w, c)   == UpdateEvent([w EXCEPT !.conn[c].events = @ \cup {"in"}], c)
EnableWrite(w, c)  == UpdateEvent([w EXCEPT !.conn[c].events = @ \cup {"out"}], c)
DisableWrite(w, c) == UpdateEvent([w EXCEPT !.conn[c].events = @ \ {"out"}], c)

RemoveLeavesChannel(w, c) ==
  LET f == w.conn[c].fd
  IN  IF w.channels[f] = None THEN w ELSE [w EXCEPT !.epoll[f] = None]

(* Poller::RemoveEvent finds the channel by its descriptor.                 *)
RemoveEvent(w, c) ==
  LET f == w.conn[c].fd
  IN  IF w.channels[f] = None THEN w
      ELSE [w EXCEPT !.channels[f] = None, !.epoll[f] = None]

(* Socket::Close once; the kernel forgets what it watched of the socket.    *)
Close(w, c) ==
  LET f == w.conn[c].fd
  IN  IF w.owner[f] # c THEN w
      ELSE [w EXCEPT !.owner[f] = None, !.epoll[f] = None]

CancelInactiveRelease(w, c) ==
  [w EXCEPT !.conn[c].timer = IF @ = "armed" THEN "canceled" ELSE @]

ReleaseWithoutCancel(w, c) ==
  LET s == Close(RemoveEvent(w, c), c)
  IN  [s EXCEPT !.conn[c].statu = "DISCONNECTED"]

ReleaseInLoop(w, c) ==
  LET r == Close(RemoveEvent(w, c), c)
      s == IF r.conn[c].timer = "none" THEN r ELSE CancelInactiveRelease(r, c)
  IN  [s EXCEPT !.conn[c].statu = "DISCONNECTED"]

WatchOutput(w, c) == IF "out" \in w.conn[c].events THEN w ELSE EnableWrite(w, c)

(* Up to MaxOut responses are told apart in _out_buffer.                    *)
Push(w, c) == [w EXCEPT !.conn[c].out = IF @ < MaxOut THEN @ + 1 ELSE @]

SendWithoutWatching(w, c) ==
  IF w.conn[c].statu = "DISCONNECTED" THEN w ELSE Push(w, c)

SendInLoop(w, c) ==
  IF w.conn[c].statu = "DISCONNECTED" THEN w ELSE WatchOutput(Push(w, c), c)

ShutdownReleasesNow(w, c) == ReleaseInLoop(w, c)

ShutdownLeavesIdle(w, c) ==
  LET s == [w EXCEPT !.conn[c].statu = "DISCONNECTING"]
  IN  IF s.conn[c].out > 0 THEN WatchOutput(s, c) ELSE s

(* The message callback has seen what _in_buffer holds and does nothing.    *)
ShutdownInLoop(w, c) ==
  LET s == [w EXCEPT !.conn[c].statu = "DISCONNECTING"]
  IN  IF s.conn[c].out > 0 THEN WatchOutput(s, c) ELSE ReleaseInLoop(s, c)

(* New data: whether there is a response, and whether the callback then     *)
(* calls Shutdown.                                                          *)
Verdict == {m \in [responds : BOOLEAN, closes : BOOLEAN] : m.closes => m.responds}

MessageCallback(w, c, m) ==
  LET t == IF m.responds THEN SendInLoop(w, c) ELSE w
  IN  IF m.closes THEN ShutdownInLoop(t, c) ELSE t

(* A timer found in the wheel, cancelled or not, is only refreshed.         *)
EnableInactiveRelease(w, c) ==
  [w EXCEPT !.conn[c].timer = IF @ = "none" THEN "armed" ELSE @]

Established(w, c) ==
  IF w.conn[c].statu # "CONNECTING" THEN w
  ELSE EnableRead([w EXCEPT !.conn[c].statu = "CONNECTED"], c)

Perform(op, w, c) ==
  CASE op = "established" -> Established(w, c)
    [] op = "enable"      -> EnableInactiveRelease(w, c)
    [] op = "cancel"      -> CancelInactiveRelease(w, c)
    [] op = "send"        -> SendInLoop(w, c)
    [] op = "shutdown"    -> ShutdownInLoop(w, c)
    [] op = "release"     -> ReleaseInLoop(w, c)

-------------------------------------------------------------------------------
(* Accepting: any free descriptor, any connection object not used yet.      *)

Born(w, c, f) ==
  [w EXCEPT !.conn[c].statu = "CONNECTING", !.conn[c].fd = f, !.owner[f] = c]

CanBeBorn(c, f) == conn[c].statu = "absent" /\ owner[f] = None

(* NewConnection in the base loop's thread queues one closure or two.       *)
AcceptInBaseLoop(c, f) ==
  /\ pooled
  /\ accepting = None
  /\ CanBeBorn(c, f)
  /\ Becomes(Born(Now, c, f))
  /\ accepting' = c
  /\ tasks' = IF Inactive THEN Append(tasks, <<"enable", c>>) ELSE tasks
  /\ UNCHANGED <<pooled, socket, functor, actives, others, handling, loc>>

EstablishInBaseLoop ==
  /\ accepting # None
  /\ Becomes(Established(Now, accepting))
  /\ accepting' = None
  /\ UNCHANGED <<pooled, socket, tasks, functor, actives, others, handling, loc>>

QueueEstablished ==
  /\ accepting # None
  /\ tasks' = Append(tasks, <<"established", accepting>>)
  /\ accepting' = None
  /\ UNCHANGED <<pooled, conn, channels, epoll, owner, socket, functor, actives, others,
                 handling, loc>>

(* A descriptor is taken by, or given back by, the rest of the process.     *)
TakeElsewhere(f) ==
  /\ pooled
  /\ owner[f] = None
  /\ owner' = [owner EXCEPT ![f] = Elsewhere]
  /\ UNCHANGED <<conn, channels, epoll, socket, accepting, loopVars>>

CloseElsewhere(f) ==
  /\ owner[f] = Elsewhere
  /\ owner' = [owner EXCEPT ![f] = None]
  /\ epoll' = [epoll EXCEPT ![f] = None]
  /\ UNCHANGED <<conn, channels, socket, accepting, loopVars>>

(* Other threads of the application that hold the connection.               *)
CallFromOutside(op, c) ==
  /\ conn[c].statu # "absent"
  /\ accepting # c
  /\ Len(tasks) < MaxTasks
  /\ tasks' = Append(tasks, <<op, c>>)
  /\ UNCHANGED <<pooled, conn, channels, epoll, owner, socket, accepting, functor, actives,
                 others, handling, loc>>

-------------------------------------------------------------------------------
(* Peers and the network.                                                   *)

Peer(c) ==
  /\ \E f \in Fd : owner[f] = c
  /\ LET s == socket[c]
     IN  \/ /\ s.peer = "open" /\ s.sent < MaxData
            /\ socket' = [socket EXCEPT ![c].rcv = 1, ![c].sent = @ + 1]
         \/ /\ s.peer = "open"
            /\ socket' = [socket EXCEPT ![c].peer = "eof"]
         \/ /\ s.peer # "reset"
            /\ socket' = [socket EXCEPT ![c].peer = "reset"]
  /\ UNCHANGED <<conn, channels, epoll, owner, accepting, loopVars>>

PeerReads(c) ==
  /\ socket[c].full
  /\ socket' = [socket EXCEPT ![c].full = FALSE]
  /\ UNCHANGED <<conn, channels, epoll, owner, accepting, loopVars>>

-------------------------------------------------------------------------------
(* The loop.                                                                *)

Reset(c) == socket[c].peer = "reset"

Ready(f) ==
  IF epoll[f] = None \/ owner[f] \notin Conn THEN {}
  ELSE LET s == socket[owner[f]]
       IN  {e \in {"in", "out", "hup"} :
              \/ e = "in"  /\ e \in epoll[f] /\ (s.rcv > 0 \/ s.peer # "open")
              \/ e = "out" /\ e \in epoll[f] /\ (~s.full \/ s.peer = "reset")
              \/ e = "hup" /\ s.peer = "reset"}

(* epoll reports every ready descriptor; the poller finds its channel.      *)
Poll ==
  /\ loc = "poll"
  /\ actives' = [c \in Conn |-> UNION {Ready(f) : f \in {g \in Fd : channels[g] = c}}]
  /\ others' \in SUBSET (IF pooled THEN {"timer"} ELSE {"timer", "listen"})
  /\ loc' = "handle"
  /\ UNCHANGED <<pooled, conn, channels, epoll, owner, socket, tasks, functor, handling, accepting>>

(* HandleEvent of one active channel begins; the channels are in no         *)
(* particular order.                                                        *)
BeginChannel(c) ==
  /\ loc = "handle"
  /\ handling = None
  /\ actives[c] # {}
  /\ handling' = [conn |-> c, revents |-> actives[c]]
  /\ actives' = [actives EXCEPT ![c] = {}]
  /\ UNCHANGED <<pooled, conn, channels, epoll, owner, socket, tasks, functor, others, accepting, loc>>

Handled(e) ==
  /\ handling' = [handling EXCEPT !.revents = @ \ {e}]
  /\ UNCHANGED <<pooled, tasks, functor, actives, others, accepting, loc>>

Current == handling.conn
HasSocket(c) == owner[conn[c].fd] = c

HandleRead ==
  /\ handling # None
  /\ "in" \in handling.revents
  /\ LET c == Current IN
       \/ /\ HasSocket(c) /\ socket[c].rcv > 0
          /\ \E m \in Verdict : Becomes(MessageCallback(Now, c, m))
          /\ socket' = [socket EXCEPT ![c].rcv = 0]
       \/ /\ HasSocket(c) /\ socket[c].rcv = 0 /\ socket[c].peer = "open"
          /\ UNCHANGED <<conn, channels, epoll, owner, socket>>
       \/ /\ HasSocket(c) => socket[c].rcv = 0 /\ socket[c].peer # "open"
          /\ Becomes(ShutdownInLoop(Now, c))
          /\ UNCHANGED socket
  /\ Handled("in")

Sent(w, c, n) ==
  LET p == [w EXCEPT !.conn[c].out = @ - n]
      s == DisableWrite(p, c)
  IN  IF p.conn[c].out > 0 THEN p
      ELSE IF s.conn[c].statu = "DISCONNECTING" THEN ReleaseInLoop(s, c) ELSE s

(* send() takes what fits: all, or a part, and then the socket is full.  On *)
(* an error the connection is released.  The write branch of HandleEvent    *)
(* excludes the error and hang-up branches.                                 *)
HandleWrite ==
  /\ handling # None
  /\ "in" \notin handling.revents /\ "out" \in handling.revents
  /\ LET c == Current IN
       \/ /\ HasSocket(c) /\ ~Reset(c)
          /\ \E n \in 0 .. conn[c].out, full \in BOOLEAN :
               /\ n = 0 => conn[c].out = 0
               /\ n < conn[c].out => full
               /\ Becomes(Sent(Now, c, n))
               /\ socket' = [socket EXCEPT ![c].full = full]
       \/ /\ ~HasSocket(c) \/ Reset(c)
          /\ Becomes(ReleaseInLoop(Now, c))
          /\ UNCHANGED socket
  /\ handling' = None
  /\ UNCHANGED <<pooled, tasks, functor, actives, others, accepting, loc>>

HandleClose ==
  /\ handling # None
  /\ handling.revents = {"hup"}
  /\ Becomes(ReleaseInLoop(Now, Current))
  /\ UNCHANGED socket
  /\ Handled("hup")

EndChannel ==
  /\ handling # None
  /\ handling.revents = {}
  /\ handling' = None
  /\ UNCHANGED <<pooled, conn, channels, epoll, owner, socket, tasks, functor, actives, others,
                 accepting, loc>>

(* OnTime runs the release of a connection whose timer expires, or drops a  *)
(* cancelled timer.  Its entry is erased after the callback.                *)
ExpireTimer(c) ==
  /\ loc = "handle" /\ handling = None
  /\ "timer" \in others
  /\ conn[c].timer # "none"
  /\ LET w == IF conn[c].timer = "armed" THEN ReleaseInLoop(Now, c) ELSE Now
     IN  Becomes([w EXCEPT !.conn[c].timer = "none"])
  /\ UNCHANGED <<socket, accepting, loopVars>>

(* Acceptor::HandleRead with NewConnection in this loop.                    *)
AcceptInLoop(c, f) ==
  /\ loc = "handle" /\ handling = None
  /\ "listen" \in others
  /\ CanBeBorn(c, f)
  /\ LET b == Born(Now, c, f)
         e == IF Inactive THEN EnableInactiveRelease(b, c) ELSE b
     IN  Becomes(Established(e, c))
  /\ others' = others \ {"listen"}
  /\ UNCHANGED <<pooled, socket, accepting, tasks, functor, actives, handling, loc>>

EndOther(o) ==
  /\ loc = "handle" /\ handling = None
  /\ o \in others
  /\ others' = others \ {o}
  /\ UNCHANGED <<pooled, conn, channels, epoll, owner, socket, accepting, tasks, functor, actives,
                 handling, loc>>

SwapTasks ==
  /\ loc = "handle" /\ handling = None
  /\ actives = Idle /\ others = {}
  /\ functor' = tasks
  /\ tasks' = <<>>
  /\ loc' = "tasks"
  /\ UNCHANGED <<pooled, conn, channels, epoll, owner, socket, accepting, actives, others, handling>>

RunTask ==
  /\ loc = "tasks"
  /\ functor # <<>>
  /\ LET op == Head(functor)[1]
         c  == Head(functor)[2]
     IN  Becomes(Perform(op, Now, c))
  /\ functor' = Tail(functor)
  /\ UNCHANGED <<pooled, socket, accepting, tasks, actives, others, handling, loc>>

EndTasks ==
  /\ loc = "tasks"
  /\ functor = <<>>
  /\ loc' = "poll"
  /\ UNCHANGED <<pooled, conn, channels, epoll, owner, socket, accepting, tasks, functor, actives,
                 others, handling>>

LoopStep ==
  \/ Poll
  \/ \E c \in Conn : BeginChannel(c)
  \/ HandleRead \/ HandleWrite \/ HandleClose \/ EndChannel
  \/ \E o \in others : EndOther(o)
  \/ SwapTasks \/ RunTask \/ EndTasks

Next ==
  \/ LoopStep
  \/ \E c \in Conn : ExpireTimer(c)
  \/ \E c \in Conn, f \in Fd : AcceptInBaseLoop(c, f) \/ AcceptInLoop(c, f)
  \/ QueueEstablished
  \/ \E f \in Fd : TakeElsewhere(f) \/ CloseElsewhere(f)
  \/ \E op \in AppOps, c \in Conn : CallFromOutside(op, c)
  \/ \E c \in Conn : Peer(c) \/ PeerReads(c)

Spec == Init /\ [][Next]_vars

(* The loop is scheduled, the base loop finishes NewConnection, and peers   *)
(* that have not reset the connection keep reading.                         *)
FairSpec ==
  /\ Spec
  /\ WF_vars(LoopStep)
  /\ WF_vars(QueueEstablished)
  /\ \A c \in Conn : WF_vars(PeerReads(c))

-------------------------------------------------------------------------------
Open(c) == conn[c].statu \in {"CONNECTED", "DISCONNECTING"} /\ HasSocket(c)

(* Every established connection is found under its descriptor, and the      *)
(* kernel watches exactly the events its channel asks for: nothing that     *)
(* happens to a closed connection whose descriptor number is in use again   *)
(* removes or alters the watch of the new one (Poller::RemoveEvent and      *)
(* UpdateEvent go by descriptor, Connection::ReleaseInLoop can run twice).  *)
WatchesOwnConnections ==
  \A c \in Conn : Open(c) =>
    channels[conn[c].fd] = c /\ epoll[conn[c].fd] = conn[c].events

(* ... which the worker loops of a pool keep.                               *)
WorkersWatchOwn == pooled => WatchesOwnConnections

(* The poller never keeps a channel, nor the kernel a watch, of a           *)
(* descriptor the connection has closed or another loop has taken.          *)
NoStaleChannel ==
  \A f \in Fd :
    /\ channels[f] # None => owner[f] = channels[f]
    /\ epoll[f] # None => channels[f] # None

(* Output never waits for an event nobody watches: SendInLoop,              *)
(* ShutdownInLoop and HandleWrite agree on EPOLLOUT.  A connection that is  *)
(* shutting down has such output, whose last byte releases it: with nothing *)
(* left to send it is released in the same call, or nothing ever would.     *)
OutputIsWatched ==
  /\ \A c \in Conn : Open(c) /\ conn[c].out > 0 => "out" \in conn[c].events
  /\ \A c \in Conn : conn[c].statu = "DISCONNECTING" => conn[c].out > 0

(* A released connection leaves no armed timer behind, which would keep it  *)
(* alive in the wheel and release it again (ReleaseInLoop cancels it).      *)
NoTimerOnReleased ==
  \A c \in Conn : conn[c].statu = "DISCONNECTED" => conn[c].timer # "armed"

(* Without inactivity timers, a connection whose peer has not reset it is   *)
(* released only when every response has been sent, however the shutdown,   *)
(* the end of the peer's data and partial writes follow each other.         *)
ReleaseSendsAll ==
  [][\A c \in Conn : Open(c) /\ ~Reset(c) /\ conn'[c].statu = "DISCONNECTED"
                        => conn'[c].out = 0]_vars

(* A connection whose peer has closed or reset it is released, its pending  *)
(* responses sent first if the peer takes them.                             *)
PeerCloseReleases ==
  \A c \in Conn : (socket[c].peer # "open") ~> (conn[c].statu = "DISCONNECTED")

===============================================================================
