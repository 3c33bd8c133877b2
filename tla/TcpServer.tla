------------------------------- MODULE TcpServer -------------------------------
(***************************************************************************)
(* A running TcpServer: the base loop accepts connections, chooses a loop  *)
(* for each from the LoopThreadPool, hands it the closures that set the    *)
(* connection up, and enters it in _conns; any thread adds timer tasks.    *)
(* Every loop is a thread with a queue of closures (EventLoop has the      *)
(* queue's workings); of a connection only what the server sees is kept    *)
(* (Connection has the rest).  With _thread_count = 0 the base loop        *)
(* serves the connections itself: closures for it run in the call, and the *)
(* connected callback runs inside NewConnection.                           *)
(***************************************************************************)
EXTENDS Integers, Sequences

CONSTANTS
  Conn,       (* connection objects                                        *)
  Base,       (* the base loop                                             *)
  None,       (* no connection                                             *)
  Counts,     (* the thread counts considered                              *)
  Inactive,   (* the server was told to EnableInactiveRelease              *)
  MaxTimers   (* bound of the model: timer tasks added                     *)

ASSUME ServerAssumption ==
  /\ Base \notin Nat
  /\ None \notin Conn
  /\ Counts \subseteq Nat
  /\ Inactive \in BOOLEAN
  /\ MaxTimers \in Nat

VARIABLES
  threadCount,  (* _thread_count: never changes after Start                *)
  nextIdx,      (* _next_idx                                               *)
  nextId,       (* _next_id                                                *)
  conns,        (* _conns, a set of pairs <<id, connection>>               *)
  accepting,    (* the connection NewConnection is busy with, or None      *)
  step,         (* what NewConnection does next                            *)
  statu,        (* per connection: _statu                                  *)
  id,           (* per connection: _conn_id                                *)
  home,         (* per connection: _loop                                   *)
  timers,       (* per loop: the ids and the users of its wheel's tasks    *)
  queue,        (* per loop: the closures handed over                      *)
  order,        (* history: the connections in the order they came in      *)
  added         (* history: the number of timer tasks added                *)

poolVars   == <<threadCount, nextIdx>>
newVars    == <<conns, accepting, step, id, home, order>>
vars       == <<poolVars, nextId, newVars, statu, timers, queue, added>>

Worker == IF threadCount = 0 THEN {} ELSE 0 .. threadCount - 1
Loop   == {Base} \cup Worker

Init ==
  /\ threadCount \in Counts
  /\ nextIdx = 0 /\ nextId = 0
  /\ conns = {}
  /\ accepting = None /\ step = "done"
  /\ statu = [c \in Conn |-> "absent"]
  /\ id = [c \in Conn |-> 0]
  /\ home = [c \in Conn |-> Base]
  /\ timers = [l \in Loop |-> {}]
  /\ queue = [l \in Loop |-> <<>>]
  /\ order = <<>>
  /\ added = 0

-------------------------------------------------------------------------------
(* What the closures do to a connection, in its loop.                       *)

EnableInBaseLoop(c) ==
  /\ timers' = [timers EXCEPT ![Base] = @ \cup {<<id[c], c>>}]
  /\ UNCHANGED statu

EnableInactiveReleaseInLoop(c) ==
  /\ timers' = [timers EXCEPT ![home[c]] = @ \cup {<<id[c], c>>}]
  /\ UNCHANGED statu

EstablishedInLoop(c) ==
  /\ statu' = [statu EXCEPT ![c] = IF @ = "CONNECTING" THEN "CONNECTED" ELSE @]
  /\ UNCHANGED timers

(* RunInLoop from the base loop's thread.                                   *)
RunInLoop(op, c) ==
  IF home[c] = Base
  THEN /\ IF op = "enable" THEN EnableInactiveReleaseInLoop(c) ELSE EstablishedInLoop(c)
       /\ UNCHANGED queue
  ELSE /\ queue' = [queue EXCEPT ![home[c]] = Append(@, <<op, c>>)]
       /\ UNCHANGED <<statu, timers>>

-------------------------------------------------------------------------------
(* NewConnection, called by the acceptor in the base loop.                  *)

NextIndex == nextIdx' = IF threadCount = 0 THEN nextIdx ELSE (nextIdx + 1) % threadCount

(* LoopThreadPool::NextLoop                                                 *)
NextLoop(c) ==
  /\ NextIndex
  /\ home' = [home EXCEPT ![c] = IF threadCount = 0 THEN Base ELSE nextIdx']

TakeLastId(c) ==
  /\ UNCHANGED nextId
  /\ id' = [id EXCEPT ![c] = nextId]

TakeId(c) ==
  /\ nextId' = nextId + 1
  /\ id' = [id EXCEPT ![c] = nextId']

Construct(c) ==
  /\ accepting = None
  /\ statu[c] = "absent"
  /\ NextLoop(c)
  /\ TakeId(c)
  /\ statu' = [statu EXCEPT ![c] = "CONNECTING"]
  /\ accepting' = c
  /\ step' = IF Inactive THEN "enable" ELSE "establish"
  /\ order' = Append(order, c)
  /\ UNCHANGED <<threadCount, conns, timers, queue, added>>

Enable ==
  /\ accepting # None /\ step = "enable"
  /\ RunInLoop("enable", accepting)
  /\ step' = "establish"
  /\ UNCHANGED <<poolVars, nextId, conns, accepting, id, home, order, added>>

EstablishAndForget ==
  /\ accepting # None /\ step = "establish"
  /\ step' = "insert"
  /\ UNCHANGED <<poolVars, nextId, conns, accepting, id, home, order, added, statu, timers, queue>>

Establish ==
  /\ accepting # None /\ step = "establish"
  /\ RunInLoop("established", accepting)
  /\ step' = "insert"
  /\ UNCHANGED <<poolVars, nextId, conns, accepting, id, home, order, added>>

(* insert leaves an entry that has the id already.                          *)
Insert ==
  /\ accepting # None /\ step = "insert"
  /\ conns' = IF \E e \in conns : e[1] = nextId THEN conns
                                                ELSE conns \cup {<<nextId, accepting>>}
  /\ accepting' = None /\ step' = "done"
  /\ UNCHANGED <<poolVars, nextId, id, home, order, added, statu, timers, queue>>

-------------------------------------------------------------------------------
(* Code of the user runs in the base loop's thread: a callback of a         *)
(* connection the base loop serves, an expiring timer task, or what comes   *)
(* before Start.  Inside NewConnection it is the connected callback, called *)
(* by EstablishedInLoop when the base loop serves the connection.           *)
UserCodeInBase == accepting = None \/ (step = "insert" /\ home[accepting] = Base)

AddTimerTaskWithLastId ==
  /\ timers' = [timers EXCEPT ![Base] = @ \cup {<<nextId, None>>}]
  /\ UNCHANGED <<nextId, statu>>

AddTimerTaskInLoop ==
  /\ nextId' = nextId + 1
  /\ timers' = [timers EXCEPT ![Base] = @ \cup {<<nextId', None>>}]
  /\ UNCHANGED statu

(* A timer task is added by another thread, which hands the closure over,   *)
(* or in the base loop's own thread, where it runs in the call.             *)
HandOverTimerTask ==
  /\ queue' = [queue EXCEPT ![Base] = Append(@, <<"timer", None>>)]
  /\ UNCHANGED <<nextId, statu, timers>>

AddTimerTask ==
  /\ added < MaxTimers
  /\ added' = added + 1
  /\ \/ HandOverTimerTask
     \/ UserCodeInBase /\ AddTimerTaskInLoop /\ UNCHANGED queue
  /\ UNCHANGED <<poolVars, newVars>>

-------------------------------------------------------------------------------
(* The loops.                                                               *)

(* RunAllTask: no queued closure runs inside NewConnection.                 *)
Execute(l) ==
  /\ queue[l] # <<>>
  /\ l = Base => accepting = None
  /\ queue' = [queue EXCEPT ![l] = Tail(@)]
  /\ LET op == Head(queue[l])[1]
         c  == Head(queue[l])[2]
     IN  \/ op = "timer"       /\ AddTimerTaskInLoop
         \/ op = "enable"      /\ EnableInactiveReleaseInLoop(c) /\ UNCHANGED nextId
         \/ op = "established" /\ EstablishedInLoop(c)           /\ UNCHANGED nextId
  /\ UNCHANGED <<poolVars, newVars, added>>

(* ReleaseInLoop, by an event of the connection, its user or its timer,     *)
(* which may expire before EstablishedInLoop has been executed.             *)
(* _server_closed_callback is not set by NewConnection.                     *)
ReleaseInLoop(c) ==
  /\ \/ statu[c] = "CONNECTED"
     \/ statu[c] = "CONNECTING" /\ <<id[c], c>> \in timers[home[c]]
  /\ home[c] = Base => UserCodeInBase
  /\ statu' = [statu EXCEPT ![c] = "DISCONNECTED"]
  /\ timers' = [timers EXCEPT ![home[c]] = @ \ {<<id[c], c>>}]
  /\ UNCHANGED <<poolVars, nextId, newVars, queue, added>>

(* A timer task of a user expires.                                          *)
Expire ==
  /\ accepting = None
  /\ \E e \in timers[Base] : e[2] = None /\ timers' = [timers EXCEPT ![Base] = @ \ {e}]
  /\ UNCHANGED <<poolVars, nextId, newVars, statu, queue, added>>

Next ==
  \/ \E c \in Conn : Construct(c)
  \/ Enable \/ Establish \/ Insert
  \/ AddTimerTask
  \/ \E l \in Loop : Execute(l)
  \/ \E c \in Conn : ReleaseInLoop(c)
  \/ Expire

Spec == Init /\ [][Next]_vars

(* Each loop's thread is scheduled; nothing makes connections come or go.   *)
FairSpec ==
  /\ Spec
  /\ WF_vars(Enable \/ Establish \/ Insert)
  /\ \A l \in {Base} \cup UNION {0 .. n : n \in Counts} : WF_vars(l \in Loop /\ Execute(l))

-------------------------------------------------------------------------------
Closure == ({"enable", "established"} \X Conn) \cup {<<"timer", None>>}

TypeOK ==
  /\ threadCount \in Counts
  /\ nextIdx \in Nat /\ nextId \in Nat
  /\ conns \subseteq Nat \X Conn
  /\ accepting \in Conn \cup {None}
  /\ step \in {"enable", "establish", "insert", "done"}
  /\ statu \in [Conn -> {"absent", "CONNECTING", "CONNECTED", "DISCONNECTED"}]
  /\ id \in [Conn -> Nat]
  /\ home \in [Conn -> Loop]
  /\ timers \in [Loop -> SUBSET (Nat \X (Conn \cup {None}))]
  /\ queue \in [Loop -> Seq(Closure)]
  /\ order \in Seq(Conn)
  /\ added \in 0 .. MaxTimers

(* Of any _thread_count connections in a row no two go to the same loop     *)
(* (LoopThreadPool::NextLoop): the loops' shares differ by one at most.     *)
RoundRobin ==
  \A i, j \in 1 .. Len(order) :
    i < j /\ threadCount > 0 /\ home[order[i]] = home[order[j]] => j - i >= threadCount

(* Connections and timer tasks draw their ids from one counter: no two      *)
(* tasks of a wheel, and no two entries of _conns, have the same id.        *)
IdsDistinct ==
  /\ \A l \in Loop : \A e, f \in timers[l] : e[1] = f[1] => e = f
  /\ \A e, f \in conns : e[1] = f[1] => e = f

(* A connection that is served is held by _conns, unless NewConnection is   *)
(* about to enter it: the poller's channel refers to it by a plain pointer. *)
(* It is held under its own id; only if the base loop serves it may the key *)
(* be another, drawn by timer tasks its connected callback added before     *)
(* NewConnection read _next_id again.                                       *)
ConnectedIsHeld ==
  \A c \in Conn : statu[c] = "CONNECTED" =>
    \/ accepting = c
    \/ \E e \in conns : e[2] = c /\ (e[1] = id[c] \/ home[c] = Base)

(* A connection that is served has its inactivity timer already.            *)
ConnectedIsTimed ==
  \A c \in Conn : Inactive /\ statu[c] = "CONNECTED" => <<id[c], c>> \in timers[home[c]]

(* Every connection that comes in is established in its loop, unless its    *)
(* inactivity timer releases it first.                                      *)
EveryConnectionServed ==
  \A c \in Conn : (statu[c] = "CONNECTING") ~> (statu[c] \in {"CONNECTED", "DISCONNECTED"})

===============================================================================
