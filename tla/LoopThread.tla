------------------------------- MODULE LoopThread -------------------------------
(***************************************************************************)
(* A LoopThread: an object that starts a thread, has an EventLoop built    *)
(* and run in it, and publishes the loop's address through _loop, guarded  *)
(* by _mutex and _cond.  Its client, one other thread, may take the loop   *)
(* with GetLoop and destroy the LoopThread, which stops the loop and joins *)
(* the thread.  Meanwhile it and other threads, to which it passes the     *)
(* loop, hand it closures.  The loop itself is EventLoop, with the new     *)
(* thread as Owner.                                                        *)
(***************************************************************************)
EXTENDS EventLoop

CONSTANTS
  Client    (* the thread that constructs and destroys the LoopThread      *)

ASSUME ClientAssumption ==
  /\ Client \in Producer
  /\ Stopper = {Client}

VARIABLES
  published,  (* _loop is not nullptr                                      *)
  mutex,      (* ~LoopThread holds _mutex; every other critical section    *)
              (* is a single step                                          *)
  entry,      (* where the thread is in ThreadEntry                        *)
  client,     (* where the client is in GetLoop or ~LoopThread             *)
  served      (* a closure of the client has been executed                 *)

threadVars == <<published, mutex, entry, client, served>>
vars == <<loopVars, threadVars>>

ThreadInit ==
  /\ Init
  /\ published = FALSE
  /\ mutex = FALSE
  /\ entry = "begin"
  /\ client = "constructed"
  /\ served = FALSE

-------------------------------------------------------------------------------
(* ThreadEntry, in the new thread.                                          *)

BuildLoop ==
  /\ entry = "begin"
  /\ entry' = "built"
  /\ UNCHANGED <<loopVars, published, mutex, client, served>>

Publish ==
  /\ entry = "built"
  /\ ~mutex
  /\ published' = TRUE
  /\ entry' = "published"
  /\ UNCHANGED <<loopVars, mutex, client, served>>

EnterStart ==
  /\ entry = "published"
  /\ Start
  /\ entry' = "running"
  /\ UNCHANGED <<published, mutex, client, served>>

RunLoop ==
  /\ entry = "running"
  /\ OwnerStep
  /\ served' = (served \/ (current # NoTask /\ current' = NoTask))
  /\ UNCHANGED <<published, mutex, entry, client>>

WakeSelf ==
  /\ WakeUpEventFd(Owner)
  /\ UNCHANGED threadVars

WithdrawUnlocked ==
  /\ entry = "running"
  /\ loc = "exited"
  /\ published' = FALSE
  /\ entry' = "withdrawn"
  /\ UNCHANGED <<loopVars, mutex, client, served>>

Withdraw ==
  /\ entry = "running"
  /\ loc = "exited"
  /\ ~mutex
  /\ published' = FALSE
  /\ entry' = "withdrawn"
  /\ UNCHANGED <<loopVars, mutex, client, served>>

(* The end of ThreadEntry: ~EventLoop, and the thread ends.                 *)
LeaveEntry ==
  /\ entry = "withdrawn"
  /\ entry' = "ended"
  /\ UNCHANGED <<loopVars, published, mutex, client, served>>

-------------------------------------------------------------------------------
(* The client.                                                              *)

GetLoop ==
  /\ client = "constructed"
  /\ published
  /\ ~mutex
  /\ client' = "using"
  /\ UNCHANGED <<loopVars, published, mutex, entry, served>>

UseLoop ==
  /\ client = "using"
  /\ \E th \in Producer, t \in Task : RunInLoop(th, t)
  /\ UNCHANGED threadVars

WakeBy(th) ==
  /\ WakeUpEventFd(th)
  /\ UNCHANGED threadVars

(* ~LoopThread, called when no thread is inside a call on the loop any      *)
(* more, takes _mutex ...                                                   *)
Destroy ==
  /\ client \in {"constructed", "using"}
  /\ \A th \in Producer : call[th] = "idle"
  /\ ~mutex
  /\ mutex' = TRUE
  /\ client' = "locked"
  /\ UNCHANGED <<loopVars, published, entry, served>>

(* ... calls Stop if there is a loop, which also writes the eventfd ...     *)
StopLoop ==
  /\ client = "locked"
  /\ published
  /\ Stop(Client)
  /\ client' = "unlock"
  /\ UNCHANGED <<published, mutex, entry, served>>

NoLoopToStop ==
  /\ client = "locked"
  /\ ~published
  /\ client' = "unlock"
  /\ UNCHANGED <<loopVars, published, mutex, entry, served>>

(* ... releases _mutex and joins the thread.                                *)
UnlockBeforeJoin ==
  /\ client = "unlock"
  /\ call[Client] = "idle"
  /\ mutex' = FALSE
  /\ client' = "joining"
  /\ UNCHANGED <<loopVars, published, entry, served>>

Join ==
  /\ client = "joining"
  /\ entry = "ended"
  /\ client' = "joined"
  /\ UNCHANGED <<loopVars, published, mutex, entry, served>>

-------------------------------------------------------------------------------
EntryStep ==
  \/ BuildLoop
  \/ Publish
  \/ EnterStart
  \/ RunLoop
  \/ WakeSelf
  \/ Withdraw
  \/ LeaveEntry

DestructorStep ==
  \/ WakeBy(Client)
  \/ StopLoop
  \/ NoLoopToStop
  \/ UnlockBeforeJoin
  \/ Join

ThreadNext ==
  \/ EntryStep
  \/ (entry = "running" /\ \E t \in Task : QueueInLoop(Owner, t)) /\ UNCHANGED threadVars
  \/ (entry = "running" /\ PollOther) /\ UNCHANGED threadVars
  \/ GetLoop
  \/ UseLoop
  \/ Destroy
  \/ DestructorStep
  \/ \E th \in Producer \ {Client} : WakeBy(th)

(* All threads are scheduled; the client need not use or destroy the       *)
(* object, but a destructor that has begun goes on.                         *)
ThreadSpec ==
  /\ ThreadInit /\ [][ThreadNext]_vars
  /\ WF_vars(EntryStep)
  /\ WF_vars(DestructorStep)
  /\ \A th \in Producer \ {Client} : WF_vars(WakeBy(th))

-------------------------------------------------------------------------------
(* The destructor calls Stop, up to its write of the eventfd, on a loop     *)
(* that exists: the thread cannot destroy the loop in the middle of it      *)
(* (LoopThread.hpp, ~LoopThread and ThreadEntry under _mutex).              *)
StopOnLiveLoop ==
  client = "unlock" /\ call[Client] = "wake" => entry \notin {"withdrawn", "ended"}

(* A destructor that is called after the loop has executed a closure gets   *)
(* the thread to end: its Stop is seen, wherever the loop is by then.       *)
JoinReturnsOnceServed == (client = "locked" /\ served) ~> (client = "joined")

(* A destructor that is called at any time gets the thread to end.          *)
JoinReturns == (client = "locked") ~> (client = "joined")

===============================================================================
