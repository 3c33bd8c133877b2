------------------------------- MODULE EventLoop -------------------------------
(***************************************************************************)
(* One EventLoop of the reactor: the thread that owns it runs              *)
(*   while (_isrunning) { Poll; HandleEvent of every active; RunAllTask }  *)
(* while any thread hands it closures with RunInLoop / QueueInLoop, which  *)
(* push under _mutex and then write the eventfd, and while some threads    *)
(* may call Stop.  The eventfd is level triggered: it makes Poll return as *)
(* long as its counter is not zero, so the counter is kept as a BOOLEAN.   *)
(* Other descriptors of the loop appear only as the reason "other" for     *)
(* Poll to return.  A critical section under _mutex is one step: it holds  *)
(* exactly one vector operation.                                           *)
(***************************************************************************)
EXTENDS Naturals, Sequences

CONSTANTS
  Producer,  (* threads other than the loop's own that use the loop        *)
  Owner,     (* the thread the loop was constructed in (_thread_id)        *)
  Stopper,   (* producers that may call Stop                               *)
  Task,      (* the closures handed over                                   *)
  NoTask,    (* no closure is executing                                    *)
  MaxTasks   (* bound of the model: no push onto MaxTasks pending closures *)

ASSUME ThreadAssumption ==
  /\ Owner \notin Producer
  /\ Stopper \subseteq Producer
  /\ NoTask \notin Task
  /\ MaxTasks \in Nat

VARIABLES
  running,   (* _isrunning                                                 *)
  tasks,     (* _tasks                                                     *)
  functor,   (* what is left of RunAllTask's local vector                  *)
  current,   (* the closure RunAllTask is executing                        *)
  eventfd,   (* the eventfd's counter is not zero                          *)
  actives,   (* what Poll returned and the loop has not handled yet        *)
  loc,       (* where the owner's thread is in Start                       *)
  call       (* per thread: idle, or between a change and WakeUpEventFd    *)

loopVars == <<running, tasks, functor, current, eventfd, actives, loc, call>>

Thread   == Producer \cup {Owner}
Location == {"new", "test", "poll", "handle", "swap", "run", "exited"}

Init ==
  /\ running = FALSE
  /\ tasks = <<>>
  /\ functor = <<>>
  /\ current = NoTask
  /\ eventfd = FALSE
  /\ actives = {}
  /\ loc = "new"
  /\ call = [th \in Thread |-> "idle"]

-------------------------------------------------------------------------------
(* Calls any thread makes.  The owner calls QueueInLoop only from inside a  *)
(* closure it executes, and goes on with the closure when the call returns. *)

MayCall(th) ==
  /\ call[th] = "idle"
  /\ th = Owner => current # NoTask

QueueInLoop(th, t) ==
  /\ MayCall(th)
  /\ Len(tasks) < MaxTasks
  /\ tasks' = Append(tasks, t)
  /\ call' = [call EXCEPT ![th] = "wake"]
  /\ UNCHANGED <<running, functor, current, eventfd, actives, loc>>

(* RunInLoop from the owner's thread executes the closure inside the call,  *)
(* which leaves the queue alone; from any other thread it is QueueInLoop.   *)
RunInLoop(th, t) == th # Owner /\ QueueInLoop(th, t)

WakeUpEventFdWithoutWrite(th) ==
  /\ call[th] = "wake"
  /\ call' = [call EXCEPT ![th] = "idle"]
  /\ UNCHANGED <<running, tasks, functor, current, eventfd, actives, loc>>

WakeUpEventFd(th) ==
  /\ call[th] = "wake"
  /\ eventfd' = TRUE
  /\ call' = [call EXCEPT ![th] = "idle"]
  /\ UNCHANGED <<running, tasks, functor, current, actives, loc>>

StopWithoutWake(th) ==
  /\ th \in Stopper
  /\ MayCall(th)
  /\ running' = FALSE
  /\ UNCHANGED <<tasks, functor, current, eventfd, actives, loc, call>>

Stop(th) ==
  /\ th \in Stopper
  /\ MayCall(th)
  /\ running' = FALSE
  /\ call' = [call EXCEPT ![th] = "wake"]
  /\ UNCHANGED <<tasks, functor, current, eventfd, actives, loc>>

-------------------------------------------------------------------------------
(* The owner's thread in Start.                                             *)

Start ==
  /\ loc = "new"
  /\ running' = TRUE
  /\ loc' = "test"
  /\ UNCHANGED <<tasks, functor, current, eventfd, actives, call>>

TestRunning ==
  /\ loc = "test"
  /\ loc' = IF running THEN "poll" ELSE "exited"
  /\ UNCHANGED <<running, tasks, functor, current, eventfd, actives, call>>

(* epoll_wait reports the eventfd, alone or among other descriptors.        *)
PollEventfd ==
  /\ loc = "poll"
  /\ eventfd
  /\ actives' \in {{"event"}, {"event", "other"}}
  /\ loc' = "handle"
  /\ UNCHANGED <<running, tasks, functor, current, eventfd, call>>

(* epoll_wait is interrupted, or reports other descriptors only (the        *)
(* eventfd is silent, or beyond the MAX_EPOLLEVENTS that fit in one call).  *)
PollOther ==
  /\ loc = "poll"
  /\ actives' \in {{}, {"other"}}
  /\ loc' = "handle"
  /\ UNCHANGED <<running, tasks, functor, current, eventfd, call>>

(* HandleEvent of one active channel; the eventfd's is ReadEventfd.         *)
HandleActive(ch) ==
  /\ loc = "handle"
  /\ ch \in actives
  /\ actives' = actives \ {ch}
  /\ eventfd' = (eventfd /\ ch # "event")
  /\ UNCHANGED <<running, tasks, functor, current, loc, call>>

HandleDone ==
  /\ loc = "handle"
  /\ actives = {}
  /\ loc' = "swap"
  /\ UNCHANGED <<running, tasks, functor, current, eventfd, actives, call>>

(* RunAllTask: swap under the lock, then execute without it.                *)
SwapDropsTasks ==
  /\ loc = "swap"
  /\ functor' = IF Len(tasks) > 1 THEN Tail(tasks) ELSE tasks
  /\ tasks' = <<>>
  /\ loc' = "run"
  /\ UNCHANGED <<running, current, eventfd, actives, call>>

SwapTasks ==
  /\ loc = "swap"
  /\ functor' = tasks
  /\ tasks' = <<>>
  /\ loc' = "run"
  /\ UNCHANGED <<running, current, eventfd, actives, call>>

BeginTask ==
  /\ loc = "run"
  /\ current = NoTask
  /\ functor # <<>>
  /\ current' = Head(functor)
  /\ functor' = Tail(functor)
  /\ UNCHANGED <<running, tasks, eventfd, actives, loc, call>>

EndTaskAndTakeNew ==
  /\ current # NoTask
  /\ call[Owner] = "idle"
  /\ current' = NoTask
  /\ functor' = functor \o tasks
  /\ tasks' = <<>>
  /\ UNCHANGED <<running, eventfd, actives, loc, call>>

EndTask ==
  /\ current # NoTask
  /\ call[Owner] = "idle"
  /\ current' = NoTask
  /\ UNCHANGED <<running, tasks, functor, eventfd, actives, loc, call>>

RunDone ==
  /\ loc = "run"
  /\ current = NoTask
  /\ functor = <<>>
  /\ loc' = "test"
  /\ UNCHANGED <<running, tasks, functor, current, eventfd, actives, call>>

OwnerStep ==
  \/ TestRunning
  \/ PollEventfd
  \/ \E ch \in actives : HandleActive(ch)
  \/ HandleDone
  \/ SwapTasks
  \/ BeginTask
  \/ EndTask
  \/ RunDone

Next ==
  \/ \E th \in Producer, t \in Task : RunInLoop(th, t)
  \/ \E t \in Task : QueueInLoop(Owner, t)
  \/ \E th \in Thread : WakeUpEventFd(th)
  \/ \E th \in Stopper : Stop(th)
  \/ Start
  \/ OwnerStep
  \/ PollOther

Spec == Init /\ [][Next]_loopVars

-------------------------------------------------------------------------------
(* Types of the variables, and that closures wait or run only inside        *)
(* RunAllTask: the loop never goes back to Poll with a half-executed batch. *)
TypeOK ==
  /\ running \in BOOLEAN
  /\ tasks \in Seq(Task)
  /\ functor \in Seq(Task)
  /\ current \in Task \cup {NoTask}
  /\ eventfd \in BOOLEAN
  /\ actives \subseteq {"event", "other"}
  /\ loc \in Location
  /\ call \in [Thread -> {"idle", "wake"}]
  /\ (functor # <<>> \/ current # NoTask) => loc = "run"

(* A wake-up is on its way: written already, or about to be.                *)
WakePending == eventfd \/ \E th \in Thread : call[th] = "wake"

(* No wake-up is lost between the push, the write, Poll, ReadEventfd and    *)
(* the swap: whenever the owner may go to sleep with closures queued, or    *)
(* sleeps although Stop has been called, a wake-up is on its way.           *)
NoLostWakeup ==
  /\ tasks # <<>> /\ loc \notin {"handle", "swap"} => WakePending
  /\ ~running /\ loc = "poll" => WakePending

(* The loop implements the abstract task queue: closures are executed one   *)
(* at a time, as often as queued, in queueing order, across the swap of     *)
(* _tasks and the local vector of RunAllTask.                               *)
Queue == INSTANCE TaskQueue WITH pending <- functor \o tasks

QueueSafety == Queue!SafeQueue

(* ... and, unless the loop is stopped, with the abstract queue's fairness: *)
(* every queued closure begins and ends, whatever wake-ups cross.           *)
QueueServed == <>[]running => Queue!Served

(* A batch never grows: closures queued while RunAllTask executes wait for  *)
(* the next round, so closures that queue closures cannot keep the loop     *)
(* away from its descriptors.                                               *)
BatchNeverGrows == [][loc = "run" => Len(functor') <= Len(functor)]_loopVars

===============================================================================
