------------------------------ MODULE TimerWheel ------------------------------
(***************************************************************************)
(* The timer wheel of an event loop: Capacity slots of shared pointers to  *)
(* TimerTasks, and the hand _tick.  A TimerTask is never deleted, it dies  *)
(* when the last slot that holds it is cleared; its destructor runs the    *)
(* callback unless it was cancelled, and then erases its entry of _timers. *)
(* Refreshing pushes one more pointer into a later slot.  The timerfd      *)
(* counts one expiration per second and OnTime turns the hand as often as  *)
(* it reads.  Everything but the kernel's count happens in the loop's      *)
(* thread: in other handlers, when OnTime is not executing, or inside the  *)
(* callback that a dying task runs.                                        *)
(***************************************************************************)
EXTENDS Naturals, FiniteSetsExt

CONSTANTS
  Capacity,   (* _capacity                                                 *)
  Object,     (* addresses of TimerTasks, used again after destruction     *)
  Id,         (* timer ids                                                 *)
  Timeout,    (* the timeouts clients ask for                              *)
  None,       (* no object; no entry                                       *)
  Expired,    (* an entry whose weak pointer cannot be locked any more     *)
  MaxUnread   (* bound of the model: expirations the kernel has counted    *)

ASSUME WheelAssumption ==
  /\ Capacity \in Nat \ {0}
  /\ Timeout \subseteq Nat
  /\ None \notin Object
  /\ Expired \notin Object \cup {None}
  /\ MaxUnread \in Nat

\* None is no id and no count.
ASSUME NoneAssumption == None \notin Id \cup [left : Nat, period : Nat, canceled : BOOLEAN]

VARIABLES
  wheel,    (* _wheel: what each slot holds (order in a slot is left open)  *)
  tick,     (* _tick                                                        *)
  timers,   (* _timers                                                      *)
  task,     (* the TimerTasks: _id, _timeout, _canceled                     *)
  dying,    (* the TimerTask whose destructor is executing                  *)
  times,    (* iterations OnTime has to complete, the current one included  *)
  unread,   (* expirations of the timerfd not read yet                      *)
  age,      (* history: turns of the hand since the task was last set       *)
  elapsed,  (* history: expirations since the task was last set             *)
  backlog   (* history: expirations outstanding when it was last set        *)

wheelVars == <<wheel, tick, timers, task, dying, times>>
history   == <<age, elapsed, backlog>>
vars      == <<wheelVars, unread, history>>

Slot == 0 .. Capacity - 1
Free == [id |-> None, timeout |-> 0, canceled |-> FALSE]

Waiting(o) == \E s \in Slot : o \in wheel[s]
Locked(id) == timers[id] \in Object

Init ==
  /\ wheel = [s \in Slot |-> {}]
  /\ tick = 0
  /\ timers = [id \in Id |-> None]
  /\ task = [o \in Object |-> Free]
  /\ dying = None
  /\ times = 0
  /\ unread = 0
  /\ age = [o \in Object |-> 0]
  /\ elapsed = age
  /\ backlog = age

-------------------------------------------------------------------------------
(* Clients, in the loop's thread: from a handler or a closure, or from the  *)
(* callback of the dying task.                                              *)

MayCall == times = 0 \/ (dying # None /\ ~task[dying].canceled)

PositionAfterHand(n) == (tick + n + 1) % Capacity

Position(n) == (tick + n) % Capacity

Restart(o) ==
  /\ age' = [age EXCEPT ![o] = 0]
  /\ elapsed' = [elapsed EXCEPT ![o] = 0]
  /\ backlog' = [backlog EXCEPT ![o] = times + unread]

(* What callers must see to, for TimerAddInLoop does not check it: the id   *)
(* has no entry, nor is it the dying task's, whose destructor would erase   *)
(* the new entry.  Ids come from a counter (TcpServer.hpp:22), or HasTimer  *)
(* has been asked (Connection.hpp:179).  Inside OnTime no client may push   *)
(* into the slot that is being cleared.                                     *)
TimerAddInLoop(id, n, o) ==
  /\ MayCall
  /\ timers[id] = None
  /\ dying # None => id # task[dying].id /\ Position(n) # tick
  /\ ~Waiting(o) /\ o # dying
  /\ task' = [task EXCEPT ![o] = [id |-> id, timeout |-> n, canceled |-> FALSE]]
  /\ wheel' = [wheel EXCEPT ![Position(n)] = @ \cup {o}]
  /\ timers' = [timers EXCEPT ![id] = o]
  /\ Restart(o)
  /\ UNCHANGED <<tick, dying, times, unread>>

TimerRefreshOfLocked(id) ==
  /\ MayCall
  /\ Locked(id)
  /\ LET o == timers[id] IN
       /\ dying # None => Position(task[o].timeout) # tick
       /\ wheel' = [wheel EXCEPT ![Position(task[o].timeout)] = @ \cup {o}]
       /\ Restart(o)
  /\ UNCHANGED <<tick, timers, task, dying, times, unread>>

TimerRefreshOfExpired(id) ==
  /\ MayCall
  /\ timers[id] = Expired
  /\ timers' = [timers EXCEPT ![id] = None]
  /\ UNCHANGED <<wheel, tick, task, dying, times, unread, history>>

TimerRefreshInLoop(id) == TimerRefreshOfLocked(id) \/ TimerRefreshOfExpired(id)

(* A cancelled task stays in the wheel until its slot is cleared.           *)
TimerCancelInLoop(id) ==
  /\ MayCall
  /\ Locked(id)
  /\ task' = [task EXCEPT ![timers[id]].canceled = TRUE]
  /\ UNCHANGED <<wheel, tick, timers, dying, times, unread, history>>

-------------------------------------------------------------------------------
(* The kernel, and OnTime.                                                  *)

CountExpiration ==
  /\ unread < MaxUnread
  /\ unread' = unread + 1
  /\ elapsed' = [o \in Object |-> IF Waiting(o) \/ o = dying THEN elapsed[o] + 1
                                                                ELSE elapsed[o]]
  /\ UNCHANGED <<wheelVars, age, backlog>>

ReadTimerfdForgetsRest ==
  /\ times = 0
  /\ unread > 0
  /\ times' = 1
  /\ unread' = 0
  /\ UNCHANGED <<wheel, tick, timers, task, dying, history>>

ReadTimerfd ==
  /\ times = 0
  /\ unread > 0
  /\ times' = unread
  /\ unread' = 0
  /\ UNCHANGED <<wheel, tick, timers, task, dying, history>>

ReleaseLeavesPointer(o) ==
  /\ times > 0
  /\ dying = None
  /\ o \in wheel[tick]
  /\ UNCHANGED <<wheel, tick, task, times, unread, history>>

(* RunTimerTask: clear() destroys the pointers of the slot one by one.      *)
ReleasePointer(o) ==
  /\ times > 0
  /\ dying = None
  /\ o \in wheel[tick]
  /\ wheel' = [wheel EXCEPT ![tick] = @ \ {o}]
  /\ UNCHANGED <<tick, task, times, unread, history>>

ReleaseShared(o) ==
  /\ ReleasePointer(o)
  /\ Waiting(o)'
  /\ UNCHANGED <<timers, dying>>

(* The last pointer: the destructor begins, weak pointers are expired.      *)
ReleaseLast(o) ==
  /\ ReleasePointer(o)
  /\ ~Waiting(o)'
  /\ dying' = o
  /\ timers' = [id \in Id |-> IF timers[id] = o THEN Expired ELSE timers[id]]

EndTimerTaskKeepsEntry ==
  /\ dying # None
  /\ dying' = None
  /\ task' = [task EXCEPT ![dying] = Free]
  /\ age' = [age EXCEPT ![dying] = 0]
  /\ elapsed' = [elapsed EXCEPT ![dying] = 0]
  /\ backlog' = [backlog EXCEPT ![dying] = 0]
  /\ UNCHANGED <<wheel, tick, timers, times, unread>>

(* ~TimerTask after the callback, if any: RemoveTimer, and the memory.      *)
EndTimerTask ==
  /\ dying # None
  /\ dying' = None
  /\ timers' = [timers EXCEPT ![task[dying].id] = None]
  /\ task' = [task EXCEPT ![dying] = Free]
  /\ age' = [age EXCEPT ![dying] = 0]
  /\ elapsed' = [elapsed EXCEPT ![dying] = 0]
  /\ backlog' = [backlog EXCEPT ![dying] = 0]
  /\ UNCHANGED <<wheel, tick, times, unread>>

TurnBeforeClear ==
  /\ times > 0
  /\ dying = None
  /\ tick' = (tick + 1) % Capacity
  /\ times' = times - 1
  /\ age' = [o \in Object |-> IF Waiting(o) THEN age[o] + 1 ELSE age[o]]
  /\ UNCHANGED <<wheel, timers, task, dying, unread, elapsed, backlog>>

TurnHand ==
  /\ times > 0
  /\ dying = None
  /\ wheel[tick] = {}
  /\ tick' = (tick + 1) % Capacity
  /\ times' = times - 1
  /\ age' = [o \in Object |-> IF Waiting(o) THEN age[o] + 1 ELSE age[o]]
  /\ UNCHANGED <<wheel, timers, task, dying, unread, elapsed, backlog>>

OnTime ==
  \/ ReadTimerfd
  \/ \E o \in Object : ReleaseShared(o) \/ ReleaseLast(o)
  \/ EndTimerTask
  \/ TurnHand

ClientStep ==
  \/ \E id \in Id, n \in Timeout, o \in Object : TimerAddInLoop(id, n, o)
  \/ \E id \in Id : TimerRefreshInLoop(id) \/ TimerCancelInLoop(id)

Next == OnTime \/ ClientStep \/ CountExpiration

Spec == Init /\ [][Next]_vars

(* The clock runs, and the loop serves its timerfd (EventLoop's             *)
(* BatchNeverGrows); nothing obliges clients to call.                         *)
FairSpec == Spec /\ WF_vars(CountExpiration) /\ WF_vars(OnTime)

-------------------------------------------------------------------------------
TypeOK ==
  /\ wheel \in [Slot -> SUBSET Object]
  /\ tick \in Slot
  /\ timers \in [Id -> Object \cup {None, Expired}]
  /\ task \in [Object -> [id : Id \cup {None}, timeout : Nat, canceled : BOOLEAN]]
  /\ dying \in Object \cup {None}
  /\ times \in Nat
  /\ unread \in Nat
  /\ age \in [Object -> Nat]
  /\ elapsed \in [Object -> Nat]
  /\ backlog \in [Object -> Nat]
  /\ dying # None => times > 0

(* A task dies, and its callback runs, exactly _timeout turns of the hand   *)
(* after it was added or last refreshed, however many pointers to it older  *)
(* refreshes left in other slots (TimerRefreshInLoop, RunTimerTask).        *)
FiresOnTime == dying # None => age[dying] = task[dying].timeout

(* Every task that waits can be refreshed and cancelled under its id, every *)
(* entry of _timers that can be locked is a waiting task of that id, and    *)
(* an expired entry is one that ~TimerTask is about to erase.               *)
EntriesMatchTasks ==
  /\ \A o \in Object : Waiting(o) => task[o].id \in Id /\ timers[task[o].id] = o
  /\ \A id \in Id : Locked(id) => Waiting(timers[id]) /\ task[timers[id]].id = id
  /\ \A id \in Id : timers[id] = Expired => dying # None /\ task[dying].id = id

(* Turns and expirations are accounted for: what a task has waited for, in  *)
(* seconds, differs from the turns it has seen by the expirations that were *)
(* outstanding when it was set and those outstanding now.  So a task fires  *)
(* late by what is unread when it fires, and EARLY by what was unread when  *)
(* it was set (OnTime reads the timerfd only when its channel is handled).  *)
TurnsMatchSeconds ==
  \A o \in Object :
    Waiting(o) \/ o = dying => age[o] + times + unread = elapsed[o] + backlog[o]

(* Slots ahead of the hand, and what a task's last pointer still waits for. *)
Distance(s) == (s + Capacity - tick) % Capacity
Left(o)     == Max({Distance(s) : s \in {r \in Slot : o \in wheel[r]}})

Countdown == INSTANCE CountdownTimers WITH
  NoTimer <- None,
  timer   <- [id \in Id |->
                IF Locked(id)
                THEN [left     |-> Left(timers[id]),
                      period   |-> task[timers[id]].timeout,
                      canceled |-> task[timers[id]].canceled]
                ELSE None],
  firing  <- IF dying = None THEN None ELSE task[dying].id

(* The wheel implements independent countdowns: the furthest slot that      *)
(* holds a task is its count.                                               *)
WheelCountsDown == Countdown!SafeTimers

(* A task that is not refreshed for ever dies: no pointer is forgotten in   *)
(* the wheel, and neither a full wheel nor callbacks stop the hand.         *)
TasksDie == \A o \in Object :
  \/ []<>~Waiting(o)
  \/ []<><<\E id \in Id : TimerRefreshOfLocked(id) /\ timers[id] = o>>_vars

===============================================================================
