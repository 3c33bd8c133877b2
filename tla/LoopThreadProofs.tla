--------------------------- MODULE LoopThreadProofs ---------------------------
(***************************************************************************)
(* Proofs about EventLoop and LoopThread, for any threads, any closures and *)
(* any bound on the queue.  The loop comes first: the loop of a LoopThread  *)
(* is an EventLoop, so what is proved of one holds of the other, and its    *)
(* destructor never stops a loop that is gone.                              *)
(***************************************************************************)
EXTENDS LoopThread, SequenceTheorems, TLAPS

-------------------------------------------------------------------------------
(* EventLoop.                                                               *)

(* The steps of the owner's thread, of the callers, and of the environment, *)
(* by name: every invariance proof below splits on these.                   *)
LEMMA NextCases ==
  ASSUME [Next]_loopVars
  PROVE  \/ \E th \in Thread, t \in Task : QueueInLoop(th, t)
         \/ \E th \in Thread : WakeUpEventFd(th)
         \/ \E th \in Thread : Stop(th)
         \/ Start \/ TestRunning \/ PollEventfd \/ PollOther
         \/ \E ch \in actives : HandleActive(ch)
         \/ HandleDone \/ SwapTasks \/ BeginTask \/ EndTask \/ RunDone
         \/ UNCHANGED loopVars
  BY ThreadAssumption DEF Next, OwnerStep, RunInLoop, Thread

(* The variables keep their types, and closures wait or run only inside     *)
(* RunAllTask (EventLoop.hpp, Start and RunAllTask).                        *)
THEOREM TypeCorrect == Spec => []TypeOK
<1>1. Init => TypeOK
  BY EmptySeq DEF Init, TypeOK, Location
<1>2. TypeOK /\ [Next]_loopVars => TypeOK'
  <2> SUFFICES ASSUME TypeOK, [Next]_loopVars PROVE TypeOK'
    OBVIOUS
  <2> USE DEF TypeOK, Location
  <2>1. ASSUME NEW th \in Thread, NEW t \in Task, QueueInLoop(th, t)
        PROVE  TypeOK'
    <3>1. tasks' \in Seq(Task)
      BY <2>1, AppendProperties DEF QueueInLoop
    <3>2. QED
      BY <2>1, <3>1 DEF QueueInLoop
  <2>2. ASSUME NEW th \in Thread, WakeUpEventFd(th) PROVE TypeOK'
    BY <2>2 DEF WakeUpEventFd
  <2>3. ASSUME NEW th \in Thread, Stop(th) PROVE TypeOK'
    BY <2>3 DEF Stop
  <2>4. CASE Start
    BY <2>4 DEF Start
  <2>5. CASE TestRunning
    BY <2>5 DEF TestRunning
  <2>6. CASE PollEventfd
    BY <2>6 DEF PollEventfd
  <2>7. CASE PollOther
    BY <2>7 DEF PollOther
  <2>8. ASSUME NEW ch \in actives, HandleActive(ch) PROVE TypeOK'
    BY <2>8 DEF HandleActive
  <2>9. CASE HandleDone
    BY <2>9 DEF HandleDone
  <2>10. CASE SwapTasks
    BY <2>10, EmptySeq DEF SwapTasks
  <2>11. CASE BeginTask
    <3>1. Head(functor) \in Task /\ Tail(functor) \in Seq(Task)
      BY <2>11, HeadTailProperties DEF BeginTask
    <3>2. QED
      BY <2>11, <3>1 DEF BeginTask
  <2>12. CASE EndTask
    BY <2>12 DEF EndTask
  <2>13. CASE RunDone
    BY <2>13 DEF RunDone
  <2>14. CASE UNCHANGED loopVars
    BY <2>14 DEF loopVars
  <2>15. QED
    BY NextCases, <2>1, <2>2, <2>3, <2>4, <2>5, <2>6, <2>7, <2>8, <2>9,
       <2>10, <2>11, <2>12, <2>13, <2>14
<1>3. QED
  BY <1>1, <1>2, PTL DEF Spec

(* No wake-up is lost: the eventfd's counter outlives the race between the  *)
(* write in QueueInLoop or Stop and the owner's ReadEventfd, because the    *)
(* read comes before the swap and the push before the write.                *)
THEOREM LostWakeupFree == Spec => []NoLostWakeup
<1>1. Init => NoLostWakeup
  BY DEF Init, NoLostWakeup
<1>2. TypeOK /\ NoLostWakeup /\ [Next]_loopVars => NoLostWakeup'
  <2> SUFFICES ASSUME TypeOK, NoLostWakeup, [Next]_loopVars
               PROVE  NoLostWakeup'
    OBVIOUS
  <2> USE DEF TypeOK, NoLostWakeup, WakePending
  <2>1. ASSUME NEW th \in Thread, NEW t \in Task, QueueInLoop(th, t)
        PROVE  NoLostWakeup'
    BY <2>1 DEF QueueInLoop
  <2>2. ASSUME NEW th \in Thread, WakeUpEventFd(th) PROVE NoLostWakeup'
    BY <2>2 DEF WakeUpEventFd
  <2>3. ASSUME NEW th \in Thread, Stop(th) PROVE NoLostWakeup'
    BY <2>3 DEF Stop
  <2>4. CASE Start
    BY <2>4 DEF Start
  <2>5. CASE TestRunning
    BY <2>5 DEF TestRunning
  <2>6. CASE PollEventfd
    BY <2>6 DEF PollEventfd
  <2>7. CASE PollOther
    BY <2>7 DEF PollOther
  <2>8. ASSUME NEW ch \in actives, HandleActive(ch) PROVE NoLostWakeup'
    BY <2>8 DEF HandleActive
  <2>9. CASE HandleDone
    BY <2>9 DEF HandleDone
  <2>10. CASE SwapTasks
    BY <2>10 DEF SwapTasks
  <2>11. CASE BeginTask
    BY <2>11 DEF BeginTask
  <2>12. CASE EndTask
    BY <2>12 DEF EndTask
  <2>13. CASE RunDone
    BY <2>13 DEF RunDone
  <2>14. CASE UNCHANGED loopVars
    BY <2>14 DEF loopVars
  <2>15. QED
    BY NextCases, <2>1, <2>2, <2>3, <2>4, <2>5, <2>6, <2>7, <2>8, <2>9,
       <2>10, <2>11, <2>12, <2>13, <2>14
<1>3. QED
  BY <1>1, <1>2, TypeCorrect, PTL DEF Spec

-------------------------------------------------------------------------------
(* A batch never grows: only SwapTasks, which leaves "swap", and BeginTask, *)
(* which shortens it, change RunAllTask's local vector (EventLoop.hpp,      *)
(* RunAllTask).                                                             *)
THEOREM BatchBounded == Spec => BatchNeverGrows
<1>1. TypeOK /\ [Next]_loopVars => [loc = "run" => Len(functor') <= Len(functor)]_loopVars
  <2> SUFFICES ASSUME TypeOK, [Next]_loopVars, loc = "run"
               PROVE  Len(functor') <= Len(functor)
    OBVIOUS
  <2>1. functor \in Seq(Task) /\ Len(functor) \in Nat
    BY DEF TypeOK
  <2>2. functor' = functor \/ (functor # <<>> /\ functor' = Tail(functor))
    BY NextCases DEF QueueInLoop, WakeUpEventFd, Stop, Start, TestRunning,
       PollEventfd, PollOther, HandleActive, HandleDone, SwapTasks, BeginTask,
       EndTask, RunDone, loopVars
  <2>3. CASE functor' = functor
    BY <2>1, <2>3
  <2>4. CASE functor # <<>> /\ functor' = Tail(functor)
    BY <2>1, <2>4, HeadTailProperties
  <2>5. QED
    BY <2>2, <2>3, <2>4
<1>2. QED
  BY <1>1, TypeCorrect, PTL DEF Spec, BatchNeverGrows

(* Appending to the second of two concatenated sequences.                   *)
LEMMA AppendToConcat ==
  ASSUME NEW S, NEW a \in Seq(S), NEW b \in Seq(S), NEW x \in S
  PROVE  a \o Append(b, x) = Append(a \o b, x)
<1>1. Append(b, x) = b \o <<x>> /\ Append(a \o b, x) = (a \o b) \o <<x>>
  BY AppendIsConcat, ConcatProperties
<1>2. a \o (b \o <<x>>) = (a \o b) \o <<x>>
  BY ConcatAssociative
<1>3. QED
  BY <1>1, <1>2

(* Taking the head of the first of two concatenated sequences.              *)
LEMMA HeadTailOfConcat ==
  ASSUME NEW S, NEW a \in Seq(S), NEW b \in Seq(S), a # <<>>
  PROVE  /\ a \o b # <<>>
         /\ Head(a \o b) = Head(a)
         /\ Tail(a \o b) = Tail(a) \o b
<1>1. a \o b \in Seq(S) /\ Len(a) > 0
  BY ConcatProperties, EmptySeq
<1>2. a \o b # <<>> /\ Head(a \o b) = Head(a)
  BY <1>1
<1>3. Tail(a \o b) \in Seq(S) /\ Tail(a) \in Seq(S) /\ Tail(a) \o b \in Seq(S)
  BY <1>1, <1>2, HeadTailProperties, ConcatProperties
<1>4. Len(Tail(a \o b)) = Len(Tail(a) \o b)
  BY <1>1, <1>2, <1>3, HeadTailProperties, ConcatProperties
<1>5. \A i \in 1 .. Len(Tail(a \o b)) : Tail(a \o b)[i] = (Tail(a) \o b)[i]
  BY <1>1, <1>2, <1>3, HeadTailProperties, ConcatProperties
<1>6. QED
  BY <1>2, <1>3, <1>4, <1>5, SeqEqual

(* The loop implements the abstract task queue: the queue is the local      *)
(* vector of RunAllTask followed by _tasks, so that the swap, the eventfd   *)
(* and epoll are stuttering steps (EventLoop.hpp, RunAllTask, QueueInLoop). *)
THEOREM LoopImplementsQueue == Spec => QueueSafety
<1> DEFINE pending == functor \o tasks
<1>1. Init => Queue!AbstractInit
  BY ConcatEmptySeq, EmptySeq DEF Init, Queue!AbstractInit
<1>2. TypeOK /\ [Next]_loopVars => [Queue!AbstractNext]_(Queue!abstractVars)
  <2> SUFFICES ASSUME TypeOK, [Next]_loopVars
               PROVE  Queue!AbstractNext \/ UNCHANGED Queue!abstractVars
    OBVIOUS
  <2>1. tasks \in Seq(Task) /\ functor \in Seq(Task)
    BY DEF TypeOK
  <2> USE DEF Queue!AbstractNext, Queue!abstractVars
  <2>2. ASSUME NEW th \in Thread, NEW t \in Task, QueueInLoop(th, t)
        PROVE  Queue!Submit(t)
    <3>1. functor \o Append(tasks, t) = Append(functor \o tasks, t)
      BY <2>1, AppendToConcat
    <3>2. QED
      BY <2>2, <3>1 DEF QueueInLoop, Queue!Submit
  <2>3. CASE SwapTasks
    <3>1. functor = <<>>
      BY <2>3 DEF SwapTasks, TypeOK
    <3>2. functor' \o tasks' = functor \o tasks
      BY <2>1, <2>3, <3>1, ConcatEmptySeq DEF SwapTasks
    <3>3. QED
      BY <2>3, <3>2 DEF SwapTasks
  <2>4. CASE BeginTask
    <3>1. /\ functor \o tasks # <<>>
          /\ Head(functor \o tasks) = Head(functor)
          /\ Tail(functor \o tasks) = Tail(functor) \o tasks
      BY <2>1, <2>4, HeadTailOfConcat DEF BeginTask
    <3>2. QED
      BY <2>4, <3>1 DEF BeginTask, Queue!Begin
  <2>5. CASE EndTask
    BY <2>5 DEF EndTask, Queue!End
  <2>6. ASSUME \/ \E th \in Thread : WakeUpEventFd(th)
               \/ \E th \in Thread : Stop(th)
               \/ Start \/ TestRunning \/ PollEventfd \/ PollOther
               \/ \E ch \in actives : HandleActive(ch)
               \/ HandleDone \/ RunDone \/ UNCHANGED loopVars
        PROVE  UNCHANGED Queue!abstractVars
    BY <2>6 DEF WakeUpEventFd, Stop, Start, TestRunning, PollEventfd, PollOther,
       HandleActive, HandleDone, RunDone, loopVars
  <2>7. QED
    BY NextCases, <2>2, <2>3, <2>4, <2>5, <2>6
<1>3. QED
  BY <1>1, <1>2, TypeCorrect, PTL DEF Spec, QueueSafety, Queue!SafeQueue

-------------------------------------------------------------------------------
(* LoopThread.                                                              *)

(* The steps, by name.                                                      *)
LEMMA ThreadCases ==
  ASSUME [ThreadNext]_vars
  PROVE  \/ BuildLoop \/ Publish \/ EnterStart \/ RunLoop \/ WakeSelf
         \/ Withdraw \/ LeaveEntry
         \/ entry = "running" /\ (\E t \in Task : QueueInLoop(Owner, t)) /\ UNCHANGED threadVars
         \/ entry = "running" /\ PollOther /\ UNCHANGED threadVars
         \/ GetLoop \/ UseLoop \/ Destroy
         \/ \E th \in Producer : WakeBy(th)
         \/ StopLoop \/ NoLoopToStop \/ UnlockBeforeJoin \/ Join
         \/ UNCHANGED vars
  BY ClientAssumption DEF ThreadNext, EntryStep, DestructorStep

-------------------------------------------------------------------------------
(* Whatever the client does with it, the loop of a LoopThread takes only    *)
(* steps of an EventLoop: Start once, Stop by the client alone, closures of *)
(* any producer (LoopThread.hpp, ThreadEntry and ~LoopThread).              *)
THEOREM ThreadRunsLoop == ThreadSpec => Spec
<1>1. ThreadInit => Init
  BY DEF ThreadInit
<1>2. [ThreadNext]_vars => [Next]_loopVars
  <2> SUFFICES ASSUME [ThreadNext]_vars PROVE [Next]_loopVars
    OBVIOUS
  <2> USE DEF Next
  <2>1. CASE BuildLoop \/ Publish \/ Withdraw \/ LeaveEntry \/ GetLoop \/ Destroy
             \/ NoLoopToStop \/ UnlockBeforeJoin \/ Join \/ UNCHANGED vars
    BY <2>1 DEF BuildLoop, Publish, Withdraw, LeaveEntry, GetLoop, Destroy,
       NoLoopToStop, UnlockBeforeJoin, Join, vars
  <2>2. CASE EnterStart
    BY <2>2 DEF EnterStart
  <2>3. CASE RunLoop
    BY <2>3 DEF RunLoop
  <2>4. CASE WakeSelf
    BY <2>4 DEF WakeSelf, Thread
  <2>5. CASE \E t \in Task : QueueInLoop(Owner, t)
    BY <2>5
  <2>6. CASE PollOther
    BY <2>6
  <2>7. CASE UseLoop
    BY <2>7 DEF UseLoop
  <2>8. ASSUME NEW th \in Producer, WakeBy(th) PROVE [Next]_loopVars
    BY <2>8 DEF WakeBy, Thread
  <2>9. CASE StopLoop
    BY <2>9, ClientAssumption DEF StopLoop
  <2>10. QED
    BY ThreadCases, <2>1, <2>2, <2>3, <2>4, <2>5, <2>6, <2>7, <2>8, <2>9
<1>3. QED
  BY <1>1, <1>2, PTL DEF ThreadSpec, Spec

(* No wake-up of a LoopThread's loop is lost, that of its destructor's Stop *)
(* included (EventLoop.hpp, WakeUpEventFd, ReadEventfd and RunAllTask).     *)
THEOREM ThreadLosesNoWakeup == ThreadSpec => []NoLostWakeup
BY ThreadRunsLoop, LostWakeupFree, PTL

(* Its loop executes a round's closures and no more (RunAllTask).           *)
THEOREM ThreadBatchBounded == ThreadSpec => BatchNeverGrows
BY ThreadRunsLoop, BatchBounded, PTL

(* It executes the closures handed over as the abstract queue does.         *)
THEOREM ThreadImplementsQueue == ThreadSpec => QueueSafety
BY ThreadRunsLoop, LoopImplementsQueue, PTL

-------------------------------------------------------------------------------
(* What keeps the loop alive while it is being stopped.  No call on it is   *)
(* under way when the destructor begins, _mutex is the destructor's from    *)
(* its lock to its unlock, _loop is set from Publish to Withdraw, and a     *)
(* Stop that has still to write the eventfd found it set: as Withdraw needs *)
(* _mutex, the loop is there until the write.                               *)
EntryLocation ==
  {"begin", "built", "published", "running", "withdrawn", "ended"}

MutexInv == mutex <=> client \in {"locked", "unlock"}

PublishedInv == published <=> entry \in {"published", "running"}

StopInv ==
  /\ client = "locked" => call[Client] = "idle"
  /\ client = "unlock" /\ call[Client] = "wake" => published

ThreadInv == entry \in EntryLocation /\ MutexInv /\ PublishedInv /\ StopInv

LEMMA ThreadInvInit == ThreadInit => ThreadInv
BY DEF ThreadInit, ThreadInv, EntryLocation, MutexInv, PublishedInv, StopInv

LEMMA ThreadInvStep == TypeOK /\ ThreadInv /\ [ThreadNext]_vars => ThreadInv'
<1> SUFFICES ASSUME TypeOK, ThreadInv, [ThreadNext]_vars PROVE ThreadInv'
  OBVIOUS
<1>0. call \in [Thread -> {"idle", "wake"}] /\ Client \in Thread /\ Client # Owner
  BY ClientAssumption, ThreadAssumption DEF TypeOK, Thread
<1> USE DEF ThreadInv, EntryLocation, MutexInv, PublishedInv, StopInv
<1>1. CASE BuildLoop
  BY <1>1 DEF BuildLoop, loopVars
<1>2. CASE Publish
  BY <1>2 DEF Publish, loopVars
<1>3. CASE EnterStart
  BY <1>3 DEF EnterStart, Start
<1>4. CASE RunLoop
  <2>1. call' = call
    BY <1>4 DEF RunLoop, OwnerStep, TestRunning, PollEventfd, HandleActive, HandleDone,
       SwapTasks, BeginTask, EndTask, RunDone
  <2>2. QED
    BY <1>4, <2>1 DEF RunLoop
<1>5. ASSUME NEW th \in Thread, WakeUpEventFd(th), UNCHANGED threadVars PROVE ThreadInv'
  BY <1>0, <1>5 DEF WakeUpEventFd, threadVars
<1>6. CASE Withdraw
  BY <1>6 DEF Withdraw, loopVars
<1>7. CASE LeaveEntry
  BY <1>7 DEF LeaveEntry, loopVars
<1>8. ASSUME NEW t \in Task, QueueInLoop(Owner, t), UNCHANGED threadVars PROVE ThreadInv'
  BY <1>0, <1>8 DEF QueueInLoop, threadVars
<1>9. CASE PollOther /\ UNCHANGED threadVars
  BY <1>9 DEF PollOther, threadVars
<1>10. CASE GetLoop
  BY <1>10 DEF GetLoop, loopVars
<1>11. CASE UseLoop
  BY <1>11 DEF UseLoop, threadVars
<1>12. CASE Destroy
  BY <1>12, ClientAssumption DEF Destroy, loopVars
<1>13. CASE StopLoop
  BY <1>13 DEF StopLoop
<1>14. CASE NoLoopToStop
  BY <1>14 DEF NoLoopToStop, loopVars
<1>15. CASE UnlockBeforeJoin
  BY <1>15 DEF UnlockBeforeJoin, loopVars
<1>16. CASE Join
  BY <1>16 DEF Join, loopVars
<1>17. CASE UNCHANGED vars
  BY <1>17 DEF vars, threadVars, loopVars
<1>18. QED
  BY ThreadCases, <1>1, <1>2, <1>3, <1>4, <1>5, <1>6, <1>7, <1>8, <1>9, <1>10, <1>11,
     <1>12, <1>13, <1>14, <1>15, <1>16, <1>17 DEF WakeSelf, WakeBy, Thread

(* The destructor calls Stop on a loop that exists, up to its write of the  *)
(* eventfd, however the thread is scheduled (LoopThread.hpp, ~LoopThread    *)
(* and ThreadEntry under _mutex).                                           *)
THEOREM StopFindsLoop == ThreadSpec => []StopOnLiveLoop
<1>1. ThreadInv => StopOnLiveLoop
  BY DEF ThreadInv, PublishedInv, StopInv, StopOnLiveLoop
<1>2. ThreadSpec => []TypeOK
  BY ThreadRunsLoop, TypeCorrect, PTL
<1>3. QED
  BY <1>1, <1>2, ThreadInvInit, ThreadInvStep, PTL DEF ThreadSpec
===============================================================================
