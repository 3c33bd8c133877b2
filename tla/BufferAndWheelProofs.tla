------------------------- MODULE BufferAndWheelProofs -------------------------
(***************************************************************************)
(* Proofs about the two data structures of the library that a connection   *)
(* rests on.                                                               *)
(*                                                                         *)
(* TimerWheel, for any capacity, any tasks, ids and timeouts, and any      *)
(* bound on the expirations the kernel counts.                             *)
(*                                                                         *)
(* Buffer, for any bytes, sizes and writes: the offsets stay in the        *)
(* vector, and the readable bytes are a queue.                             *)
(***************************************************************************)
EXTENDS TimerWheel, Buffer, SequenceTheorems, TLAPS

-------------------------------------------------------------------------------
(* Arithmetic of positions, without the modulo.                             *)
LEMMA ModOfSum ==
  ASSUME NEW t \in Slot, NEW n \in Slot
  PROVE  /\ (t + n) % Capacity = IF t + n < Capacity THEN t + n ELSE t + n - Capacity
         /\ (t + n) % Capacity \in Slot
<1>1. Capacity \in Nat /\ Capacity > 0 /\ t \in Nat /\ n \in Nat
  BY WheelAssumption DEF Slot
<1>2. CASE t + n < Capacity
  BY <1>1, <1>2 DEF Slot
<1>3. CASE t + n >= Capacity
  BY <1>1, <1>3 DEF Slot
<1>4. QED
  BY <1>1, <1>2, <1>3

(* The hand that turns by one while one turn less is left points to the     *)
(* same slot ahead.                                                         *)
LEMMA TurnKeepsPosition ==
  ASSUME NEW t \in Slot, NEW n \in Slot, n > 0
  PROVE  /\ (t + 1) % Capacity \in Slot
         /\ (((t + 1) % Capacity) + (n - 1)) % Capacity = (t + n) % Capacity
<1>1. Capacity \in Nat /\ Capacity > 1 /\ t \in Nat /\ n \in Nat
  BY WheelAssumption DEF Slot
<1>2. 1 \in Slot /\ n - 1 \in Slot
  BY <1>1 DEF Slot
<1>3. (t + 1) % Capacity = (IF t + 1 < Capacity THEN t + 1 ELSE t + 1 - Capacity)
      /\ (t + 1) % Capacity \in Slot
  BY <1>2, ModOfSum
<1>4. (((t + 1) % Capacity) + (n - 1)) % Capacity =
        IF ((t + 1) % Capacity) + (n - 1) < Capacity
        THEN ((t + 1) % Capacity) + (n - 1)
        ELSE ((t + 1) % Capacity) + (n - 1) - Capacity
  BY <1>2, <1>3, ModOfSum
<1>5. (t + n) % Capacity = IF t + n < Capacity THEN t + n ELSE t + n - Capacity
  BY ModOfSum
<1>6. QED
  BY <1>1, <1>3, <1>4, <1>5 DEF Slot

-------------------------------------------------------------------------------
(* The steps, by name.                                                      *)
LEMMA NextCases ==
  ASSUME [Next]_vars
  PROVE  \/ \E id \in Id, n \in Timeout, o \in Object : TimerAddInLoop(id, n, o)
         \/ \E id \in Id : TimerRefreshOfLocked(id)
         \/ \E id \in Id : TimerRefreshOfExpired(id)
         \/ \E id \in Id : TimerCancelInLoop(id)
         \/ CountExpiration
         \/ ReadTimerfd
         \/ \E o \in Object : ReleaseShared(o)
         \/ \E o \in Object : ReleaseLast(o)
         \/ EndTimerTask
         \/ TurnHand
         \/ UNCHANGED vars
  BY DEF Next, OnTime, ClientStep, TimerRefreshInLoop

LEMMA PositionInSlot ==
  ASSUME NEW t \in Slot, NEW n \in Nat
  PROVE  (t + n) % Capacity \in Slot
  BY WheelAssumption DEF Slot

(* The variables keep their types, and a task dies only inside OnTime       *)
(* (TimerWheel.hpp, RunTimerTask called from OnTime).                       *)
THEOREM TypeCorrect == Spec => []TypeOK
<1>1. Init => TypeOK
  BY WheelAssumption DEF Init, TypeOK, Free, Slot
<1>2. TypeOK /\ [Next]_vars => TypeOK'
  <2> SUFFICES ASSUME TypeOK, [Next]_vars PROVE TypeOK'
    OBVIOUS
  <2> USE WheelAssumption DEF TypeOK, wheelVars, history
  <2>1. ASSUME NEW id \in Id, NEW n \in Timeout, NEW o \in Object,
               TimerAddInLoop(id, n, o)
        PROVE  TypeOK'
    <3>1. n \in Nat /\ Position(n) \in Slot
      BY PositionInSlot DEF Position
    <3>2. wheel' \in [Slot -> SUBSET Object]
      BY <2>1, <3>1 DEF TimerAddInLoop
    <3>3. QED
      BY <2>1, <3>1, <3>2 DEF TimerAddInLoop, Restart
  <2>2. ASSUME NEW id \in Id, TimerRefreshOfLocked(id) PROVE TypeOK'
    <3>1. timers[id] \in Object /\ task[timers[id]].timeout \in Nat
      BY <2>2 DEF TimerRefreshOfLocked, Locked
    <3>2. Position(task[timers[id]].timeout) \in Slot
      BY <3>1, PositionInSlot DEF Position
    <3>3. wheel' \in [Slot -> SUBSET Object]
      BY <2>2, <3>1, <3>2 DEF TimerRefreshOfLocked
    <3>4. QED
      BY <2>2, <3>1, <3>3 DEF TimerRefreshOfLocked, Restart
  <2>3. ASSUME NEW id \in Id, TimerRefreshOfExpired(id) PROVE TypeOK'
    BY <2>3 DEF TimerRefreshOfExpired
  <2>4. ASSUME NEW id \in Id, TimerCancelInLoop(id) PROVE TypeOK'
    BY <2>4 DEF TimerCancelInLoop, Locked
  <2>5. CASE CountExpiration
    BY <2>5 DEF CountExpiration
  <2>6. CASE ReadTimerfd
    BY <2>6 DEF ReadTimerfd
  <2>7. ASSUME NEW o \in Object, ReleaseShared(o) PROVE TypeOK'
    BY <2>7 DEF ReleaseShared, ReleasePointer
  <2>8. ASSUME NEW o \in Object, ReleaseLast(o) PROVE TypeOK'
    BY <2>8 DEF ReleaseLast, ReleasePointer
  <2>9. CASE EndTimerTask
    BY <2>9 DEF EndTimerTask, Free
  <2>10. CASE TurnHand
    <3>1. tick' \in Slot
      BY <2>10, PositionInSlot DEF TurnHand
    <3>2. times' \in Nat
      BY <2>10 DEF TurnHand
    <3>3. QED
      BY <2>10, <3>1, <3>2 DEF TurnHand
  <2>11. CASE UNCHANGED vars
    BY <2>11 DEF vars
  <2>12. QED
    BY NextCases, <2>1, <2>2, <2>3, <2>4, <2>5, <2>6, <2>7, <2>8, <2>9,
       <2>10, <2>11
<1>3. QED
  BY <1>1, <1>2, PTL DEF Spec

-------------------------------------------------------------------------------
(* What EntriesMatchTasks needs to be inductive: the dying task is in no    *)
(* slot, and no waiting task shares its id, so that RemoveTimer erases its  *)
(* own entry and no other task's.                                           *)
EntriesInv ==
  /\ EntriesMatchTasks
  /\ dying # None =>
       /\ ~Waiting(dying)
       /\ task[dying].id \in Id
       /\ \A o \in Object : Waiting(o) => task[o].id # task[dying].id

LEMMA EntriesInit == Init => EntriesInv
  BY WheelAssumption DEF Init, EntriesInv, EntriesMatchTasks, Waiting, Locked

LEMMA EntriesStep == TypeOK /\ EntriesInv /\ [Next]_vars => EntriesInv'
<1> SUFFICES ASSUME TypeOK, EntriesInv, [Next]_vars PROVE EntriesInv'
  OBVIOUS
<1> USE WheelAssumption DEF TypeOK, EntriesInv, EntriesMatchTasks, Locked, wheelVars, history
<1>1. ASSUME NEW id \in Id, NEW n \in Timeout, NEW o \in Object,
             TimerAddInLoop(id, n, o)
      PROVE  EntriesInv'
  <2>1. Position(n) \in Slot
    BY PositionInSlot DEF Position
  <2>2. \A x \in Object : Waiting(x)' <=> Waiting(x) \/ x = o
    BY <1>1, <2>1 DEF TimerAddInLoop, Waiting
  <2>3. /\ task'[o].id = id
        /\ \A x \in Object \ {o} : task'[x] = task[x]
        /\ timers' = [timers EXCEPT ![id] = o]
        /\ dying' = dying /\ dying # o
        /\ ~Waiting(o) /\ timers[id] = None
        /\ dying # None => id # task[dying].id
    BY <1>1 DEF TimerAddInLoop
  <2>4. QED
    BY <2>2, <2>3
<1>2. ASSUME NEW id \in Id, TimerRefreshOfLocked(id) PROVE EntriesInv'
  <2>1. timers[id] \in Object /\ Waiting(timers[id])
    BY <1>2 DEF TimerRefreshOfLocked
  <2>2. Position(task[timers[id]].timeout) \in Slot
    BY <2>1, PositionInSlot DEF Position
  <2>3. \A x \in Object : Waiting(x)' <=> Waiting(x)
    BY <1>2, <2>1, <2>2 DEF TimerRefreshOfLocked, Waiting
  <2>4. UNCHANGED <<timers, task, dying>>
    BY <1>2 DEF TimerRefreshOfLocked
  <2>5. QED
    BY <2>3, <2>4
<1>3. ASSUME NEW id \in Id, TimerRefreshOfExpired(id) PROVE EntriesInv'
  BY <1>3 DEF TimerRefreshOfExpired, Waiting
<1>4. ASSUME NEW id \in Id, TimerCancelInLoop(id) PROVE EntriesInv'
  <2>1. \A x \in Object : task'[x].id = task[x].id /\ (Waiting(x)' <=> Waiting(x))
    BY <1>4 DEF TimerCancelInLoop, Waiting
  <2>2. QED
    BY <1>4, <2>1 DEF TimerCancelInLoop
<1>5. CASE CountExpiration
  BY <1>5 DEF CountExpiration, Waiting
<1>6. CASE ReadTimerfd
  BY <1>6 DEF ReadTimerfd, Waiting
<1>7. ASSUME NEW o \in Object, ReleaseShared(o) PROVE EntriesInv'
  <2>1. \A x \in Object : Waiting(x)' <=> Waiting(x)
    BY <1>7 DEF ReleaseShared, ReleasePointer, Waiting
  <2>2. UNCHANGED <<timers, task, dying>>
    BY <1>7 DEF ReleaseShared, ReleasePointer
  <2>3. QED
    BY <2>1, <2>2
<1>8. ASSUME NEW o \in Object, ReleaseLast(o) PROVE EntriesInv'
  <2>1. Waiting(o)
    BY <1>8 DEF ReleaseLast, ReleasePointer, Waiting
  <2>2. \A x \in Object : Waiting(x)' <=> Waiting(x) /\ x # o
    BY <1>8 DEF ReleaseLast, ReleasePointer, Waiting
  <2>3. /\ dying = None /\ dying' = o
        /\ task' = task
        /\ timers' = [id \in Id |-> IF timers[id] = o THEN Expired ELSE timers[id]]
    BY <1>8 DEF ReleaseLast, ReleasePointer
  <2>4. EntriesMatchTasks'
    BY <2>1, <2>2, <2>3
  <2>5. QED
    BY <2>1, <2>2, <2>3, <2>4
<1>9. CASE EndTimerTask
  <2>1. \A x \in Object : Waiting(x)' <=> Waiting(x)
    BY <1>9 DEF EndTimerTask, Waiting
  <2>2. /\ dying # None /\ dying' = None
        /\ timers' = [timers EXCEPT ![task[dying].id] = None]
        /\ \A x \in Object \ {dying} : task'[x] = task[x]
    BY <1>9 DEF EndTimerTask
  <2>3. QED
    BY <2>1, <2>2
<1>10. CASE TurnHand
  BY <1>10 DEF TurnHand, Waiting
<1>11. CASE UNCHANGED vars
  BY <1>11 DEF vars, Waiting
<1>12. QED
  BY NextCases, <1>1, <1>2, <1>3, <1>4, <1>5, <1>6, <1>7, <1>8, <1>9,
     <1>10, <1>11

LEMMA EntriesInvariant == Spec => []EntriesInv
  BY EntriesInit, EntriesStep, TypeCorrect, PTL DEF Spec

(* Every waiting task can be refreshed and cancelled under its id, and the  *)
(* map has no other entries but the dying task's (TimerWheel.hpp, _timers). *)
THEOREM EntriesCorrect == Spec => []EntriesMatchTasks
<1>1. EntriesInv => EntriesMatchTasks
  BY DEF EntriesInv
<1>2. QED
  BY <1>1, EntriesInvariant, PTL

-------------------------------------------------------------------------------
(* Turns and expirations are accounted for (TimerWheel.hpp, OnTime and      *)
(* ReadTimerfd): the bound on how early and how late a timer can be.        *)
THEOREM TurnsAccounted == Spec => []TurnsMatchSeconds
<1>1. Init => TurnsMatchSeconds
  BY WheelAssumption DEF Init, TurnsMatchSeconds, Waiting
<1>2. TypeOK /\ EntriesInv /\ TurnsMatchSeconds /\ [Next]_vars => TurnsMatchSeconds'
  <2> SUFFICES ASSUME TypeOK, EntriesInv, TurnsMatchSeconds, [Next]_vars,
                      NEW x \in Object, Waiting(x)' \/ x = dying'
               PROVE  (age[x] + times + unread = elapsed[x] + backlog[x])'
    BY DEF TurnsMatchSeconds
  <2> USE WheelAssumption DEF TypeOK, EntriesInv, TurnsMatchSeconds, wheelVars, history
  <2>1. ASSUME NEW id \in Id, NEW n \in Timeout, NEW o \in Object,
               TimerAddInLoop(id, n, o)
        PROVE  (age[x] + times + unread = elapsed[x] + backlog[x])'
    <3>1. Position(n) \in Slot
      BY PositionInSlot DEF Position
    <3>2. x # o => Waiting(x) \/ x = dying
      BY <2>1, <3>1 DEF TimerAddInLoop, Waiting
    <3>3. QED
      BY <2>1, <3>2 DEF TimerAddInLoop, Restart
  <2>2. ASSUME NEW id \in Id, TimerRefreshOfLocked(id)
        PROVE  (age[x] + times + unread = elapsed[x] + backlog[x])'
    <3>1. timers[id] \in Object
      BY <2>2 DEF TimerRefreshOfLocked, Locked
    <3>2. Position(task[timers[id]].timeout) \in Slot
      BY <3>1, PositionInSlot DEF Position
    <3>3. x # timers[id] => Waiting(x) \/ x = dying
      BY <2>2, <3>1, <3>2 DEF TimerRefreshOfLocked, Waiting
    <3>4. QED
      BY <2>2, <3>1, <3>3 DEF TimerRefreshOfLocked, Restart
  <2>3. ASSUME NEW id \in Id, TimerRefreshOfExpired(id)
        PROVE  (age[x] + times + unread = elapsed[x] + backlog[x])'
    BY <2>3 DEF TimerRefreshOfExpired, Waiting
  <2>4. ASSUME NEW id \in Id, TimerCancelInLoop(id)
        PROVE  (age[x] + times + unread = elapsed[x] + backlog[x])'
    BY <2>4 DEF TimerCancelInLoop, Waiting
  <2>5. CASE CountExpiration
    <3>1. Waiting(x) \/ x = dying
      BY <2>5 DEF CountExpiration, Waiting
    <3>2. /\ elapsed'[x] = elapsed[x] + 1 /\ unread' = unread + 1
          /\ UNCHANGED <<age, times, backlog>>
      BY <2>5, <3>1 DEF CountExpiration
    <3>3. age[x] + times + unread = elapsed[x] + backlog[x]
      BY <3>1
    <3>4. age[x] \in Nat /\ elapsed[x] \in Nat /\ backlog[x] \in Nat
      OBVIOUS
    <3> HIDE DEF TypeOK, TurnsMatchSeconds, EntriesInv
    <3>5. times \in Nat /\ unread \in Nat
      BY DEF TypeOK
    <3>6. QED
      BY <3>2, <3>3, <3>4, <3>5
  <2>6. CASE ReadTimerfd
    <3>1. Waiting(x) \/ x = dying
      BY <2>6 DEF ReadTimerfd, Waiting
    <3>2. QED
      BY <2>6, <3>1 DEF ReadTimerfd
  <2>7. ASSUME NEW o \in Object, ReleaseShared(o)
        PROVE  (age[x] + times + unread = elapsed[x] + backlog[x])'
    <3>1. Waiting(x) \/ x = dying
      BY <2>7 DEF ReleaseShared, ReleasePointer, Waiting
    <3>2. QED
      BY <2>7, <3>1 DEF ReleaseShared, ReleasePointer
  <2>8. ASSUME NEW o \in Object, ReleaseLast(o)
        PROVE  (age[x] + times + unread = elapsed[x] + backlog[x])'
    <3>1. Waiting(x)
      BY <2>8 DEF ReleaseLast, ReleasePointer, Waiting
    <3>2. QED
      BY <2>8, <3>1 DEF ReleaseLast, ReleasePointer
  <2>9. CASE EndTimerTask
    <3>1. Waiting(x) /\ x # dying
      BY <2>9 DEF EndTimerTask, Waiting
    <3>2. QED
      BY <2>9, <3>1 DEF EndTimerTask
  <2>10. CASE TurnHand
    <3>1. Waiting(x)
      BY <2>10 DEF TurnHand, Waiting
    <3>2. QED
      BY <2>10, <3>1 DEF TurnHand
  <2>11. CASE UNCHANGED vars
    BY <2>11 DEF vars, Waiting
  <2>12. QED
    BY NextCases, <2>1, <2>2, <2>3, <2>4, <2>5, <2>6, <2>7, <2>8, <2>9,
       <2>10, <2>11
<1>3. QED
  BY <1>1, <1>2, TypeCorrect, EntriesInvariant, PTL DEF Spec

-------------------------------------------------------------------------------
(* Why a task fires on time: one of its pointers is exactly as far ahead of *)
(* the hand as the task still has to wait, so no clear can take the last    *)
(* pointer before, and no pointer is further ahead, so the clear that       *)
(* reaches this one takes the last.                                         *)
Remaining(o) == task[o].timeout - age[o]

OnSchedule ==
  /\ \A o \in Object : task[o].timeout \in Slot
  /\ \A o \in Object :
       Waiting(o) => Remaining(o) \in Slot /\ o \in wheel[Position(Remaining(o))]
  /\ \A o \in Object, s \in Slot :
       o \in wheel[s] => \E d \in 0 .. Remaining(o) : s = Position(d)
  /\ FiresOnTime

LEMMA ScheduleInit == Init => OnSchedule
  BY WheelAssumption DEF Init, OnSchedule, FiresOnTime, Waiting, Free, Slot

LEMMA PositionFacts ==
  ASSUME TypeOK
  PROVE  /\ \A d \in Slot : Position(d) \in Slot
         /\ Position(0) = tick
         /\ \A d, e \in Slot : Position(d) = Position(e) => d = e
<1>1. Capacity \in Nat /\ Capacity > 0 /\ tick \in Slot /\ 0 \in Slot
  BY WheelAssumption DEF TypeOK, Slot
<1>2. \A d \in Slot : /\ Position(d) \in Slot
                      /\ Position(d) = IF tick + d < Capacity THEN tick + d
                                                             ELSE tick + d - Capacity
  BY <1>1, ModOfSum DEF Position
<1>3. QED
  BY <1>1, <1>2 DEF Slot

(* Steps that set no task and turn nothing.                                 *)
LEMMA ScheduleKept ==
  ASSUME TypeOK, OnSchedule, wheel' = wheel, tick' = tick, age' = age,
         \A o \in Object : task'[o].timeout = task[o].timeout,
         dying' = dying \/ dying' = None
  PROVE  OnSchedule'
<1>1. \A o \in Object : Remaining(o)' = Remaining(o) /\ (Waiting(o)' <=> Waiting(o))
  BY DEF Remaining, Waiting
<1>2. \A d : Position(d)' = Position(d)
  BY DEF Position
<1>3. FiresOnTime'
  BY DEF FiresOnTime, OnSchedule, TypeOK
<1>4. QED
  BY <1>1, <1>2, <1>3 DEF OnSchedule

(* Steps that add or refresh task o: its history starts again, and one more *)
(* pointer is pushed a whole timeout ahead.                                 *)
LEMMA ScheduleRestarted ==
  ASSUME TypeOK, OnSchedule, NEW o \in Object, NEW n \in Slot, o # dying,
         task'[o].timeout = n,
         \A x \in Object \ {o} : task'[x] = task[x],
         Waiting(o) => n = task[o].timeout,
         wheel' = [wheel EXCEPT ![Position(n)] = @ \cup {o}],
         age' = [age EXCEPT ![o] = 0],
         tick' = tick, dying' = dying
  PROVE  OnSchedule'
<1>1. Position(n) \in Slot /\ n \in Nat
  BY PositionFacts, WheelAssumption DEF Slot
<1>2. Remaining(o)' = n /\ \A x \in Object \ {o} : Remaining(x)' = Remaining(x)
  BY <1>1 DEF Remaining, TypeOK
<1>3. \A x \in Object \ {o} : Waiting(x)' <=> Waiting(x)
  BY <1>1 DEF Waiting, TypeOK
<1>4. \A d : Position(d)' = Position(d)
  BY DEF Position
<1>5. ASSUME NEW x \in Object, Waiting(x)'
      PROVE  Remaining(x)' \in Slot /\ x \in wheel'[Position(Remaining(x)')]
  <2>1. CASE x = o
    BY <1>1, <1>2, <2>1 DEF TypeOK
  <2>2. CASE x # o
    <3>1. Waiting(x) /\ Remaining(x)' = Remaining(x)
      BY <1>2, <1>3, <1>5, <2>2
    <3>2. Position(Remaining(x)) \in Slot
      BY <3>1, PositionFacts DEF OnSchedule
    <3>3. QED
      BY <3>1, <3>2, <1>1 DEF OnSchedule, TypeOK
  <2>3. QED
    BY <2>1, <2>2
<1>6. ASSUME NEW x \in Object, NEW s \in Slot, x \in wheel'[s]
      PROVE  \E d \in 0 .. Remaining(x)' : s = Position(d)
  <2>1. CASE x # o
    BY <1>1, <1>2, <1>6, <2>1 DEF OnSchedule, TypeOK
  <2>2. CASE x = o /\ s = Position(n)
    BY <1>1, <1>2, <2>2
  <2>3. CASE x = o /\ x \in wheel[s]
    <3>1. n = task[o].timeout /\ age[o] \in Nat /\ n \in Nat
      BY <1>1, <2>3 DEF Waiting, TypeOK
    <3>2. PICK d \in 0 .. Remaining(o) : s = Position(d)
      BY <2>3 DEF OnSchedule
    <3>3. d \in 0 .. n
      BY <3>1, <3>2 DEF Remaining
    <3>4. QED
      BY <1>2, <2>3, <3>2, <3>3
  <2>4. QED
    BY <1>1, <1>6, <2>1, <2>2, <2>3 DEF TypeOK
<1>7. FiresOnTime'
  BY DEF OnSchedule, FiresOnTime, TypeOK
<1>8. \A x \in Object : task'[x].timeout \in Slot
  BY DEF OnSchedule
<1>9. QED
  BY <1>4, <1>5, <1>6, <1>7, <1>8 DEF OnSchedule

(* A pointer is released: the last one is the one on schedule.              *)
LEMMA ScheduleReleased ==
  ASSUME TypeOK, OnSchedule, NEW o \in Object, ReleaseShared(o) \/ ReleaseLast(o)
  PROVE  OnSchedule'
<1>1. /\ UNCHANGED <<task, tick, age>>
      /\ wheel' = [wheel EXCEPT ![tick] = @ \ {o}]
      /\ o \in wheel[tick] /\ tick \in Slot
      /\ Waiting(o)' => dying' = None
      /\ dying' # None => dying' = o
  BY DEF ReleaseShared, ReleaseLast, ReleasePointer, history, TypeOK
<1>2. \A x \in Object : /\ Remaining(x)' = Remaining(x)
                        /\ Waiting(x)' => Waiting(x)
  BY <1>1 DEF Remaining, Waiting, TypeOK
<1>3. \A d : Position(d)' = Position(d)
  BY <1>1 DEF Position
<1>4. Waiting(o) /\ Remaining(o) \in Slot /\ Position(Remaining(o)) \in Slot
      /\ o \in wheel[Position(Remaining(o))]
  BY <1>1, PositionFacts DEF Waiting, OnSchedule
<1>5. CASE Remaining(o) = 0
  <2>1. \A s \in Slot : o \in wheel[s] => s = tick
    BY <1>5, PositionFacts DEF OnSchedule
  <2>2. ~Waiting(o)'
    BY <1>1, <2>1 DEF Waiting, TypeOK
  <2>3. FiresOnTime'
    <3>1. task[o].timeout = age[o]
      <4>1. task[o].timeout \in Nat /\ age[o] \in Nat
        BY DEF TypeOK
      <4>2. QED
        BY <1>5, <4>1 DEF Remaining
    <3>2. QED
      BY <1>1, <3>1 DEF FiresOnTime
  <2>4. \A x \in Object : Waiting(x)' => x \in wheel'[Position(Remaining(x))]
    <3>1. SUFFICES ASSUME NEW x \in Object, Waiting(x)', x # o
                   PROVE  x \in wheel'[Position(Remaining(x))]
      BY <2>2
    <3>2. Waiting(x) /\ Position(Remaining(x)) \in Slot
      BY <1>2, <3>1, PositionFacts DEF OnSchedule
    <3>3. QED
      BY <1>1, <3>1, <3>2 DEF OnSchedule, TypeOK
  <2>5. QED
    BY <1>1, <1>2, <1>3, <2>3, <2>4 DEF OnSchedule, TypeOK
<1>6. CASE Remaining(o) # 0
  <2>1. Position(Remaining(o)) # tick
    BY <1>4, <1>6, PositionFacts, WheelAssumption DEF Slot
  <2>2. o \in wheel'[Position(Remaining(o))]
    BY <1>1, <1>4, <2>1 DEF TypeOK
  <2>3. dying' = None
    BY <1>1, <1>4, <2>2 DEF Waiting
  <2>4. \A x \in Object : Waiting(x)' => x \in wheel'[Position(Remaining(x))]
    <3>1. SUFFICES ASSUME NEW x \in Object, Waiting(x)', x # o
                   PROVE  x \in wheel'[Position(Remaining(x))]
      BY <2>2
    <3>2. Waiting(x) /\ Position(Remaining(x)) \in Slot
      BY <1>2, <3>1, PositionFacts DEF OnSchedule
    <3>3. QED
      BY <1>1, <3>1, <3>2 DEF OnSchedule, TypeOK
  <2>5. QED
    BY <1>1, <1>2, <1>3, <2>3, <2>4 DEF OnSchedule, FiresOnTime, TypeOK
<1>7. QED
  BY <1>5, <1>6

LEMMA ScheduleTurned ==
  ASSUME TypeOK, OnSchedule, TurnHand
  PROVE  OnSchedule'
<1>1. /\ dying = None /\ dying' = None /\ wheel[tick] = {}
      /\ UNCHANGED <<wheel, task>>
      /\ tick' = (tick + 1) % Capacity
      /\ \A x \in Object : Waiting(x) => age'[x] = age[x] + 1
  BY DEF TurnHand, TypeOK
<1>2. \A x \in Object : Waiting(x)' <=> Waiting(x)
  BY <1>1 DEF Waiting
<1>3. \A d \in Slot : d # 0 => Position(d - 1)' = Position(d)
  <2>1. ASSUME NEW d \in Slot, d # 0
        PROVE  (tick' + (d - 1)) % Capacity = (tick + d) % Capacity
    <3>1. tick \in Slot /\ d > 0
      BY <2>1, WheelAssumption DEF TypeOK, Slot
    <3>2. QED
      BY <1>1, <3>1, TurnKeepsPosition
  <2>2. QED
    BY <2>1 DEF Position
<1>4. ASSUME NEW x \in Object, Waiting(x)
      PROVE  /\ Remaining(x) \in Slot \ {0}
             /\ Remaining(x)' = Remaining(x) - 1
             /\ Remaining(x) - 1 \in Slot
  <2>1. Remaining(x) \in Slot /\ x \in wheel[Position(Remaining(x))]
    BY <1>4 DEF OnSchedule
  <2>2. Remaining(x) # 0
    BY <1>1, <2>1, PositionFacts
  <2>3. age[x] \in Nat /\ task[x].timeout \in Nat
    BY DEF TypeOK
  <2>4. Remaining(x)' = Remaining(x) - 1
    BY <1>1, <1>4, <2>3 DEF Remaining
  <2>5. QED
    BY <2>1, <2>2, <2>4, WheelAssumption DEF Slot
<1>5. ASSUME NEW x \in Object, Waiting(x)'
      PROVE  Remaining(x)' \in Slot /\ x \in wheel'[Position(Remaining(x))']
  <2>1. Waiting(x)
    BY <1>2, <1>5
  <2>2. (tick' + (Remaining(x) - 1)) % Capacity = Position(Remaining(x))
    BY <1>3, <1>4, <2>1 DEF Position
  <2>3. Position(Remaining(x))' = (tick' + (Remaining(x) - 1)) % Capacity
    BY <1>4, <2>1 DEF Position
  <2>4. QED
    BY <1>1, <1>4, <2>1, <2>2, <2>3 DEF OnSchedule
<1>6. ASSUME NEW x \in Object, NEW s \in Slot, x \in wheel[s]
      PROVE  \E d \in 0 .. Remaining(x)' : s = Position(d)'
  <2>1. Waiting(x)
    BY <1>6 DEF Waiting
  <2>2. PICK d \in 0 .. Remaining(x) : s = Position(d)
    BY <1>6 DEF OnSchedule
  <2>3. d # 0
    BY <1>1, <1>6, <2>2, PositionFacts
  <2>4. d \in Slot /\ d - 1 \in 0 .. Remaining(x) - 1
    BY <1>4, <2>1, <2>2, <2>3, WheelAssumption DEF Slot
  <2>5. Position(d - 1)' = s
    BY <1>3, <2>2, <2>3, <2>4
  <2>6. QED
    BY <1>4, <2>1, <2>4, <2>5
<1>7. QED
  BY <1>1, <1>5, <1>6 DEF OnSchedule, FiresOnTime

LEMMA ScheduleStep ==
  ASSUME Timeout \subseteq Slot
  PROVE  TypeOK /\ EntriesInv /\ OnSchedule /\ [Next]_vars => OnSchedule'
<1> SUFFICES ASSUME TypeOK, EntriesInv, OnSchedule, [Next]_vars PROVE OnSchedule'
  OBVIOUS
<1>1. ASSUME NEW id \in Id, NEW n \in Timeout, NEW o \in Object,
             TimerAddInLoop(id, n, o)
      PROVE  OnSchedule'
  <2>1. /\ n \in Slot /\ o # dying /\ ~Waiting(o)
        /\ task'[o].timeout = n
        /\ \A x \in Object \ {o} : task'[x] = task[x]
        /\ wheel' = [wheel EXCEPT ![Position(n)] = @ \cup {o}]
        /\ age' = [age EXCEPT ![o] = 0]
        /\ tick' = tick /\ dying' = dying
    BY <1>1 DEF TimerAddInLoop, Restart, TypeOK
  <2>2. QED
    BY <2>1, ScheduleRestarted
<1>2. ASSUME NEW id \in Id, TimerRefreshOfLocked(id) PROVE OnSchedule'
  <2> DEFINE o == timers[id]
  <2>1. o \in Object /\ o # dying /\ task[o].timeout \in Slot
    BY <1>2, WheelAssumption
    DEF TimerRefreshOfLocked, Locked, EntriesInv, EntriesMatchTasks, OnSchedule
  <2>2. /\ task' = task
        /\ wheel' = [wheel EXCEPT ![Position(task[o].timeout)] = @ \cup {o}]
        /\ age' = [age EXCEPT ![o] = 0]
        /\ tick' = tick /\ dying' = dying
    BY <1>2 DEF TimerRefreshOfLocked, Restart
  <2> HIDE DEF o
  <2>3. QED
    BY <2>1, <2>2, ScheduleRestarted
<1>3. ASSUME NEW id \in Id, TimerRefreshOfExpired(id) PROVE OnSchedule'
  BY <1>3, ScheduleKept DEF TimerRefreshOfExpired, history
<1>4. ASSUME NEW id \in Id, TimerCancelInLoop(id) PROVE OnSchedule'
  <2>1. \A o \in Object : task'[o].timeout = task[o].timeout
    BY <1>4 DEF TimerCancelInLoop, TypeOK
  <2>2. QED
    BY <1>4, <2>1, ScheduleKept DEF TimerCancelInLoop, history
<1>5. CASE CountExpiration
  BY <1>5, ScheduleKept DEF CountExpiration, wheelVars
<1>6. CASE ReadTimerfd
  BY <1>6, ScheduleKept DEF ReadTimerfd, history
<1>7. ASSUME NEW o \in Object, ReleaseShared(o) \/ ReleaseLast(o) PROVE OnSchedule'
  BY <1>7, ScheduleReleased
<1>8. CASE EndTimerTask
  <2>1. \A x \in Object \ {dying} : task'[x] = task[x] /\ age'[x] = age[x]
    BY <1>8 DEF EndTimerTask, TypeOK
  <2>2. \A x \in Object : task'[x].timeout \in Slot
    BY <1>8, WheelAssumption DEF EndTimerTask, OnSchedule, Free, TypeOK, Slot
  <2>3. wheel' = wheel /\ tick' = tick /\ dying' = None /\ dying # None
    BY <1>8 DEF EndTimerTask
  <2>4. \A x \in Object : Waiting(x)' => x # dying /\ Waiting(x) /\ Remaining(x)' = Remaining(x)
    BY <2>1, <2>3 DEF Waiting, Remaining, EntriesInv
  <2>5. \A d : Position(d)' = Position(d)
    BY <2>3 DEF Position
  <2>6. \A x \in Object, s \in Slot : x \in wheel[s] => Waiting(x)'
    BY <2>3 DEF Waiting
  <2>7. QED
    BY <2>2, <2>3, <2>4, <2>5, <2>6 DEF OnSchedule, FiresOnTime
<1>9. CASE TurnHand
  BY <1>9, ScheduleTurned
<1>10. CASE UNCHANGED vars
  BY <1>10, ScheduleKept DEF vars, wheelVars, history
<1>11. QED
  BY NextCases, <1>1, <1>2, <1>3, <1>4, <1>5, <1>6, <1>7, <1>8, <1>9, <1>10

(* With timeouts shorter than the wheel, every task dies exactly its        *)
(* timeout after it was last set, in turns of the hand: no refresh is lost, *)
(* none of the pointers that refreshes leave behind fires early or keeps    *)
(* the task alive (TimerWheel.hpp, TimerRefreshInLoop and RunTimerTask).    *)
THEOREM TasksFireOnTime ==
  ASSUME Timeout \subseteq Slot
  PROVE  Spec => []FiresOnTime
<1>1. OnSchedule => FiresOnTime
  BY DEF OnSchedule
<1>2. TypeOK /\ EntriesInv /\ OnSchedule /\ [Next]_vars => OnSchedule'
  BY ScheduleStep
<1>3. QED
  BY <1>1, <1>2, ScheduleInit, TypeCorrect, EntriesInvariant, PTL DEF Spec

-------------------------------------------------------------------------------
(* The wheel implements independent countdowns: what a task's last pointer  *)
(* waits for is what remains of its timeout.                                *)
LEMMA DistanceOfPosition ==
  ASSUME TypeOK, NEW d \in Slot
  PROVE  Distance(Position(d)) = d
<1>1. Capacity \in Nat /\ Capacity > 0 /\ tick \in 0 .. Capacity - 1 /\ d \in 0 .. Capacity - 1
  BY WheelAssumption DEF TypeOK, Slot
<1>2. Position(d) = IF tick + d < Capacity THEN tick + d ELSE tick + d - Capacity
  BY <1>1, ModOfSum DEF Position, Slot
<1>3. CASE tick + d < Capacity
  <2>1. Distance(Position(d)) = (tick + d + Capacity - tick) % Capacity
    BY <1>2, <1>3 DEF Distance
  <2>2. tick + d + Capacity - tick = d + Capacity
    BY <1>1
  <2>3. (d + Capacity) % Capacity = d
    BY <1>1
  <2>4. QED
    BY <2>1, <2>2, <2>3
<1>4. CASE ~(tick + d < Capacity)
  <2>1. Distance(Position(d)) = ((tick + d - Capacity) + Capacity - tick) % Capacity
    BY <1>2, <1>4 DEF Distance
  <2>2. (tick + d - Capacity) + Capacity - tick = d
    BY <1>1
  <2>3. d % Capacity = d
    BY <1>1
  <2>4. QED
    BY <2>1, <2>2, <2>3
<1>5. QED
  BY <1>3, <1>4

LEMMA LeftIsRemaining ==
  ASSUME TypeOK, OnSchedule, NEW o \in Object, Waiting(o)
  PROVE  Left(o) = Remaining(o) /\ Remaining(o) \in Nat
<1> DEFINE D == {Distance(s) : s \in {r \in Slot : o \in wheel[r]}}
<1>1. PICK m \in Slot : m = Remaining(o)
  BY DEF OnSchedule
<1>2. o \in wheel[Position(m)] /\ Position(m) \in Slot /\ Distance(Position(m)) = m
  BY <1>1, DistanceOfPosition, PositionFacts DEF OnSchedule
<1>3. m \in D
  BY <1>2
<1>4. \A x \in D : x \in Nat /\ x <= m
  <2> SUFFICES ASSUME NEW s \in Slot, o \in wheel[s]
               PROVE  Distance(s) \in Nat /\ Distance(s) <= m
    OBVIOUS
  <2>1. PICK d \in 0 .. m : s = Position(d)
    BY <1>1 DEF OnSchedule
  <2>2. d \in Slot /\ d \in Nat /\ d <= m
    BY <2>1, WheelAssumption DEF Slot
  <2>3. QED
    BY <2>1, <2>2, DistanceOfPosition
<1>5. m \in Nat
  BY WheelAssumption DEF Slot
<1> HIDE DEF D
<1>6. \A x \in D : (\A y \in D : x >= y) => x = m
  BY <1>3, <1>4, <1>5
<1>7. Max(D) = m
  BY <1>3, <1>4, <1>5, <1>6 DEF Max
<1>8. QED
  BY <1>1, <1>5, <1>7 DEF Left, D

(* The countdowns, as the refinement has them and by what remains.          *)
Counts == [id \in Id |-> IF Locked(id)
                         THEN [left     |-> Left(timers[id]),
                               period   |-> task[timers[id]].timeout,
                               canceled |-> task[timers[id]].canceled]
                         ELSE None]

Due(o) == [left |-> Remaining(o), period |-> task[o].timeout, canceled |-> task[o].canceled]

Firing == IF dying = None THEN None ELSE task[dying].id

ScheduleInv == TypeOK /\ EntriesInv /\ OnSchedule

LEMMA CountsAre ==
  ScheduleInv =>
    /\ Counts \in [Id -> [left : Nat, period : Nat, canceled : BOOLEAN] \cup {None}]
    /\ \A id \in Id : Counts[id] = IF Locked(id) THEN Due(timers[id]) ELSE None
    /\ \A id \in Id : Counts[id] # None <=> Locked(id)
    /\ Firing # None <=> dying # None
<1> SUFFICES ASSUME ScheduleInv
             PROVE  /\ Counts \in [Id -> [left : Nat, period : Nat, canceled : BOOLEAN] \cup {None}]
                    /\ \A id \in Id : Counts[id] = IF Locked(id) THEN Due(timers[id]) ELSE None
                    /\ \A id \in Id : Counts[id] # None <=> Locked(id)
                    /\ Firing # None <=> dying # None
  OBVIOUS
<1>1. TypeOK /\ EntriesInv /\ OnSchedule
  BY DEF ScheduleInv
<1>2. ASSUME NEW id \in Id, Locked(id)
      PROVE  /\ Left(timers[id]) = Remaining(timers[id])
             /\ Due(timers[id]) \in [left : Nat, period : Nat, canceled : BOOLEAN]
             /\ Due(timers[id]) # None
  <2>1. PICK o \in Object : o = timers[id] /\ Waiting(o)
    BY <1>1, <1>2 DEF Locked, EntriesInv, EntriesMatchTasks
  <2>2. Left(o) = Remaining(o) /\ Remaining(o) \in Nat
    BY <1>1, <2>1, LeftIsRemaining
  <2>3. Due(o) \in [left : Nat, period : Nat, canceled : BOOLEAN]
    BY <1>1, <2>2 DEF Due, TypeOK
  <2>4. QED
    BY <2>1, <2>2, <2>3, NoneAssumption
<1>3. \A id \in Id : Counts[id] = IF Locked(id) THEN Due(timers[id]) ELSE None
  BY <1>2 DEF Counts, Due
<1>4. Counts \in [Id -> [left : Nat, period : Nat, canceled : BOOLEAN] \cup {None}]
  <2>1. \A id \in Id : Counts[id] \in [left : Nat, period : Nat, canceled : BOOLEAN] \cup {None}
    BY <1>2, <1>3
  <2>2. Counts = [id \in Id |-> Counts[id]]
    BY DEF Counts
  <2>3. QED
    BY <2>1, <2>2
<1>5. \A id \in Id : Counts[id] # None <=> Locked(id)
  BY <1>2, <1>3
<1>6. Firing # None <=> dying # None
  BY <1>1, NoneAssumption DEF Firing, EntriesInv
<1>7. QED
  BY <1>3, <1>4, <1>5, <1>6

LEMMA CountsNext ==
  ScheduleInv' =>
    /\ Counts' \in [Id -> [left : Nat, period : Nat, canceled : BOOLEAN] \cup {None}]
    /\ \A id \in Id : Counts'[id] = IF Locked(id)' THEN Due(timers[id])' ELSE None
    /\ Firing' # None <=> dying' # None
<1>1. (ScheduleInv =>
        /\ Counts \in [Id -> [left : Nat, period : Nat, canceled : BOOLEAN] \cup {None}]
        /\ \A id \in Id : Counts[id] = IF Locked(id) THEN Due(timers[id]) ELSE None
        /\ \A id \in Id : Counts[id] # None <=> Locked(id)
        /\ Firing # None <=> dying # None)'
  BY CountsAre, PTL
<1>2. QED
  BY <1>1

(* Two wheels of the same countdowns, and countdowns that differ in one id. *)
LEMMA SameCounts ==
  ASSUME NEW C, NEW D, NEW S, C \in [Id -> S], D \in [Id -> S],
         \A x \in Id : D[x] = C[x]
  PROVE  D = C
  OBVIOUS

LEMMA OneCount ==
  ASSUME NEW C, NEW D, NEW S, C \in [Id -> S], D \in [Id -> S], NEW id \in Id,
         \A x \in Id \ {id} : D[x] = C[x]
  PROVE  D = [C EXCEPT ![id] = D[id]]
  OBVIOUS

LEMMA CountsStay ==
  ASSUME ScheduleInv, ScheduleInv', Firing' = Firing,
         \A id \in Id : /\ Locked(id)' <=> Locked(id)
                        /\ Locked(id) => Due(timers[id])' = Due(timers[id])
  PROVE  Counts' = Counts
<1>1. \A id \in Id : Counts'[id] = Counts[id]
  BY CountsAre, CountsNext
<1>2. QED
  BY <1>1, CountsAre, CountsNext, SameCounts

LEMMA StepAdds ==
  ASSUME ScheduleInv, ScheduleInv', Timeout \subseteq Slot,
         NEW id \in Id, NEW n \in Timeout, NEW o \in Object, TimerAddInLoop(id, n, o)
  PROVE  Countdown!AbstractNext
<1>1. TypeOK /\ EntriesInv /\ OnSchedule /\ n \in Nat
  BY WheelAssumption DEF ScheduleInv
<1>2. /\ ~Waiting(o) /\ timers[id] = None /\ o # dying
      /\ dying # None => id # task[dying].id
      /\ task' = [task EXCEPT ![o] = [id |-> id, timeout |-> n, canceled |-> FALSE]]
      /\ timers' = [timers EXCEPT ![id] = o]
      /\ age' = [age EXCEPT ![o] = 0]
      /\ dying' = dying
  BY DEF TimerAddInLoop, Restart
<1>3. ~Locked(id) /\ Locked(id)' /\ timers'[id] = o
  BY <1>1, <1>2, WheelAssumption DEF Locked, TypeOK
<1>4. Due(timers[id])' = [left |-> n, period |-> n, canceled |-> FALSE]
  BY <1>1, <1>2, <1>3 DEF Due, Remaining, TypeOK
<1>5. ASSUME NEW x \in Id \ {id}
      PROVE  /\ Locked(x)' <=> Locked(x)
             /\ Locked(x) => Due(timers[x])' = Due(timers[x])
  <2>1. timers'[x] = timers[x]
    BY <1>1, <1>2 DEF TypeOK
  <2>2. Locked(x) => timers[x] # o /\ timers[x] \in Object
    BY <1>1, <1>2 DEF Locked, EntriesInv, EntriesMatchTasks
  <2>3. QED
    BY <1>1, <1>2, <2>1, <2>2 DEF Locked, Due, Remaining, TypeOK
<1>6. Firing' = Firing /\ Firing # id
  BY <1>1, <1>2, NoneAssumption DEF Firing, TypeOK
<1>7. PICK C, D : C = Counts /\ D = Counts'
  OBVIOUS
<1>8. C[id] = None /\ D[id] = [left |-> n, period |-> n, canceled |-> FALSE]
  BY <1>3, <1>4, <1>7, CountsAre, CountsNext
<1>9. \A x \in Id \ {id} : D[x] = C[x]
  BY <1>5, <1>7, CountsAre, CountsNext
<1>10. D = [C EXCEPT ![id] = D[id]]
  BY <1>7, <1>9, CountsAre, CountsNext, OneCount
<1>11. Countdown!Arm(id, n)
  BY <1>6, <1>7, <1>8, <1>10 DEF Countdown!Arm, Countdown!Armed, Counts, Firing
<1>12. QED
  BY <1>11 DEF Countdown!AbstractNext

LEMMA StepRefreshes ==
  ASSUME ScheduleInv, ScheduleInv', NEW id \in Id, TimerRefreshOfLocked(id)
  PROVE  Countdown!AbstractNext
<1>1. TypeOK /\ EntriesInv /\ OnSchedule
  BY DEF ScheduleInv
<1>2. PICK o \in Object : o = timers[id] /\ task[o].id = id
  BY <1>1 DEF TimerRefreshOfLocked, Locked, EntriesInv, EntriesMatchTasks
<1>3. Locked(id) /\ UNCHANGED <<task, timers, dying>> /\ age' = [age EXCEPT ![o] = 0]
  BY <1>2 DEF TimerRefreshOfLocked, Restart
<1>4. Due(timers[id])' = [left |-> task[o].timeout, period |-> task[o].timeout,
                         canceled |-> task[o].canceled]
  BY <1>1, <1>2, <1>3 DEF Due, Remaining, TypeOK
<1>5. ASSUME NEW x \in Id \ {id}
      PROVE  /\ Locked(x)' <=> Locked(x)
             /\ Locked(x) => Due(timers[x])' = Due(timers[x])
  <2>1. Locked(x) => timers[x] # o /\ timers[x] \in Object
    BY <1>1, <1>2 DEF Locked, EntriesInv, EntriesMatchTasks
  <2>2. QED
    BY <1>1, <1>3, <2>1 DEF Locked, Due, Remaining, TypeOK
<1>6. Firing' = Firing
  BY <1>3 DEF Firing
<1>7. PICK C, D : C = Counts /\ D = Counts'
  OBVIOUS
<1>8. /\ C[id] # None
      /\ C[id] = [left |-> Remaining(o), period |-> task[o].timeout, canceled |-> task[o].canceled]
      /\ D[id] = [left |-> task[o].timeout, period |-> task[o].timeout,
                  canceled |-> task[o].canceled]
  BY <1>2, <1>3, <1>4, <1>7, CountsAre, CountsNext DEF Due, Locked
<1>9. \A x \in Id \ {id} : D[x] = C[x]
  BY <1>5, <1>7, CountsAre, CountsNext
<1>10. D = [C EXCEPT ![id] = D[id]]
  BY <1>7, <1>9, CountsAre, CountsNext, OneCount
<1>11. D[id] = [C[id] EXCEPT !.left = C[id].period]
  BY <1>8
<1>12. D = [C EXCEPT ![id].left = C[id].period]
  BY <1>10, <1>11
<1>13. Countdown!Rearm(id)
  BY <1>6, <1>7, <1>8, <1>12 DEF Countdown!Rearm, Countdown!Armed, Counts, Firing
<1>14. QED
  BY <1>13 DEF Countdown!AbstractNext

LEMMA StepCancels ==
  ASSUME ScheduleInv, ScheduleInv', NEW id \in Id, TimerCancelInLoop(id)
  PROVE  Countdown!AbstractNext
<1>1. TypeOK /\ EntriesInv /\ OnSchedule
  BY DEF ScheduleInv
<1>2. PICK o \in Object : o = timers[id] /\ task[o].id = id /\ Waiting(o)
  BY <1>1 DEF TimerCancelInLoop, Locked, EntriesInv, EntriesMatchTasks
<1>3. /\ Locked(id) /\ UNCHANGED <<timers, dying, age>>
      /\ task' = [task EXCEPT ![o].canceled = TRUE]
      /\ dying # o
  BY <1>1, <1>2, WheelAssumption DEF TimerCancelInLoop, history, EntriesInv
<1>4. Due(timers[id])' = [left |-> Remaining(o), period |-> task[o].timeout, canceled |-> TRUE]
  BY <1>1, <1>2, <1>3 DEF Due, Remaining, TypeOK
<1>5. ASSUME NEW x \in Id \ {id}
      PROVE  /\ Locked(x)' <=> Locked(x)
             /\ Locked(x) => Due(timers[x])' = Due(timers[x])
  <2>1. Locked(x) => timers[x] # o /\ timers[x] \in Object
    BY <1>1, <1>2 DEF Locked, EntriesInv, EntriesMatchTasks
  <2>2. QED
    BY <1>1, <1>3, <2>1 DEF Locked, Due, Remaining, TypeOK
<1>6. Firing' = Firing
  BY <1>1, <1>3 DEF Firing, TypeOK
<1>7. PICK C, D : C = Counts /\ D = Counts'
  OBVIOUS
<1>8. /\ C[id] # None
      /\ C[id] = [left |-> Remaining(o), period |-> task[o].timeout, canceled |-> task[o].canceled]
      /\ D[id] = [left |-> Remaining(o), period |-> task[o].timeout, canceled |-> TRUE]
  BY <1>2, <1>3, <1>4, <1>7, CountsAre, CountsNext DEF Due, Locked
<1>9. \A x \in Id \ {id} : D[x] = C[x]
  BY <1>5, <1>7, CountsAre, CountsNext
<1>10. D = [C EXCEPT ![id] = D[id]]
  BY <1>7, <1>9, CountsAre, CountsNext, OneCount
<1>11. D[id] = [C[id] EXCEPT !.canceled = TRUE]
  <2>1. PICK l, p, b, t : l = Remaining(o) /\ p = task[o].timeout /\ b = task[o].canceled /\ t = TRUE
    OBVIOUS
  <2>2. [[left |-> l, period |-> p, canceled |-> b] EXCEPT !.canceled = t]
          = [left |-> l, period |-> p, canceled |-> t]
    OBVIOUS
  <2>3. QED
    BY <1>8, <2>1, <2>2
<1>12. D = [C EXCEPT ![id].canceled = TRUE]
  BY <1>10, <1>11
<1>13. Countdown!Cancel(id)
  BY <1>6, <1>7, <1>8, <1>12 DEF Countdown!Cancel, Countdown!Armed, Counts, Firing
<1>14. QED
  BY <1>13 DEF Countdown!AbstractNext

LEMMA StepExpires ==
  ASSUME ScheduleInv, ScheduleInv', NEW o \in Object, ReleaseLast(o)
  PROVE  Countdown!AbstractNext
<1>1. TypeOK /\ EntriesInv /\ OnSchedule
  BY DEF ScheduleInv
<1>2. /\ dying = None /\ dying' = o /\ UNCHANGED <<task, age>> /\ o # None
      /\ timers' = [id \in Id |-> IF timers[id] = o THEN Expired ELSE timers[id]]
      /\ o \in wheel[tick]
  BY WheelAssumption DEF ReleaseLast, ReleasePointer, history
<1>3. Waiting(o)
  BY <1>1, <1>2 DEF Waiting, TypeOK
<1>4. PICK id \in Id : id = task[o].id /\ timers[id] = o
  BY <1>1, <1>3 DEF EntriesInv, EntriesMatchTasks
<1>5. Remaining(o) = 0
  <2>1. age'[o] = task'[o].timeout
    BY <1>2 DEF ScheduleInv, OnSchedule, FiresOnTime
  <2>2. age[o] \in Nat /\ task[o].timeout \in Nat
    BY <1>1 DEF TypeOK
  <2>3. QED
    BY <1>2, <2>1, <2>2 DEF Remaining
<1>6. Locked(id) /\ ~Locked(id)'
  BY <1>1, <1>2, <1>4, WheelAssumption DEF Locked
<1>7. ASSUME NEW x \in Id \ {id}
      PROVE  /\ Locked(x)' <=> Locked(x)
             /\ Locked(x) => Due(timers[x])' = Due(timers[x])
  <2>1. timers[x] # o
    BY <1>1, <1>2, <1>4 DEF Locked, EntriesInv, EntriesMatchTasks
  <2>2. timers'[x] = timers[x]
    BY <1>2, <2>1
  <2>3. QED
    BY <1>2, <2>2 DEF Locked, Due, Remaining
<1>8. Firing = None /\ Firing' = id
  BY <1>2, <1>4 DEF Firing
<1>9. PICK C, D : C = Counts /\ D = Counts'
  OBVIOUS
<1>10. C[id] # None /\ C[id].left = 0 /\ D[id] = None
  BY <1>4, <1>5, <1>6, <1>9, CountsAre, CountsNext DEF Due
<1>11. \A x \in Id \ {id} : D[x] = C[x]
  BY <1>7, <1>9, CountsAre, CountsNext
<1>12. D = [C EXCEPT ![id] = D[id]]
  BY <1>9, <1>11, CountsAre, CountsNext, OneCount
<1>13. Countdown!Expire(id)
  BY <1>8, <1>9, <1>10, <1>12 DEF Countdown!Expire, Countdown!Armed, Counts, Firing
<1>14. QED
  BY <1>13 DEF Countdown!AbstractNext

LEMMA StepFinishes ==
  ASSUME ScheduleInv, ScheduleInv', EndTimerTask
  PROVE  Countdown!AbstractNext
<1>1. TypeOK /\ EntriesInv /\ OnSchedule
  BY DEF ScheduleInv
<1>2. /\ dying # None /\ dying' = None
      /\ timers' = [timers EXCEPT ![task[dying].id] = None]
      /\ \A x \in Object \ {dying} : task'[x] = task[x] /\ age'[x] = age[x]
  BY <1>1 DEF EndTimerTask, TypeOK
<1>3. PICK id \in Id : id = task[dying].id
  BY <1>1, <1>2 DEF EntriesInv
<1>4. ~Locked(id)
  BY <1>1, <1>2, <1>3 DEF EntriesInv, EntriesMatchTasks, Locked
<1>5. ASSUME NEW x \in Id
      PROVE  /\ Locked(x)' <=> Locked(x)
             /\ Locked(x) => Due(timers[x])' = Due(timers[x])
  <2>1. x = id => timers'[x] = None
    BY <1>1, <1>2, <1>3 DEF TypeOK
  <2>2. x # id => timers'[x] = timers[x]
    BY <1>1, <1>2, <1>3 DEF TypeOK
  <2>3. Locked(x) => timers[x] \in Object \ {dying}
    BY <1>1, <1>2 DEF Locked, EntriesInv, EntriesMatchTasks
  <2>4. CASE x = id
    BY <1>4, <2>1, <2>4, WheelAssumption DEF Locked
  <2>5. CASE x # id
    BY <1>2, <2>2, <2>3, <2>5 DEF Locked, Due, Remaining
  <2>6. QED
    BY <2>4, <2>5
<1>6. Firing # None /\ Firing' = None
  BY <1>2, CountsAre DEF Firing
<1>7. \A x \in Id : Counts'[x] = Counts[x]
  BY <1>5, CountsAre, CountsNext
<1>8. Counts' = Counts
  BY <1>7, CountsAre, CountsNext, SameCounts
<1>9. Countdown!Finish
  BY <1>6, <1>8 DEF Countdown!Finish, Counts, Firing
<1>10. QED
  BY <1>9 DEF Countdown!AbstractNext

LEMMA StepCounts ==
  ASSUME ScheduleInv, ScheduleInv', TurnHand
  PROVE  Countdown!AbstractNext
<1>1. TypeOK /\ EntriesInv /\ OnSchedule
  BY DEF ScheduleInv
<1>2. /\ dying = None /\ dying' = None /\ wheel[tick] = {}
      /\ UNCHANGED <<task, timers>>
      /\ \A x \in Object : Waiting(x) => age'[x] = age[x] + 1
  BY <1>1 DEF TurnHand, TypeOK
<1>3. ASSUME NEW x \in Object, Waiting(x)
      PROVE  Remaining(x) > 0 /\ Remaining(x)' = Remaining(x) - 1
  <2>1. Remaining(x) \in Slot /\ x \in wheel[Position(Remaining(x))]
    BY <1>1, <1>3 DEF OnSchedule
  <2>2. Remaining(x) # 0
    BY <1>1, <1>2, <2>1, PositionFacts
  <2>3. age[x] \in Nat /\ task[x].timeout \in Nat
    BY <1>1 DEF TypeOK
  <2>4. Remaining(x)' = Remaining(x) - 1
    BY <1>2, <1>3, <2>3 DEF Remaining
  <2>5. QED
    BY <2>1, <2>2, <2>4, WheelAssumption DEF Slot
<1>4. \A id \in Id : Locked(id)' <=> Locked(id)
  BY <1>2 DEF Locked
<1>5. ASSUME NEW id \in Id, Locked(id)
      PROVE  /\ Due(timers[id]).left > 0
             /\ Due(timers[id])' = [Due(timers[id]) EXCEPT !.left = @ - 1]
  <2>1. PICK o \in Object : o = timers[id] /\ Waiting(o)
    BY <1>1, <1>5 DEF Locked, EntriesInv, EntriesMatchTasks
  <2>2. Remaining(o) > 0 /\ Remaining(o)' = Remaining(o) - 1 /\ timers'[id] = o
    BY <1>2, <1>3, <2>1
  <2>3. PICK r, p, b : r = Remaining(o) /\ p = task[o].timeout /\ b = task[o].canceled
    OBVIOUS
  <2>4. Due(timers[id]) = [left |-> r, period |-> p, canceled |-> b]
    BY <2>1, <2>3 DEF Due
  <2>5. Due(timers[id])' = [left |-> r - 1, period |-> p, canceled |-> b]
    BY <1>2, <2>2, <2>3 DEF Due
  <2>6. QED
    BY <2>2, <2>3, <2>4, <2>5
<1>6. PICK C, D : C = Counts /\ D = Counts'
  OBVIOUS
<1>7. \A id \in Id : C[id] # None => C[id].left > 0
  BY <1>5, <1>6, CountsAre
<1>8. \A id \in Id : D[id] = IF C[id] # None THEN [C[id] EXCEPT !.left = @ - 1] ELSE None
  BY <1>4, <1>5, <1>6, CountsAre, CountsNext
<1>9. D = [id \in Id |-> IF C[id] # None THEN [C[id] EXCEPT !.left = @ - 1] ELSE None]
  BY <1>6, <1>8, CountsNext
<1>10. Firing = None /\ Firing' = None
  BY <1>2 DEF Firing
<1>11. Countdown!CountDown
  BY <1>6, <1>7, <1>9, <1>10 DEF Countdown!CountDown, Countdown!Armed, Counts, Firing
<1>12. QED
  BY <1>11 DEF Countdown!AbstractNext

LEMMA StepHides ==
  ASSUME ScheduleInv, ScheduleInv',
         \/ \E id \in Id : TimerRefreshOfExpired(id)
         \/ CountExpiration \/ ReadTimerfd \/ UNCHANGED vars
         \/ \E o \in Object : ReleaseShared(o)
  PROVE  Counts' = Counts /\ Firing' = Firing
<1>1. UNCHANGED <<task, dying, age>>
  BY DEF TimerRefreshOfExpired, CountExpiration, ReadTimerfd, ReleaseShared, ReleasePointer,
         vars, wheelVars, history
<1>2. \A id \in Id : timers'[id] = timers[id] \/ (timers[id] = Expired /\ timers'[id] = None)
  <2>1. CASE \E id \in Id : TimerRefreshOfExpired(id)
    BY <2>1 DEF TimerRefreshOfExpired, ScheduleInv, TypeOK
  <2>2. CASE ~ \E id \in Id : TimerRefreshOfExpired(id)
    BY <2>2 DEF CountExpiration, ReadTimerfd, ReleaseShared, vars, wheelVars
  <2>3. QED
    BY <2>1, <2>2
<1>3. \A id \in Id : /\ Locked(id)' <=> Locked(id)
                     /\ Locked(id) => Due(timers[id])' = Due(timers[id])
  BY <1>1, <1>2, WheelAssumption DEF Locked, Due, Remaining
<1>4. Firing' = Firing
  BY <1>1 DEF Firing
<1>5. QED
  BY <1>3, <1>4, CountsStay

(* With timeouts shorter than the wheel, the slots and shared pointers are  *)
(* as good as one countdown for each timer: refreshing starts it again,     *)
(* cancelling leaves it but takes its callback, and it expires at zero      *)
(* (TimerWheel.hpp, all operations).                                        *)
THEOREM WheelIsCountdown ==
  ASSUME Timeout \subseteq Slot
  PROVE  Spec => WheelCountsDown
<1>1. Init => ScheduleInv
  BY WheelAssumption, EntriesInit, ScheduleInit DEF Init, ScheduleInv, TypeOK, Free, Slot
<1>2. Init => Countdown!AbstractInit
  <2> SUFFICES ASSUME Init PROVE Countdown!AbstractInit
    OBVIOUS
  <2>1. \A id \in Id : ~Locked(id)
    BY WheelAssumption DEF Init, Locked
  <2>2. Counts = [id \in Id |-> None]
    BY <2>1 DEF Counts
  <2>3. QED
    BY <2>2 DEF Init, Counts, Countdown!AbstractInit
<1>3. ScheduleInv /\ ScheduleInv' /\ [Next]_vars
        => [Countdown!AbstractNext]_(Countdown!abstractVars)
  <2> SUFFICES ASSUME ScheduleInv, ScheduleInv', [Next]_vars
               PROVE  \/ Countdown!AbstractNext
                      \/ Counts' = Counts /\ Firing' = Firing
    BY DEF Countdown!abstractVars, Counts, Firing
  <2>1. QED
    BY NextCases, StepAdds, StepRefreshes, StepCancels, StepExpires, StepFinishes, StepCounts,
       StepHides
<1>4. ScheduleInv <=> TypeOK /\ EntriesInv /\ OnSchedule
  BY DEF ScheduleInv
<1>5. TypeOK /\ EntriesInv /\ OnSchedule /\ [Next]_vars => OnSchedule'
  BY ScheduleStep
<1>6. Init => OnSchedule
  BY ScheduleInit
<1>7. QED
  BY <1>2, <1>3, <1>4, <1>5, <1>6, TypeCorrect, EntriesInvariant, PTL
     DEF Spec, WheelCountsDown, Countdown!SafeTimers

-------------------------------------------------------------------------------
(* The buffer.                                                              *)

(* The readable bytes.                                                      *)
Unread == ReadAsString(ReadAbleSize)

-------------------------------------------------------------------------------
(* What EnsureWriteSpace does, in whichever way it makes room: the unread   *)
(* bytes are where the offsets say, and the vector never shrinks.           *)
LEMMA RoomKeepsBytes ==
  ASSUME BufferTypes, NEW len \in Nat, NEW b, b = EnsureWriteSpace(len)
  PROVE  /\ b.size \in size .. Limit
         /\ b.data \in [0 .. b.size - 1 -> Byte]
         /\ b.reader \in Nat /\ b.writer \in Nat
         /\ b.reader <= b.writer /\ b.writer <= b.size
         /\ b.writer - b.reader = ReadAbleSize
         /\ \A i \in 1 .. ReadAbleSize : b.data[b.reader + i - 1] = data[reader + i - 1]
<1> USE BufferAssumption DEF BufferTypes, Layout, ReadAbleSize, TailIdleSize
<1>0. /\ size \in Nat /\ Limit \in Nat /\ size <= Limit /\ size > 0
      /\ reader \in Nat /\ writer \in Nat /\ reader <= writer /\ writer <= size
  OBVIOUS
<1>1. CASE len <= TailIdleSize
  BY <1>0, <1>1 DEF EnsureWriteSpace
<1>2. CASE len > TailIdleSize /\ len <= reader + TailIdleSize
  <2>1. b = Layout(size, Move(reader, ReadAbleSize), 0, ReadAbleSize)
    BY <1>0, <1>2 DEF EnsureWriteSpace
  <2>2. Move(reader, ReadAbleSize) \in [0 .. size - 1 -> Byte]
    BY <1>0 DEF Move
  <2>3. \A i \in 1 .. ReadAbleSize :
          Move(reader, ReadAbleSize)[0 + i - 1] = data[reader + i - 1]
    BY <1>0 DEF Move
  <2>4. QED
    BY <1>0, <2>1, <2>2, <2>3
<1>3. CASE len > TailIdleSize /\ len > reader + TailIdleSize
  <2> DEFINE d == [i \in 0 .. Enlarged(len) - 1 |-> IF i < size THEN data[i] ELSE Zero]
  <2>1. b = Layout(Enlarged(len), d, reader, writer)
    BY <1>0, <1>3 DEF EnsureWriteSpace
  <2>2. Enlarged(len) \in size .. Limit
    BY <1>0 DEF Enlarged, Largest
  <2>3. d \in [0 .. Enlarged(len) - 1 -> Byte]
    BY <1>0, <2>2
  <2>4. \A i \in 1 .. ReadAbleSize : d[reader + i - 1] = data[reader + i - 1]
    BY <1>0, <2>2
  <2> HIDE DEF d
  <2>5. QED
    BY <1>0, <2>1, <2>2, <2>3, <2>4
<1>4. QED
  BY <1>0, <1>1, <1>2, <1>3

LEMMA ReadTypes ==
  ASSUME BufferTypes, NEW n \in 0 .. ReadAbleSize
  PROVE  /\ ReadAsString(n) \in Seq(Byte)
         /\ Len(ReadAsString(n)) = n
         /\ \A i \in 1 .. n : ReadAsString(n)[i] = data[reader + i - 1]
<1>1. n \in Nat /\ \A i \in 1 .. n : data[reader + i - 1] \in Byte
  BY BufferAssumption DEF BufferTypes, ReadAbleSize
<1>2. ReadAsString(n) \in [1 .. n -> Byte]
  BY <1>1 DEF ReadAsString
<1>3. QED
  BY <1>1, <1>2, SeqDef DEF ReadAsString

LEMMA NothingDone ==
  ASSUME NEW op \in {"none", "put", "get", "line", "clear"}
  PROVE  <<op, <<>>>> \in {"none", "put", "get", "line", "clear"} \X Seq(Byte)
<1> DEFINE e == <<>>
<1>1. e \in Seq(Byte)
  BY EmptySeq
<1> HIDE DEF e
<1>2. <<op, e>> \in {"none", "put", "get", "line", "clear"} \X Seq(Byte)
  BY <1>1
<1>3. QED
  BY <1>2 DEF e

(* FindCRLF finds a byte among the unread ones.                             *)
LEMMA LineLengths ==
  ASSUME BufferTypes, GetLineAndPop
  PROVE  \E n \in 0 .. ReadAbleSize : Pop("line", n)
<1>1. ReadAbleSize \in Nat
  BY DEF BufferTypes, ReadAbleSize
<1>2. CASE \E n \in 1 .. size : FindCRLF(n) /\ Pop("line", n)
  BY <1>1, <1>2 DEF FindCRLF
<1>3. CASE Pop("line", 0)
  BY <1>1, <1>3
<1>4. QED
  BY <1>2, <1>3 DEF GetLineAndPop

(* The offsets stay in order and inside the vector, which stays below its   *)
(* limit (Buffer.hpp: every access is in bounds).                           *)
THEOREM BufferTypeCorrect == BufferSpec => []BufferTypes
<1>1. BufferInit => BufferTypes
  <2> SUFFICES ASSUME BufferInit PROVE BufferTypes
    OBVIOUS
  <2>1. io \in {"none", "put", "get", "line", "clear"} \X Seq(Byte)
    BY NothingDone DEF BufferInit
  <2>2. data \in [0 .. size - 1 -> Byte]
    BY BufferAssumption DEF BufferInit
  <2>3. Default \in Default .. Limit /\ 0 <= Default
    BY BufferAssumption
  <2>4. size = Default /\ reader = 0 /\ writer = 0
    BY DEF BufferInit
  <2>5. failed \in BOOLEAN
    BY DEF BufferInit
  <2>6. size \in Default .. Limit /\ reader <= writer /\ writer <= size
    BY <2>3, <2>4
  <2>7. QED
    BY <2>1, <2>2, <2>4, <2>5, <2>6 DEF BufferTypes
<1>2. BufferTypes /\ [BufferNext]_bufferVars => BufferTypes'
  <2> SUFFICES ASSUME BufferTypes, [BufferNext]_bufferVars PROVE BufferTypes'
    OBVIOUS
  <2>1. ASSUME NEW s \in Writes, WriteAndPush(s) PROVE BufferTypes'
    <3> DEFINE b == EnsureWriteSpace(Len(s))
    <3>1. s \in Seq(Byte) /\ Len(s) \in Nat /\ \A i \in 1 .. Len(s) : s[i] \in Byte
      BY BufferAssumption
    <3>2. /\ b.size \in size .. Limit
          /\ b.data \in [0 .. b.size - 1 -> Byte]
          /\ b.reader \in Nat /\ b.writer \in Nat
          /\ b.reader <= b.writer /\ b.writer <= b.size
      BY <3>1, RoomKeepsBytes
    <3>3. size \in Default .. Limit /\ failed \in BOOLEAN
          /\ io \in {"none", "put", "get", "line", "clear"} \X Seq(Byte)
      BY DEF BufferTypes
    <3>4. size' = b.size /\ reader' = b.reader
      BY <2>1 DEF WriteAndPush
    <3>5. b.size \in Default .. Limit
      BY <3>2, <3>3, BufferAssumption
    <3>6. CASE Len(s) <= b.size - b.writer
      <4>1. /\ data' = [i \in 0 .. b.size - 1 |->
                          IF b.writer <= i /\ i < b.writer + Len(s)
                          THEN s[i - b.writer + 1] ELSE b.data[i]]
            /\ writer' = b.writer + Len(s) /\ io' = <<"put", s>> /\ failed' = failed
        BY <2>1, <3>6 DEF WriteAndPush
      <4> HIDE DEF b
      <4>2. data' \in [0 .. b.size - 1 -> Byte]
        BY <3>1, <3>2, <4>1
      <4>3. writer' \in Nat /\ reader' <= writer' /\ writer' <= b.size
        BY <3>1, <3>2, <3>4, <3>5, <3>6, <4>1, BufferAssumption
      <4>4. QED
        BY <3>1, <3>2, <3>3, <3>4, <3>5, <4>1, <4>2, <4>3 DEF BufferTypes
    <3>7. CASE ~(Len(s) <= b.size - b.writer)
      <4>1. failed' = TRUE /\ data' = b.data /\ writer' = b.writer /\ io' = io
        BY <2>1, <3>7 DEF WriteAndPush
      <4>2. QED
        BY <3>2, <3>3, <3>4, <3>5, <4>1 DEF BufferTypes
    <3>8. QED
      BY <3>6, <3>7
  <2>2. ASSUME NEW op \in {"get", "line"}, NEW n \in 0 .. ReadAbleSize, Pop(op, n)
        PROVE  BufferTypes'
    <3>1. ReadAsString(n) \in Seq(Byte)
      BY ReadTypes
    <3>2. reader + n \in Nat /\ reader + n <= writer
      BY BufferAssumption DEF BufferTypes, ReadAbleSize
    <3>3. QED
      BY <2>2, <3>1, <3>2 DEF Pop, BufferTypes
  <2>3. ASSUME NEW n \in 1 .. ReadAbleSize, ReadAndPop(n) PROVE BufferTypes'
    <3>1. n \in 0 .. ReadAbleSize
      BY DEF BufferTypes, ReadAbleSize
    <3>2. QED
      BY <2>2, <2>3, <3>1 DEF ReadAndPop
  <2>4. CASE GetLineAndPop
    BY <2>2, <2>4, LineLengths
  <2>5. CASE Clear
    <3>1. io' \in {"none", "put", "get", "line", "clear"} \X Seq(Byte)
      BY <2>5, NothingDone DEF Clear
    <3>2. size' \in Default .. Limit /\ data' \in [0 .. size' - 1 -> Byte]
      BY <2>5, BufferAssumption DEF Clear, BufferTypes
    <3>3. reader' = 0 /\ writer' = 0
      BY <2>5 DEF Clear
    <3>4. failed' \in BOOLEAN
      BY <2>5 DEF Clear, BufferTypes
    <3>5. reader' <= writer' /\ writer' <= size'
      BY <3>2, <3>3, BufferAssumption
    <3>6. QED
      BY <3>1, <3>2, <3>3, <3>4, <3>5 DEF BufferTypes
  <2>6. CASE UNCHANGED bufferVars
    BY <2>6 DEF bufferVars, BufferTypes
  <2>7. QED
    BY <2>1, <2>3, <2>4, <2>5, <2>6 DEF BufferNext
<1>3. QED
  BY <1>1, <1>2, PTL DEF BufferSpec

-------------------------------------------------------------------------------
(* The assertion fails only when the vector would exceed the limit.         *)
THEOREM FailsAtLimit == BufferSpec => FailsOnlyAtLimit
<1>1. BufferTypes /\ [BufferNext]_bufferVars =>
        [failed' # failed => \E s \in Writes : /\ writer + Len(s) > Limit
                                               /\ ReadAbleSize + Len(s) > size]_bufferVars
  <2> SUFFICES ASSUME BufferTypes, BufferNext, failed' # failed
               PROVE  \E s \in Writes : /\ writer + Len(s) > Limit
                                        /\ ReadAbleSize + Len(s) > size
    BY DEF bufferVars
  <2>1. PICK s \in Writes : WriteAndPush(s)
    BY DEF BufferNext, ReadAndPop, GetLineAndPop, Pop, Clear
  <2>2. /\ Len(s) \in Nat /\ size \in Nat /\ Limit \in Nat /\ size <= Limit
        /\ reader \in Nat /\ writer \in Nat /\ reader <= writer /\ writer <= size
    BY BufferAssumption DEF BufferTypes
  <2>3. ~(Len(s) <= EnsureWriteSpace(Len(s)).size - EnsureWriteSpace(Len(s)).writer)
    BY <2>1 DEF WriteAndPush
  <2>4. QED
    BY <2>2, <2>3
    DEF EnsureWriteSpace, Layout, Enlarged, Largest, ReadAbleSize, TailIdleSize
<1>2. QED
  BY <1>1, BufferTypeCorrect, PTL DEF BufferSpec, FailsOnlyAtLimit

-------------------------------------------------------------------------------
(* A Buffer is a queue of bytes.                                            *)

LEMMA UnreadIsSequence ==
  ASSUME BufferTypes
  PROVE  /\ ReadAbleSize \in Nat
         /\ Unread \in Seq(Byte) /\ Len(Unread) = ReadAbleSize
         /\ \A i \in 1 .. ReadAbleSize : Unread[i] = data[reader + i - 1]
<1>1. ReadAbleSize \in 0 .. ReadAbleSize
  BY DEF BufferTypes, ReadAbleSize
<1>2. QED
  BY <1>1, ReadTypes DEF Unread

LEMMA InsideVector ==
  ASSUME NEW r \in Nat, NEW w \in Nat, NEW n \in Nat, w <= n,
         NEW i \in Nat, 1 <= i, i <= w - r
  PROVE  r + i - 1 \in 0 .. n - 1
OBVIOUS

(* A position behind the read offset is one of an unread byte or one of     *)
(* the bytes being written.                                                 *)
LEMMA WritePositions ==
  ASSUME NEW r \in Nat, NEW w \in Nat, NEW n \in Nat, NEW m \in Nat, NEW l \in Nat,
         w - r = m, l <= n - w, NEW i \in 1 .. m + l
  PROVE  /\ r + i - 1 \in 0 .. n - 1
         /\ w <= r + i - 1 <=> ~(i <= m)
         /\ r + i - 1 < w + l
         /\ (r + i - 1) - w + 1 = i - m
OBVIOUS

(* However room is made, writing appends to the unread bytes.               *)
LEMMA WritePuts ==
  ASSUME BufferTypes, NEW s \in Writes, WriteAndPush(s), BufferTypes'
  PROVE  Bytes!Put \/ UNCHANGED <<Unread, io>>
<1> DEFINE b == EnsureWriteSpace(Len(s))
<1>1. s \in Seq(Byte) /\ Len(s) \in Nat /\ \A i \in 1 .. Len(s) : s[i] \in Byte
  BY BufferAssumption
<1>2. /\ b.size \in Nat /\ b.reader \in Nat /\ b.writer \in Nat
      /\ b.reader <= b.writer /\ b.writer <= b.size
      /\ b.writer - b.reader = ReadAbleSize
      /\ \A i \in 1 .. ReadAbleSize : b.data[b.reader + i - 1] = data[reader + i - 1]
  <2>1. size \in Nat /\ Limit \in Nat
    BY BufferAssumption DEF BufferTypes
  <2>2. QED
    BY <1>1, <2>1, RoomKeepsBytes
<1>3. size' = b.size /\ reader' = b.reader
  BY DEF WriteAndPush
<1>4. /\ ReadAbleSize \in Nat /\ Unread \in Seq(Byte) /\ Len(Unread) = ReadAbleSize
      /\ \A i \in 1 .. ReadAbleSize : Unread[i] = data[reader + i - 1]
  BY UnreadIsSequence
<1>5. /\ ReadAbleSize' \in Nat /\ Unread' \in Seq(Byte) /\ Len(Unread') = ReadAbleSize'
      /\ \A i \in 1 .. ReadAbleSize' : Unread'[i] = data'[reader' + i - 1]
  <2>1. ReadAbleSize' \in Nat
    BY BufferAssumption, <1>2, <1>3 DEF BufferTypes, ReadAbleSize
  <2>2. Unread' = [i \in 1 .. ReadAbleSize' |-> data'[reader' + i - 1]]
    BY DEF Unread, ReadAsString
  <2>3. \A i \in 1 .. ReadAbleSize' : data'[reader' + i - 1] \in Byte
    <3> HIDE DEF b
    <3>1. data' \in [0 .. size' - 1 -> Byte]
      BY DEF BufferTypes
    <3>2. size' \in Nat /\ reader' \in Nat /\ writer' \in Nat /\ writer' <= size'
      BY <1>2, <1>3 DEF BufferTypes
    <3>3. ASSUME NEW i \in Nat, 1 <= i, i <= writer' - reader'
          PROVE  data'[reader' + i - 1] \in Byte
      <4>1. reader' + i - 1 \in 0 .. size' - 1
        BY <3>2, <3>3, InsideVector
      <4>2. QED
        BY <3>1, <4>1
    <3>4. QED
      BY <3>3 DEF ReadAbleSize
  <2>4. Unread' \in [1 .. ReadAbleSize' -> Byte]
    BY <2>2, <2>3
  <2>5. QED
    BY <2>1, <2>2, <2>4, SeqDef
<1>6. CASE Len(s) <= b.size - b.writer
  <2>1. /\ data' = [i \in 0 .. b.size - 1 |->
                      IF b.writer <= i /\ i < b.writer + Len(s)
                      THEN s[i - b.writer + 1] ELSE b.data[i]]
        /\ writer' = b.writer + Len(s) /\ io' = <<"put", s>>
    BY <1>6 DEF WriteAndPush
  <2> HIDE DEF b
  <2>2. ReadAbleSize' = ReadAbleSize + Len(s)
    BY <1>1, <1>2, <1>3, <1>4, <2>1 DEF ReadAbleSize
  <2>3. \A i \in 1 .. ReadAbleSize' :
          Unread'[i] = IF i <= ReadAbleSize THEN Unread[i] ELSE s[i - ReadAbleSize]
    <3> SUFFICES ASSUME NEW i \in 1 .. ReadAbleSize'
                 PROVE  Unread'[i] = IF i <= ReadAbleSize THEN Unread[i]
                                                          ELSE s[i - ReadAbleSize]
      OBVIOUS
    <3> DEFINE k == b.reader + i - 1
    <3>1. /\ k \in 0 .. b.size - 1
          /\ b.writer <= k <=> ~(i <= ReadAbleSize)
          /\ k < b.writer + Len(s)
          /\ k - b.writer + 1 = i - ReadAbleSize
      <4> DEFINE r == b.reader
                 w == b.writer
                 n == b.size
                 m == ReadAbleSize
                 l == Len(s)
      <4>1. /\ r \in Nat /\ w \in Nat /\ n \in Nat /\ m \in Nat /\ l \in Nat
            /\ w - r = m /\ l <= n - w /\ i \in 1 .. m + l
        BY <1>1, <1>2, <1>4, <1>6, <2>2
      <4> HIDE DEF r, w, n, m, l
      <4>2. /\ r + i - 1 \in 0 .. n - 1
            /\ w <= r + i - 1 <=> ~(i <= m)
            /\ r + i - 1 < w + l
            /\ (r + i - 1) - w + 1 = i - m
        BY <4>1, WritePositions
      <4>3. QED
        BY <4>2 DEF r, w, n, m, l
    <3>2. Unread'[i] = data'[k]
      BY <1>3, <1>5
    <3>3. data'[k] = IF i <= ReadAbleSize THEN b.data[k] ELSE s[i - ReadAbleSize]
      BY <2>1, <3>1
    <3>4. i <= ReadAbleSize => b.data[k] = Unread[i]
      BY <1>2, <1>4
    <3>5. QED
      BY <3>2, <3>3, <3>4
  <2>4. Unread' = Unread \o s
    <3>1. /\ Unread \o s \in Seq(Byte) /\ Len(Unread \o s) = ReadAbleSize'
          /\ \A i \in 1 .. ReadAbleSize' :
               (Unread \o s)[i] = IF i <= ReadAbleSize THEN Unread[i]
                                                       ELSE s[i - ReadAbleSize]
      BY <1>1, <1>4, <2>2
    <3>2. \A i \in 1 .. Len(Unread') : Unread'[i] = (Unread \o s)[i]
      BY <1>5, <2>3, <3>1
    <3>3. QED
      BY <1>5, <3>1, <3>2, SeqEqual
  <2>5. QED
    BY <1>1, <2>1, <2>4 DEF Bytes!Put, Unread
<1>7. CASE ~(Len(s) <= b.size - b.writer)
  <2>1. data' = b.data /\ writer' = b.writer /\ io' = io
    BY <1>7 DEF WriteAndPush
  <2> HIDE DEF b
  <2>2. ReadAbleSize' = ReadAbleSize
    BY <1>2, <1>3, <2>1 DEF ReadAbleSize
  <2>3. \A i \in 1 .. ReadAbleSize : Unread'[i] = Unread[i]
    BY <1>2, <1>3, <1>4, <1>5, <2>1, <2>2
  <2>4. Unread' = Unread
    BY <1>4, <1>5, <2>2, <2>3, SeqEqual
  <2>5. QED
    BY <2>1, <2>4
<1>8. QED
  BY <1>6, <1>7

(* Reading and moving the read offset removes the first bytes.              *)
LEMMA PopRemoves ==
  ASSUME BufferTypes, NEW op, NEW n \in 0 .. ReadAbleSize, Pop(op, n), BufferTypes'
  PROVE  Bytes!Remove(op, n)
<1>1. /\ ReadAbleSize \in Nat /\ Unread \in Seq(Byte) /\ Len(Unread) = ReadAbleSize
      /\ \A i \in 1 .. ReadAbleSize : Unread[i] = data[reader + i - 1]
  BY UnreadIsSequence
<1>2. reader \in Nat /\ reader' = reader + n /\ UNCHANGED <<size, data, writer>>
  BY DEF Pop, BufferTypes
<1>3. ReadAbleSize' = ReadAbleSize - n
  BY <1>1, <1>2 DEF ReadAbleSize, BufferTypes
<1>4. ReadAsString(n) = SubSeq(Unread, 1, n)
  <2>1. SubSeq(Unread, 1, n) = [i \in 1 .. n |-> Unread[i]]
    <3>1. n \in Nat
      BY <1>1
    <3>2. QED
      BY <1>1, <3>1
  <2>2. \A i \in 1 .. n : Unread[i] = data[reader + i - 1]
    BY <1>1
  <2>3. QED
    BY <2>1, <2>2 DEF ReadAsString
<1>5. Unread' = SubSeq(Unread, n + 1, Len(Unread))
  <2>1. Unread' = [i \in 1 .. ReadAbleSize - n |-> data[reader + n + i - 1]]
    BY <1>2, <1>3 DEF Unread, ReadAsString
  <2>2. SubSeq(Unread, n + 1, ReadAbleSize) =
          [i \in 1 .. ReadAbleSize - n |-> Unread[n + i]]
    BY <1>1
  <2>3. \A i \in 1 .. ReadAbleSize - n : Unread[n + i] = data[reader + n + i - 1]
    BY <1>1, <1>2
  <2>4. QED
    BY <1>1, <2>1, <2>2, <2>3
<1>6. QED
  BY <1>4, <1>5 DEF Bytes!Remove, Pop, Unread

LEMMA LineGets ==
  ASSUME BufferTypes, GetLineAndPop, BufferTypes'
  PROVE  Bytes!GetLine
<1>1. /\ ReadAbleSize \in Nat /\ Len(Unread) = ReadAbleSize
      /\ \A i \in 1 .. ReadAbleSize : Unread[i] = data[reader + i - 1]
  BY UnreadIsSequence
<1>2. ReadAbleSize <= size
  BY BufferAssumption DEF BufferTypes, ReadAbleSize
<1>3. ASSUME NEW n \in 1 .. size, FindCRLF(n), Pop("line", n)
      PROVE  Bytes!GetLine
  <2>1. n \in 1 .. ReadAbleSize
    BY <1>1, <1>3 DEF FindCRLF
  <2>2. Unread[n] = Newline /\ \A i \in 1 .. n - 1 : Unread[i] # Newline
    BY <1>1, <1>3, <2>1 DEF FindCRLF
  <2>3. Bytes!Remove("line", n)
    BY <1>1, <1>3, <2>1, PopRemoves
  <2>4. QED
    BY <1>1, <2>1, <2>2, <2>3 DEF Bytes!GetLine, Unread
<1>4. ASSUME NoCRLF, Pop("line", 0)
      PROVE  Bytes!GetLine
  <2>1. \A n \in 1 .. ReadAbleSize : Unread[n] # Newline
    BY <1>1, <1>4 DEF NoCRLF
  <2>2. Bytes!Remove("line", 0)
    BY <1>1, <1>4, PopRemoves
  <2>3. QED
    BY <1>1, <2>1, <2>2 DEF Bytes!GetLine, Unread
<1>5. QED
  BY <1>3, <1>4 DEF GetLineAndPop

(* Every step of a Buffer is a step of a queue of bytes, or changes nothing *)
(* the queue has (Buffer.hpp: no byte is lost, reordered or invented).      *)
THEOREM BufferImplementsQueue == BufferSpec => BufferIsQueue
<1>1. BufferInit => Bytes!QueueInit
  BY BufferAssumption DEF BufferInit, Bytes!QueueInit, ReadAsString, ReadAbleSize
<1>2. BufferTypes /\ BufferTypes' /\ [BufferNext]_bufferVars => [Bytes!QueueNext]_(Bytes!queueVars)
  <2> SUFFICES ASSUME BufferTypes, BufferTypes', [BufferNext]_bufferVars
               PROVE  Bytes!QueueNext \/ UNCHANGED Bytes!queueVars
    OBVIOUS
  <2>1. ASSUME NEW s \in Writes, WriteAndPush(s)
        PROVE  Bytes!QueueNext \/ UNCHANGED Bytes!queueVars
    BY <2>1, WritePuts DEF Bytes!QueueNext, Bytes!queueVars, Unread
  <2>2. ASSUME NEW n \in 1 .. ReadAbleSize, ReadAndPop(n) PROVE Bytes!QueueNext
    <3>1. ReadAbleSize \in Nat /\ Len(Unread) = ReadAbleSize
      BY UnreadIsSequence
    <3>2. n \in 0 .. ReadAbleSize /\ Pop("get", n)
      BY <2>2, <3>1 DEF ReadAndPop
    <3>3. Bytes!Get(n)
      BY <3>2, PopRemoves DEF Bytes!Get
    <3>4. QED
      BY <3>1, <3>2, <3>3 DEF Bytes!QueueNext, Unread
  <2>3. CASE GetLineAndPop
    BY <2>3, LineGets DEF Bytes!QueueNext
  <2>4. CASE Clear
    <3>1. reader' = 0 /\ writer' = 0 /\ io' = <<"clear", <<>>>>
      BY <2>4 DEF Clear
    <3>2. ReadAbleSize' = 0
      BY <3>1 DEF ReadAbleSize
    <3>3. Unread' = <<>>
      BY <3>2, UnreadIsSequence DEF Unread, ReadAsString
    <3>4. QED
      BY <3>1, <3>3 DEF Bytes!QueueNext, Bytes!Empty, Unread
  <2>5. CASE UNCHANGED bufferVars
    BY <2>5 DEF bufferVars, Bytes!queueVars, ReadAsString, ReadAbleSize
  <2>6. QED
    BY <2>1, <2>2, <2>3, <2>4, <2>5 DEF BufferNext
<1>3. QED
  BY <1>1, <1>2, BufferTypeCorrect, PTL DEF BufferSpec, BufferIsQueue, Bytes!QueueSpec
===============================================================================
