---------------------------- MODULE TcpServerProofs ----------------------------
(***************************************************************************)
(* Proofs about TcpServer, for any connections, thread counts and timer    *)
(* tasks.                                                                  *)
(***************************************************************************)
EXTENDS TcpServer, SequenceTheorems, TLAPS

-------------------------------------------------------------------------------
(* The steps, by name.                                                      *)
LEMMA NextCases ==
  ASSUME [Next]_vars
  PROVE  \/ \E c \in Conn : Construct(c)
         \/ Enable
         \/ Establish
         \/ Insert
         \/ AddTimerTask
         \/ \E l \in Loop : Execute(l)
         \/ \E c \in Conn : ReleaseInLoop(c)
         \/ Expire
         \/ UNCHANGED vars
  BY DEF Next

(* The worker that comes after the last one used.                           *)
LEMMA NextWorker ==
  ASSUME threadCount \in Nat \ {0}, nextIdx \in 0 .. threadCount - 1, NextIndex
  PROVE  /\ nextIdx' \in 0 .. threadCount - 1
         /\ nextIdx' = IF nextIdx + 1 < threadCount THEN nextIdx + 1 ELSE 0
<1>1. CASE nextIdx + 1 < threadCount
  BY <1>1 DEF NextIndex
<1>2. CASE nextIdx + 1 = threadCount
  BY <1>2 DEF NextIndex
<1>3. QED
  BY <1>1, <1>2

(* The variables keep their types, and the index stays that of a worker.    *)
IndexInPool == threadCount > 0 => nextIdx \in 0 .. threadCount - 1

LEMMA AppendClosure ==
  ASSUME TypeOK, NEW l \in Loop, NEW x \in Closure
  PROVE  [queue EXCEPT ![l] = Append(@, x)] \in [Loop -> Seq(Closure)]
<1>1. queue[l] \in Seq(Closure)
  BY DEF TypeOK
<1>2. Append(queue[l], x) \in Seq(Closure)
  BY <1>1, AppendProperties
<1>3. QED
  BY <1>2 DEF TypeOK

LEMMA TypeInit == Init => TypeOK /\ IndexInPool
<1> SUFFICES ASSUME Init PROVE TypeOK /\ IndexInPool
  OBVIOUS
<1>1. Base \in Loop
  BY DEF Loop
<1>2. <<>> \in Seq(Closure) /\ <<>> \in Seq(Conn)
  BY EmptySeq
<1>3. queue \in [Loop -> Seq(Closure)] /\ order \in Seq(Conn)
  BY <1>2 DEF Init
<1>4. added \in 0 .. MaxTimers
  BY ServerAssumption DEF Init
<1>5. QED
  BY <1>1, <1>3, <1>4, ServerAssumption DEF Init, TypeOK, IndexInPool

(* Running a closure keeps the types of what it changes.                    *)
LEMMA ClosureTypes ==
  ASSUME TypeOK, NEW c \in Conn
  PROVE  /\ EnableInactiveReleaseInLoop(c) =>
              timers' \in [Loop -> SUBSET (Nat \X (Conn \cup {None}))] /\ statu' = statu
         /\ EstablishedInLoop(c) =>
              /\ statu' \in [Conn -> {"absent", "CONNECTING", "CONNECTED", "DISCONNECTED"}]
              /\ timers' = timers
<1>1. id[c] \in Nat /\ home[c] \in Loop /\ <<id[c], c>> \in Nat \X (Conn \cup {None})
  BY DEF TypeOK
<1>2. ASSUME EnableInactiveReleaseInLoop(c)
      PROVE  timers' \in [Loop -> SUBSET (Nat \X (Conn \cup {None}))] /\ statu' = statu
  <2>1. timers[home[c]] \cup {<<id[c], c>>} \in SUBSET (Nat \X (Conn \cup {None}))
    BY <1>1 DEF TypeOK
  <2>2. QED
    BY <1>2, <2>1 DEF TypeOK, EnableInactiveReleaseInLoop
<1>3. ASSUME EstablishedInLoop(c)
      PROVE  /\ statu' \in [Conn -> {"absent", "CONNECTING", "CONNECTED", "DISCONNECTED"}]
             /\ timers' = timers
  BY <1>3 DEF TypeOK, EstablishedInLoop
<1>4. QED
  BY <1>2, <1>3

LEMMA RunTypes ==
  ASSUME TypeOK, NEW op \in {"enable", "established"}, NEW c \in Conn, RunInLoop(op, c)
  PROVE  /\ timers' \in [Loop -> SUBSET (Nat \X (Conn \cup {None}))]
         /\ statu' \in [Conn -> {"absent", "CONNECTING", "CONNECTED", "DISCONNECTED"}]
         /\ queue' \in [Loop -> Seq(Closure)]
<1>1. CASE home[c] = Base
  BY <1>1, ClosureTypes DEF RunInLoop, TypeOK
<1>2. CASE home[c] # Base
  <2>1. home[c] \in Loop /\ <<op, c>> \in Closure
    BY DEF TypeOK, Closure
  <2>2. QED
    <3>1. /\ queue' = [queue EXCEPT ![home[c]] = Append(@, <<op, c>>)]
          /\ UNCHANGED <<statu, timers>>
      BY <1>2 DEF RunInLoop
    <3>2. queue' \in [Loop -> Seq(Closure)]
      BY <2>1, <3>1, AppendClosure
    <3>3. QED
      BY <3>1, <3>2 DEF TypeOK
<1>3. QED
  BY <1>1, <1>2

LEMMA HeadClosure ==
  ASSUME TypeOK, NEW l \in Loop, queue[l] # <<>>
  PROVE  /\ Head(queue[l]) \in Closure
         /\ Tail(queue[l]) \in Seq(Closure)
         /\ [queue EXCEPT ![l] = Tail(@)] \in [Loop -> Seq(Closure)]
<1>1. queue[l] \in Seq(Closure)
  BY DEF TypeOK
<1>2. Head(queue[l]) \in Closure /\ Tail(queue[l]) \in Seq(Closure)
  BY <1>1, HeadTailProperties
<1>3. QED
  BY <1>2 DEF TypeOK

LEMMA TimerTaskTypes ==
  ASSUME TypeOK, AddTimerTaskInLoop
  PROVE  /\ nextId' \in Nat /\ UNCHANGED statu
         /\ timers' \in [Loop -> SUBSET (Nat \X (Conn \cup {None}))]
<1>1. nextId' \in Nat /\ <<nextId', None>> \in Nat \X (Conn \cup {None}) /\ Base \in Loop
  BY DEF AddTimerTaskInLoop, TypeOK, Loop
<1>2. timers' \in [Loop -> SUBSET (Nat \X (Conn \cup {None}))]
  BY <1>1 DEF AddTimerTaskInLoop, TypeOK
<1>3. QED
  BY <1>1, <1>2 DEF AddTimerTaskInLoop

LEMMA TypeStep == TypeOK /\ IndexInPool /\ [Next]_vars => (TypeOK /\ IndexInPool)'
<1> SUFFICES ASSUME TypeOK, IndexInPool, [Next]_vars PROVE (TypeOK /\ IndexInPool)'
  OBVIOUS
<1>0. Base \in Loop /\ threadCount \in Nat
  BY ServerAssumption DEF Loop, TypeOK
<1>1. ASSUME NEW c \in Conn, Construct(c) PROVE (TypeOK /\ IndexInPool)'
  <2>1. nextIdx' \in Nat /\ IndexInPool' /\ home'[c] \in Loop
    <3>1. CASE threadCount = 0
      BY <1>0, <1>1, <3>1 DEF Construct, NextLoop, NextIndex, TypeOK, IndexInPool
    <3>2. CASE threadCount # 0
      <4>1. nextIdx' \in 0 .. threadCount - 1
        BY <1>0, <1>1, <3>2, NextWorker DEF Construct, NextLoop, IndexInPool
      <4>2. nextIdx' \in Nat /\ nextIdx' \in Loop
        BY <1>0, <3>2, <4>1 DEF Loop, Worker
      <4>3. home'[c] = nextIdx' /\ threadCount' = threadCount
        BY <1>1, <3>2 DEF Construct, NextLoop, TypeOK
      <4>4. QED
        BY <4>1, <4>2, <4>3 DEF IndexInPool
    <3>3. QED
      BY <3>1, <3>2
  <2>2. nextId' \in Nat /\ id' \in [Conn -> Nat]
    BY <1>1 DEF Construct, TakeId, TypeOK
  <2>3. home' \in [Conn -> Loop]
    BY <1>1, <2>1 DEF Construct, NextLoop, TypeOK
  <2>4. order' \in Seq(Conn)
    BY <1>1, AppendProperties DEF Construct, TypeOK
  <2>5. threadCount' = threadCount /\ Loop' = Loop
    BY <1>1 DEF Construct, Loop, Worker
  <2>6. /\ statu' \in [Conn -> {"absent", "CONNECTING", "CONNECTED", "DISCONNECTED"}]
        /\ accepting' \in Conn \cup {None}
        /\ step' \in {"enable", "establish", "insert", "done"}
    BY <1>1 DEF Construct, TypeOK
  <2>7. UNCHANGED <<conns, timers, queue, added>>
    BY <1>1 DEF Construct
  <2>8. QED
    BY <2>1, <2>2, <2>3, <2>4, <2>5, <2>6, <2>7 DEF TypeOK
<1>2. CASE Enable
  <2>1. accepting \in Conn
    BY <1>2 DEF Enable, TypeOK
  <2>2. QED
    BY <1>2, <2>1, RunTypes DEF Enable, TypeOK, IndexInPool, poolVars, Loop, Worker
<1>3. CASE Establish
  <2>1. accepting \in Conn
    BY <1>3 DEF Establish, TypeOK
  <2>2. QED
    BY <1>3, <2>1, RunTypes DEF Establish, TypeOK, IndexInPool, poolVars, Loop, Worker
<1>4. CASE Insert
  BY <1>4 DEF Insert, TypeOK, IndexInPool, poolVars, Loop, Worker
<1>5. CASE AddTimerTask
  <2>1. added' \in 0 .. MaxTimers
    BY <1>5, ServerAssumption DEF AddTimerTask, TypeOK
  <2>2. CASE HandOverTimerTask
    <3>1. queue' \in [Loop -> Seq(Closure)]
      BY <1>0, <2>2, AppendClosure DEF HandOverTimerTask, Closure
    <3>2. QED
      BY <1>5, <2>1, <2>2, <3>1
      DEF AddTimerTask, HandOverTimerTask, TypeOK, IndexInPool, poolVars, newVars, Loop, Worker
  <2>3. CASE AddTimerTaskInLoop /\ UNCHANGED queue
    <3>1. /\ nextId' \in Nat /\ UNCHANGED statu
          /\ timers' \in [Loop -> SUBSET (Nat \X (Conn \cup {None}))]
      BY <2>3, TimerTaskTypes
    <3>2. QED
      BY <1>5, <2>1, <2>3, <3>1
      DEF AddTimerTask, TypeOK, IndexInPool, poolVars, newVars, Loop, Worker
  <2>4. QED
    BY <1>5, <2>2, <2>3 DEF AddTimerTask
<1>6. ASSUME NEW l \in Loop, Execute(l) PROVE (TypeOK /\ IndexInPool)'
  <2>1. queue' \in [Loop -> Seq(Closure)] /\ Head(queue[l]) \in Closure
    BY <1>6, HeadClosure DEF Execute
  <2>2. /\ timers' \in [Loop -> SUBSET (Nat \X (Conn \cup {None}))]
        /\ statu' \in [Conn -> {"absent", "CONNECTING", "CONNECTED", "DISCONNECTED"}]
        /\ nextId' \in Nat
    <3>1. CASE Head(queue[l])[1] = "timer"
      <4>1. AddTimerTaskInLoop
        BY <1>6, <3>1 DEF Execute
      <4>2. QED
        BY <4>1, TimerTaskTypes DEF TypeOK
    <3>2. CASE Head(queue[l])[1] # "timer"
      <4>1. Head(queue[l])[2] \in Conn
        BY <2>1, <3>2 DEF Closure
      <4>2. QED
        BY <1>6, <3>2, <4>1, ClosureTypes DEF Execute, TypeOK
    <3>3. QED
      BY <3>1, <3>2
  <2>3. QED
    BY <1>6, <2>1, <2>2
    DEF Execute, TypeOK, IndexInPool, poolVars, newVars, Loop, Worker
<1>7. ASSUME NEW c \in Conn, ReleaseInLoop(c) PROVE (TypeOK /\ IndexInPool)'
  <2>1. timers' \in [Loop -> SUBSET (Nat \X (Conn \cup {None}))]
    BY <1>7 DEF ReleaseInLoop, TypeOK
  <2>2. QED
    BY <1>7, <2>1
    DEF ReleaseInLoop, TypeOK, IndexInPool, poolVars, newVars, Loop, Worker
<1>8. CASE Expire
  <2>1. timers' \in [Loop -> SUBSET (Nat \X (Conn \cup {None}))]
    <3>1. PICK e \in timers[Base] : timers' = [timers EXCEPT ![Base] = @ \ {e}]
      BY <1>8 DEF Expire
    <3>2. QED
      BY <1>0, <3>1 DEF TypeOK
  <2>2. QED
    BY <1>8, <2>1 DEF Expire, TypeOK, IndexInPool, poolVars, newVars, Loop, Worker
<1>9. CASE UNCHANGED vars
  BY <1>9 DEF vars, poolVars, newVars, TypeOK, IndexInPool, Loop, Worker
<1>10. QED
  BY NextCases, <1>1, <1>2, <1>3, <1>4, <1>5, <1>6, <1>7, <1>8, <1>9

(* Ids, loops, closures and entries stay what they are (TcpServer.hpp).     *)
THEOREM ServerTypeCorrect == Spec => []TypeOK
  BY TypeInit, TypeStep, PTL DEF Spec

-------------------------------------------------------------------------------
(* A connection that has come in.                                           *)
Came(c) == statu[c] # "absent"

(* Only NewConnection brings connections in, or changes what it gave them.  *)
LEMMA OthersBringNone ==
  ASSUME TypeOK, [Next]_vars, \A c \in Conn : ~Construct(c)
  PROVE  /\ UNCHANGED <<poolVars, id, home, order>>
         /\ \A c \in Conn : Came(c)' <=> Came(c)
<1>1. CASE Enable \/ Establish
  <2>1. accepting \in Conn
    BY <1>1 DEF Enable, Establish, TypeOK
  <2>2. RunInLoop("enable", accepting) \/ RunInLoop("established", accepting)
    BY <1>1 DEF Enable, Establish
  <2>3. \A c \in Conn : Came(c)' <=> Came(c)
    BY <2>1, <2>2
    DEF RunInLoop, EnableInactiveReleaseInLoop, EstablishedInLoop, Came, TypeOK
  <2>4. QED
    BY <1>1, <2>3 DEF Enable, Establish
<1>2. CASE Insert
  BY <1>2 DEF Insert, Came
<1>3. CASE AddTimerTask
  BY <1>3 DEF AddTimerTask, HandOverTimerTask, AddTimerTaskInLoop, newVars, Came
<1>4. ASSUME NEW l \in Loop, Execute(l)
      PROVE  /\ UNCHANGED <<poolVars, id, home, order>>
             /\ \A c \in Conn : Came(c)' <=> Came(c)
  <2>1. \/ UNCHANGED statu
        \/ statu' = [statu EXCEPT ![Head(queue[l])[2]] =
                       IF @ = "CONNECTING" THEN "CONNECTED" ELSE @]
    BY <1>4 DEF Execute, AddTimerTaskInLoop, EnableInactiveReleaseInLoop, EstablishedInLoop
  <2>2. \A c \in Conn : Came(c)' <=> Came(c)
    BY <2>1 DEF Came, TypeOK
  <2>3. QED
    BY <1>4, <2>2 DEF Execute, newVars
<1>5. ASSUME NEW c \in Conn, ReleaseInLoop(c)
      PROVE  /\ UNCHANGED <<poolVars, id, home, order>>
             /\ \A d \in Conn : Came(d)' <=> Came(d)
  BY <1>5 DEF ReleaseInLoop, newVars, Came, TypeOK
<1>6. CASE Expire
  BY <1>6 DEF Expire, newVars, Came
<1>7. CASE UNCHANGED vars
  BY <1>7 DEF vars, newVars, Came
<1>8. QED
  BY NextCases, <1>1, <1>2, <1>3, <1>4, <1>5, <1>6, <1>7

-------------------------------------------------------------------------------
(* Why the loops take turns: of the last threadCount connections, each went *)
(* to the loop that is as far behind _next_idx as the connection is behind  *)
(* the last one.                                                            *)
LoopBehind(d) == IF d <= nextIdx THEN nextIdx - d ELSE nextIdx - d + threadCount

TurnsInv ==
  /\ \A i \in 1 .. Len(order) : Came(order[i])
  /\ threadCount > 0 =>
       \A i \in 1 .. Len(order) :
         Len(order) - i < threadCount => home[order[i]] = LoopBehind(Len(order) - i)
  /\ RoundRobin

LEMMA TurnsInit == Init => TurnsInv
  BY DEF Init, TurnsInv, RoundRobin

LEMMA TurnsStep == TypeOK /\ IndexInPool /\ TurnsInv /\ [Next]_vars => TurnsInv'
<1> SUFFICES ASSUME TypeOK, IndexInPool, TurnsInv, [Next]_vars PROVE TurnsInv'
  OBVIOUS
<1>0. threadCount \in Nat /\ Len(order) \in Nat /\ order \in Seq(Conn)
      /\ \A i \in 1 .. Len(order) : order[i] \in Conn
  BY ServerAssumption DEF TypeOK
<1>1. ASSUME NEW c \in Conn, Construct(c) PROVE TurnsInv'
  <2>0. PICK n \in Nat : n = Len(order)
    BY <1>0
  <2>1. /\ order' \in Seq(Conn) /\ Len(order') = n + 1 /\ order'[n + 1] = c
        /\ \A i \in 1 .. n : order'[i] = order[i]
    BY <1>0, <1>1, <2>0, AppendProperties DEF Construct
  <2>2. /\ threadCount' = threadCount /\ ~Came(c) /\ Came(c)'
        /\ \A d \in Conn \ {c} : home'[d] = home[d] /\ (Came(d)' <=> Came(d))
    BY <1>1 DEF Construct, NextLoop, Came, TypeOK
  <2>3. \A i \in 1 .. n : Came(order[i]) /\ order[i] # c /\ home'[order[i]] = home[order[i]]
    BY <1>0, <2>0, <2>2 DEF TurnsInv
  <2>4. \A i \in 1 .. n + 1 : statu'[order'[i]] # "absent"
    <3>1. ASSUME NEW i \in 1 .. n PROVE statu'[order'[i]] # "absent"
      <4>1. order[i] \in Conn \ {c} /\ Came(order[i]) /\ order'[i] = order[i]
        BY <1>0, <2>0, <2>1, <2>3
      <4>2. QED
        BY <2>2, <4>1 DEF Came
    <3>2. \A i \in 1 .. n + 1 : i = n + 1 \/ i \in 1 .. n
      OBVIOUS
    <3>3. QED
      BY <2>1, <2>2, <3>1, <3>2 DEF Came
  <2>5. CASE threadCount = 0
    BY <2>1, <2>2, <2>4, <2>5 DEF TurnsInv, RoundRobin, Came
  <2>6. CASE threadCount # 0
    <3>1. /\ nextIdx \in 0 .. threadCount - 1
          /\ nextIdx' = IF nextIdx + 1 < threadCount THEN nextIdx + 1 ELSE 0
          /\ home'[c] = nextIdx'
      BY <1>0, <1>1, <2>6, NextWorker DEF Construct, NextLoop, IndexInPool, TypeOK
    <3>2. \A i \in 1 .. n : n - i < threadCount => home[order[i]] = LoopBehind(n - i)
      BY <1>0, <2>0, <2>6 DEF TurnsInv
    <3>3. \A d \in Nat : d + 1 < threadCount =>
            /\ LoopBehind(d) = LoopBehind(d + 1)'
            /\ LoopBehind(d) # nextIdx'
      BY <1>0, <2>2, <3>1 DEF LoopBehind
    <3>4. ASSUME NEW i \in 1 .. n, (n + 1) - i < threadCount
          PROVE  home'[order'[i]] = LoopBehind((n + 1) - i)' /\ home'[order'[i]] # nextIdx'
      <4>1. n - i \in Nat /\ (n - i) + 1 = (n + 1) - i
        BY <1>0
      <4>2. home'[order'[i]] = LoopBehind(n - i)
        BY <1>0, <2>1, <2>3, <3>2, <3>4
      <4>3. LoopBehind(n - i) = LoopBehind((n - i) + 1)' /\ LoopBehind(n - i) # nextIdx'
        BY <3>3, <3>4, <4>1
      <4>4. QED
        BY <4>1, <4>2, <4>3
    <3>5. home'[order'[n + 1]] = LoopBehind((n + 1) - (n + 1))'
      BY <1>0, <2>1, <3>1 DEF LoopBehind
    <3>6. \A i \in 1 .. n + 1 :
            (n + 1) - i < threadCount => home'[order'[i]] = LoopBehind((n + 1) - i)'
      BY <1>0, <3>4, <3>5
    <3>7. RoundRobin'
      <4>1. SUFFICES ASSUME NEW i \in 1 .. n + 1, NEW j \in 1 .. n + 1, i < j,
                            home'[order'[i]] = home'[order'[j]]
                     PROVE  j - i >= threadCount
        BY <2>1, <2>2 DEF RoundRobin
      <4>2. CASE j = n + 1
        BY <1>0, <2>1, <3>1, <3>4, <4>1, <4>2
      <4>3. CASE j # n + 1
        <5>1. i \in 1 .. n /\ j \in 1 .. n
          BY <1>0, <4>1, <4>3
        <5>2. home[order[i]] = home[order[j]]
          BY <2>1, <2>3, <4>1, <5>1
        <5>3. QED
          BY <1>0, <2>0, <2>6, <4>1, <5>1, <5>2 DEF TurnsInv, RoundRobin
      <4>4. QED
        BY <4>2, <4>3
    <3>8. QED
      BY <2>1, <2>2, <2>4, <3>6, <3>7 DEF TurnsInv, Came
  <2>7. QED
    BY <2>5, <2>6
<1>2. CASE \A c \in Conn : ~Construct(c)
  <2>1. /\ UNCHANGED <<poolVars, id, home, order>>
        /\ \A c \in Conn : Came(c)' <=> Came(c)
    BY <1>2, OthersBringNone
  <2>2. QED
    BY <1>0, <2>1 DEF TurnsInv, RoundRobin, LoopBehind, poolVars, Came
<1>3. QED
  BY <1>1, <1>2

(* The loops of the pool serve connections in turn, for any number of them  *)
(* (LoopThreadPool.hpp, NextLoop).                                          *)
THEOREM LoopsTakeTurns == Spec => []RoundRobin
<1>1. TurnsInv => RoundRobin
  BY DEF TurnsInv
<1>2. QED
  BY <1>1, TypeInit, TypeStep, TurnsInit, TurnsStep, PTL DEF Spec

-------------------------------------------------------------------------------
(* Why ids are distinct and served connections are held: every id in use    *)
(* was drawn from the counter, for one connection or one timer task, and    *)
(* while NewConnection is busy only a connected callback inside it draws    *)
(* more, so that the key it enters the connection under is either the       *)
(* connection's id or one drawn after it, and above every key in use.       *)
DrawnIds ==
  /\ \A c \in Conn : Came(c) => id[c] <= nextId
  /\ \A c, d \in Conn : Came(c) /\ Came(d) /\ id[c] = id[d] => c = d

IsTaskOf(e, c) == Came(c) /\ e = <<id[c], c>>

TimerIds ==
  \A l \in Loop : \A e \in timers[l] :
    \/ \E c \in Conn : IsTaskOf(e, c)
    \/ e = <<e[1], None>> /\ e[1] <= nextId /\ \A c \in Conn : Came(c) => id[c] # e[1]

IsEntryOf(e, c) == Came(c) /\ e[2] = c /\ (e[1] = id[c] \/ home[c] = Base)

EntryIds ==
  /\ \A e \in conns : e[1] <= nextId /\ (accepting # None => e[1] < id[accepting])
  /\ \A e, f \in conns : e[1] = f[1] => e = f

AcceptingIsLast ==
  accepting # None =>
    /\ Came(accepting)
    /\ id[accepting] = nextId \/ (step = "insert" /\ home[accepting] = Base)

ClosureInPlace(l, x) ==
  \/ x = <<"timer", None>> /\ l = Base
  \/ \E c \in Conn : Came(c) /\ x \in {<<"enable", c>>, <<"established", c>>}

ClosuresInPlace ==
  \A l \in Loop : \A i \in 1 .. Len(queue[l]) : ClosureInPlace(l, queue[l][i])

Held == \A c \in Conn : Came(c) => accepting = c \/ \E e \in conns : IsEntryOf(e, c)

IdsInv == DrawnIds /\ TimerIds /\ EntryIds /\ AcceptingIsLast /\ ClosuresInPlace /\ Held

LEMMA IdsInit == Init => IdsInv
  BY DEF Init, IdsInv, DrawnIds, TimerIds, EntryIds, AcceptingIsLast, ClosuresInPlace,
         Held, Came

(* The invariant says what the properties say.                              *)
LEMMA IdsInvMeans == TypeOK /\ IdsInv => IdsDistinct /\ ConnectedIsHeld
<1> SUFFICES ASSUME TypeOK, IdsInv PROVE IdsDistinct /\ ConnectedIsHeld
  OBVIOUS
<1>1. ASSUME NEW l \in Loop, NEW e \in timers[l], NEW f \in timers[l], e[1] = f[1]
      PROVE  e = f
  <2>1. CASE \E c \in Conn : IsTaskOf(e, c)
    <3>1. PICK c \in Conn : IsTaskOf(e, c)
      BY <2>1
    <3>2. CASE \E d \in Conn : IsTaskOf(f, d)
      BY <1>1, <3>1, <3>2 DEF IdsInv, DrawnIds, IsTaskOf
    <3>3. CASE \A d \in Conn : Came(d) => id[d] # f[1]
      BY <1>1, <3>1, <3>3 DEF IsTaskOf
    <3>4. QED
      BY <3>2, <3>3 DEF IdsInv, TimerIds
  <2>2. CASE e = <<e[1], None>> /\ \A c \in Conn : Came(c) => id[c] # e[1]
    <3>1. CASE \E d \in Conn : IsTaskOf(f, d)
      BY <1>1, <2>2, <3>1 DEF IsTaskOf
    <3>2. CASE f = <<f[1], None>>
      BY <1>1, <2>2, <3>2
    <3>3. QED
      BY <3>1, <3>2 DEF IdsInv, TimerIds
  <2>3. QED
    BY <2>1, <2>2 DEF IdsInv, TimerIds
<1>2. \A e, f \in conns : e[1] = f[1] => e = f
  BY DEF IdsInv, EntryIds
<1>3. ConnectedIsHeld
  BY DEF IdsInv, Held, IsEntryOf, ConnectedIsHeld, Came
<1>4. QED
  BY <1>1, <1>2, <1>3 DEF IdsDistinct

LEMMA TaskAdded ==
  ASSUME TypeOK, NEW h, NEW x,
         timers' = timers \/ timers' = [timers EXCEPT ![h] = @ \cup {x}]
  PROVE  \A l \in Loop : \A e \in timers'[l] : e \in timers[l] \/ e = x
<1>1. CASE timers' = timers
  BY <1>1
<1>2. CASE timers' = [timers EXCEPT ![h] = @ \cup {x}]
  <2>1. DOMAIN timers = Loop
    BY DEF TypeOK
  <2>2. \A l \in Loop : timers'[l] = timers[l] \/ timers'[l] = timers[l] \cup {x}
    BY <1>2, <2>1
  <2>3. QED
    BY <2>2
<1>3. QED
  BY <1>1, <1>2

(* Steps that draw no id keep the ids in order, if the tasks they add are   *)
(* those of connections.                                                    *)
LEMMA TimersKept ==
  ASSUME TypeOK, IdsInv, Loop' = Loop, UNCHANGED <<id, nextId>>,
         \A c \in Conn : Came(c)' <=> Came(c),
         \A l \in Loop : \A e \in timers'[l] :
            e \in timers[l] \/ \E c \in Conn : IsTaskOf(e, c)
  PROVE  DrawnIds' /\ TimerIds'
<1>1. DrawnIds'
  BY DEF IdsInv, DrawnIds
<1>2. ASSUME NEW l \in Loop, NEW e \in timers'[l]
      PROVE  \/ \E c \in Conn : Came(c)' /\ e = <<id'[c], c>>
             \/ e = <<e[1], None>> /\ e[1] <= nextId' /\ \A c \in Conn : Came(c)' => id'[c] # e[1]
  <2>1. CASE e \in timers[l]
    BY <2>1 DEF IdsInv, TimerIds, IsTaskOf
  <2>2. CASE \E c \in Conn : IsTaskOf(e, c)
    BY <2>2 DEF IsTaskOf
  <2>3. QED
    BY <1>2, <2>1, <2>2
<1>3. TimerIds'
  BY <1>2 DEF TimerIds, IsTaskOf
<1>4. QED
  BY <1>1, <1>3

LEMMA EntriesKept ==
  ASSUME TypeOK, IdsInv, UNCHANGED <<nextId, id, home, conns, accepting, step>>,
         \A c \in Conn : Came(c)' <=> Came(c)
  PROVE  EntryIds' /\ AcceptingIsLast' /\ Held'
<1>1. EntryIds'
  BY DEF IdsInv, EntryIds
<1>2. AcceptingIsLast'
  BY ServerAssumption DEF IdsInv, AcceptingIsLast, TypeOK
<1>3. Held'
  BY DEF IdsInv, Held, IsEntryOf
<1>4. QED
  BY <1>1, <1>2, <1>3

LEMMA ClosuresKept ==
  ASSUME ClosuresInPlace, UNCHANGED queue, Loop' = Loop,
         \A c \in Conn : Came(c) => Came(c)'
  PROVE  ClosuresInPlace'
  BY DEF ClosuresInPlace, ClosureInPlace

LEMMA ClosureAppended ==
  ASSUME TypeOK, ClosuresInPlace, Loop' = Loop, NEW l \in Loop, NEW x \in Closure,
         queue' = [queue EXCEPT ![l] = Append(@, x)], ClosureInPlace(l, x),
         \A c \in Conn : Came(c) => Came(c)'
  PROVE  ClosuresInPlace'
<1>1. queue[l] \in Seq(Closure)
  BY DEF TypeOK
<1>2. ASSUME NEW k \in Loop, NEW i \in 1 .. Len(queue'[k])
      PROVE  ClosureInPlace(k, queue'[k][i])
  <2>1. CASE k # l
    <3>1. queue'[k] = queue[k]
      BY <2>1 DEF TypeOK
    <3>2. QED
      BY <1>2, <3>1 DEF ClosuresInPlace
  <2>2. CASE k = l
    <3>1. queue'[l] = Append(queue[l], x)
      BY DEF TypeOK
    <3>2. /\ Len(Append(queue[l], x)) = Len(queue[l]) + 1 /\ Len(queue[l]) \in Nat
          /\ Append(queue[l], x)[Len(queue[l]) + 1] = x
          /\ \A j \in 1 .. Len(queue[l]) : Append(queue[l], x)[j] = queue[l][j]
      BY <1>1, AppendProperties
    <3>3. i = Len(queue[l]) + 1 \/ i \in 1 .. Len(queue[l])
      BY <1>2, <2>2, <3>1, <3>2
    <3>4. QED
      BY <2>2, <3>1, <3>2, <3>3 DEF ClosuresInPlace
  <2>3. QED
    BY <2>1, <2>2
<1>3. QED
  BY <1>2 DEF ClosuresInPlace, ClosureInPlace

LEMMA ClosureTaken ==
  ASSUME TypeOK, ClosuresInPlace, Loop' = Loop, NEW l \in Loop, queue[l] # <<>>,
         queue' = [queue EXCEPT ![l] = Tail(@)],
         \A c \in Conn : Came(c) => Came(c)'
  PROVE  ClosureInPlace(l, Head(queue[l])) /\ ClosuresInPlace'
<1>1. queue[l] \in Seq(Closure)
  BY DEF TypeOK
<1>2. /\ Len(queue[l]) \in Nat \ {0} /\ Head(queue[l]) = queue[l][1]
      /\ Len(Tail(queue[l])) = Len(queue[l]) - 1
      /\ \A j \in 1 .. Len(Tail(queue[l])) : Tail(queue[l])[j] = queue[l][j + 1]
  BY <1>1, HeadTailProperties
<1>3. ClosureInPlace(l, Head(queue[l]))
  BY <1>2 DEF ClosuresInPlace
<1>4. ASSUME NEW k \in Loop, NEW i \in 1 .. Len(queue'[k])
      PROVE  ClosureInPlace(k, queue'[k][i])
  <2>1. CASE k # l
    <3>1. queue'[k] = queue[k]
      BY <2>1 DEF TypeOK
    <3>2. QED
      BY <1>4, <3>1 DEF ClosuresInPlace
  <2>2. CASE k = l
    <3>1. queue'[l] = Tail(queue[l])
      BY DEF TypeOK
    <3>2. i \in 1 .. Len(Tail(queue[l])) /\ i + 1 \in 1 .. Len(queue[l])
      <4>1. i \in 1 .. Len(Tail(queue[l]))
        BY <1>4, <2>2, <3>1
      <4>2. QED
        BY <1>2, <4>1
    <3>3. queue'[k][i] = queue[l][i + 1]
      BY <1>2, <2>2, <3>1, <3>2
    <3>4. QED
      BY <2>2, <3>2, <3>3 DEF ClosuresInPlace
  <2>3. QED
    BY <2>1, <2>2
<1>5. QED
  BY <1>3, <1>4 DEF ClosuresInPlace, ClosureInPlace

LEMMA IdsConstruct ==
  ASSUME TypeOK, IdsInv, NEW c \in Conn, Construct(c)
  PROVE  IdsInv'
<1>1. /\ accepting = None /\ accepting' = c /\ c # None
      /\ ~Came(c) /\ Came(c)'
      /\ nextId' = nextId + 1 /\ nextId \in Nat
      /\ id'[c] = nextId + 1
      /\ \A d \in Conn \ {c} : id'[d] = id[d] /\ home'[d] = home[d] /\ (Came(d)' <=> Came(d))
      /\ \A d \in Conn : id[d] \in Nat
      /\ UNCHANGED <<conns, timers, queue>> /\ Loop' = Loop
  BY ServerAssumption DEF Construct, NextLoop, TakeId, Came, TypeOK, Loop, Worker
<1>2. \A d \in Conn : Came(d) => d # c /\ Came(d)' /\ id'[d] = id[d] /\ id[d] <= nextId
  BY <1>1 DEF IdsInv, DrawnIds
<1>3. DrawnIds'
  BY <1>1, <1>2 DEF IdsInv, DrawnIds
<1>4. ASSUME NEW l \in Loop, NEW e \in timers[l]
      PROVE  \/ \E d \in Conn : Came(d)' /\ e = <<id'[d], d>>
             \/ e = <<e[1], None>> /\ e[1] <= nextId' /\ \A d \in Conn : Came(d)' => id'[d] # e[1]
  <2>1. CASE \E d \in Conn : IsTaskOf(e, d)
    BY <1>2, <2>1 DEF IsTaskOf
  <2>2. CASE e = <<e[1], None>> /\ e[1] <= nextId /\ \A d \in Conn : Came(d) => id[d] # e[1]
    <3>1. e[1] \in Nat
      BY DEF TypeOK
    <3>2. QED
      BY <1>1, <1>2, <2>2, <3>1
  <2>3. QED
    BY <2>1, <2>2 DEF IdsInv, TimerIds
<1>5. TimerIds'
  BY <1>1, <1>4 DEF TimerIds, IsTaskOf
<1>6. EntryIds'
  <2>1. \A e \in conns : e[1] \in Nat
    BY DEF TypeOK
  <2>2. QED
    BY <1>1, <2>1 DEF IdsInv, EntryIds
<1>7. AcceptingIsLast'
  BY <1>1 DEF AcceptingIsLast, Came
<1>8. ClosuresInPlace'
  BY <1>1, <1>2, ClosuresKept DEF IdsInv
<1>9. Held'
  <2>1. ASSUME NEW d \in Conn, Came(d)'
        PROVE  accepting' = d \/ \E e \in conns' : IsEntryOf(e, d)'
    <3>1. CASE d = c
      BY <1>1, <3>1
    <3>2. CASE d # c
      <4>1. Came(d) /\ id'[d] = id[d] /\ home'[d] = home[d] /\ d # None
        BY <1>1, <2>1, <3>2, ServerAssumption
      <4>2. PICK e \in conns : IsEntryOf(e, d)
        BY <1>1, <4>1 DEF IdsInv, Held
      <4>3. QED
        BY <1>1, <2>1, <4>1, <4>2 DEF IsEntryOf
    <3>3. QED
      BY <3>1, <3>2
  <2>2. QED
    BY <2>1 DEF Held
<1>10. QED
  BY <1>3, <1>5, <1>6, <1>7, <1>8, <1>9 DEF IdsInv

(* NewConnection's closures, whether they run in the call or in the loop.   *)
LEMMA IdsRun ==
  ASSUME TypeOK, IdsInv, accepting \in Conn, Loop' = Loop,
         NEW op \in {"enable", "established"}, RunInLoop(op, accepting), step # "insert",
         UNCHANGED <<nextId, conns, accepting, id, home>>,
         \A c \in Conn : Came(c)' <=> Came(c)
  PROVE  IdsInv'
<1>1. accepting # None /\ Came(accepting) /\ home[accepting] \in Loop
  BY ServerAssumption DEF IdsInv, AcceptingIsLast, TypeOK
<1>2. \A l \in Loop : \A e \in timers'[l] :
        e \in timers[l] \/ \E c \in Conn : IsTaskOf(e, c)
  <2>1. \/ timers' = timers
        \/ timers' = [timers EXCEPT ![home[accepting]] = @ \cup {<<id[accepting], accepting>>}]
    BY DEF RunInLoop, EnableInactiveReleaseInLoop, EstablishedInLoop
  <2>2. IsTaskOf(<<id[accepting], accepting>>, accepting)
    BY <1>1 DEF IsTaskOf
  <2>3. \A l \in Loop : \A e \in timers'[l] :
          e \in timers[l] \/ e = <<id[accepting], accepting>>
    BY <2>1, TaskAdded
  <2>4. QED
    BY <2>2, <2>3
<1>3. DrawnIds' /\ TimerIds'
  BY <1>2, TimersKept
<1>4. ClosuresInPlace'
  <2>1. CASE UNCHANGED queue
    BY <2>1, ClosuresKept DEF IdsInv
  <2>2. CASE queue' = [queue EXCEPT ![home[accepting]] = Append(@, <<op, accepting>>)]
    <3>1. <<op, accepting>> \in Closure
      BY DEF Closure
    <3>2. ClosureInPlace(home[accepting], <<op, accepting>>)
      BY <1>1 DEF ClosureInPlace
    <3>3. QED
      BY <1>1, <2>2, <3>1, <3>2, ClosureAppended DEF IdsInv
  <2>3. QED
    BY <2>1, <2>2 DEF RunInLoop
<1>5. EntryIds' /\ AcceptingIsLast' /\ Held'
  BY <1>1 DEF IdsInv, EntryIds, AcceptingIsLast, Held, IsEntryOf
<1>6. QED
  BY <1>3, <1>4, <1>5 DEF IdsInv

LEMMA IdsInsert ==
  ASSUME TypeOK, IdsInv, Insert
  PROVE  IdsInv'
<1>1. /\ accepting \in Conn /\ accepting # None /\ step = "insert"
      /\ accepting' = None /\ nextId \in Nat /\ id[accepting] \in Nat
      /\ UNCHANGED <<nextId, id, home, statu, timers, queue>> /\ Loop' = Loop
  BY DEF Insert, TypeOK, poolVars, Loop, Worker
<1>2. /\ Came(accepting) /\ id[accepting] <= nextId
      /\ id[accepting] = nextId \/ home[accepting] = Base
  BY <1>1 DEF IdsInv, AcceptingIsLast, DrawnIds
<1>3. /\ \A e \in conns : e[1] \in Nat /\ e[1] < nextId
      /\ conns' = conns \cup {<<nextId, accepting>>}
  <2>1. \A e \in conns : e[1] \in Nat /\ e[1] < nextId
    BY <1>1, <1>2 DEF IdsInv, EntryIds, TypeOK
  <2>2. \A e \in conns : e[1] # nextId
    BY <1>1, <2>1
  <2>3. QED
    BY <2>1, <2>2 DEF Insert
<1>4. \A c \in Conn : Came(c)' <=> Came(c)
  BY <1>1 DEF Came
<1>5. DrawnIds' /\ TimerIds'
  BY <1>1, <1>4, TimersKept
<1>6. EntryIds'
  <2>1. \A e \in conns' : e \in conns \/ e = <<nextId, accepting>>
    BY <1>3
  <2>2. \A e, f \in conns' : e[1] = f[1] => e = f
    <3>1. ASSUME NEW e \in conns', NEW f \in conns', e[1] = f[1] PROVE e = f
      <4>1. CASE e \in conns /\ f \in conns
        BY <3>1, <4>1 DEF IdsInv, EntryIds
      <4>2. CASE e = <<nextId, accepting>>
        BY <1>1, <1>3, <2>1, <3>1, <4>2
      <4>3. CASE f = <<nextId, accepting>>
        BY <1>1, <1>3, <2>1, <3>1, <4>3
      <4>4. QED
        BY <2>1, <4>1, <4>2, <4>3
    <3>2. QED
      BY <3>1
  <2>3. \A e \in conns' : e[1] <= nextId'
    BY <1>1, <1>3, <2>1
  <2>4. QED
    BY <1>1, <2>2, <2>3 DEF EntryIds
<1>7. AcceptingIsLast'
  BY <1>1 DEF AcceptingIsLast
<1>8. ClosuresInPlace'
  BY <1>1, <1>4, ClosuresKept DEF IdsInv
<1>9. Held'
  <2>1. ASSUME NEW c \in Conn, c = accepting
        PROVE  \E e \in conns' : IsEntryOf(e, c)'
    <3>1. PICK e \in conns' : e = <<nextId, accepting>>
      BY <1>3
    <3>2. IsEntryOf(e, c)'
      BY <1>1, <1>2, <1>4, <2>1, <3>1 DEF IsEntryOf
    <3>3. QED
      BY <3>2
  <2>2. ASSUME NEW c \in Conn, Came(c)', c # accepting
        PROVE  \E e \in conns' : IsEntryOf(e, c)'
    <3>1. PICK e \in conns : IsEntryOf(e, c)
      BY <1>4, <2>2 DEF IdsInv, Held
    <3>2. QED
      BY <1>1, <1>3, <1>4, <3>1 DEF IsEntryOf
  <2>3. QED
    BY <2>1, <2>2 DEF Held
<1>10. QED
  BY <1>5, <1>6, <1>7, <1>8, <1>9 DEF IdsInv

(* A timer task draws an id, in a closure or in a callback that runs in the *)
(* base loop, inside NewConnection too.                                     *)
LEMMA IdsDraw ==
  ASSUME TypeOK, IdsInv, ClosuresInPlace', UserCodeInBase, AddTimerTaskInLoop,
         UNCHANGED <<id, home, conns, accepting, step>>, Loop' = Loop,
         \A c \in Conn : Came(c)' <=> Came(c)
  PROVE  IdsInv'
<1>1. /\ nextId \in Nat /\ nextId' = nextId + 1
      /\ timers' = [timers EXCEPT ![Base] = @ \cup {<<nextId', None>>}]
  BY DEF AddTimerTaskInLoop, TypeOK
<1>2. \A c \in Conn : Came(c) => id[c] \in Nat /\ id[c] <= nextId
  BY DEF IdsInv, DrawnIds, TypeOK
<1>3. DrawnIds'
  BY <1>1, <1>2 DEF IdsInv, DrawnIds
<1>4. ASSUME NEW k \in Loop, NEW e \in timers'[k]
      PROVE  \/ \E c \in Conn : Came(c)' /\ e = <<id'[c], c>>
             \/ e = <<e[1], None>> /\ e[1] <= nextId' /\ \A c \in Conn : Came(c)' => id'[c] # e[1]
  <2>1. e \in timers[k] \/ e = <<nextId', None>>
    BY <1>1, <1>4 DEF TypeOK
  <2>2. CASE e = <<nextId', None>>
    BY <1>1, <1>2, <2>2
  <2>3. CASE e \in timers[k]
    <3>1. CASE \E c \in Conn : IsTaskOf(e, c)
      BY <3>1 DEF IsTaskOf
    <3>2. CASE e = <<e[1], None>> /\ e[1] <= nextId /\ \A c \in Conn : Came(c) => id[c] # e[1]
      <4>1. e[1] \in Nat
        BY <2>3 DEF TypeOK
      <4>2. QED
        BY <1>1, <3>2, <4>1
    <3>3. QED
      BY <2>3, <3>1, <3>2 DEF IdsInv, TimerIds
  <2>4. QED
    BY <2>1, <2>2, <2>3
<1>5. TimerIds'
  BY <1>4 DEF TimerIds, IsTaskOf
<1>6. EntryIds'
  <2>1. \A e \in conns : e[1] \in Nat
    BY DEF TypeOK
  <2>2. QED
    BY <1>1, <2>1 DEF IdsInv, EntryIds
<1>7. AcceptingIsLast'
  <2>1. accepting # None => accepting \in Conn
    BY DEF TypeOK
  <2>2. accepting # None => Came(accepting) /\ step = "insert" /\ home[accepting] = Base
    BY DEF IdsInv, AcceptingIsLast, UserCodeInBase
  <2>3. QED
    BY <2>1, <2>2 DEF AcceptingIsLast
<1>8. Held'
  BY DEF IdsInv, Held, IsEntryOf
<1>9. QED
  BY <1>3, <1>5, <1>6, <1>7, <1>8 DEF IdsInv

LEMMA IdsExecute ==
  ASSUME TypeOK, IdsInv, NEW l \in Loop, Execute(l),
         \A c \in Conn : Came(c)' <=> Came(c)
  PROVE  IdsInv'
<1>1. /\ queue[l] # <<>> /\ queue' = [queue EXCEPT ![l] = Tail(@)]
      /\ UNCHANGED <<id, home, conns, accepting, step>> /\ Loop' = Loop
      /\ l = Base => accepting = None
  BY DEF Execute, poolVars, newVars, Loop, Worker
<1>2. ClosureInPlace(l, Head(queue[l])) /\ ClosuresInPlace'
  BY <1>1, ClosureTaken DEF IdsInv
<1>3. CASE Head(queue[l]) = <<"timer", None>> /\ l = Base
  <2>1. UserCodeInBase /\ AddTimerTaskInLoop
    BY <1>1, <1>3 DEF Execute, UserCodeInBase
  <2>2. QED
    BY <1>1, <1>2, <2>1, IdsDraw
<1>4. ASSUME NEW c \in Conn, Came(c), Head(queue[l]) \in {<<"enable", c>>, <<"established", c>>}
      PROVE  IdsInv'
  <2>1. nextId' = nextId
    BY <1>4 DEF Execute
  <2>2. \A k \in Loop : \A e \in timers'[k] :
          e \in timers[k] \/ \E d \in Conn : IsTaskOf(e, d)
    <3>1. \/ timers' = timers
          \/ timers' = [timers EXCEPT ![home[c]] = @ \cup {<<id[c], c>>}]
      BY <1>4 DEF Execute, EnableInactiveReleaseInLoop, EstablishedInLoop
    <3>2. IsTaskOf(<<id[c], c>>, c)
      BY <1>4 DEF IsTaskOf
    <3>3. \A k \in Loop : \A e \in timers'[k] : e \in timers[k] \/ e = <<id[c], c>>
      BY <3>1, TaskAdded
    <3>4. QED
      BY <3>2, <3>3
  <2>3. DrawnIds' /\ TimerIds'
    BY <1>1, <2>1, <2>2, TimersKept
  <2>4. EntryIds' /\ AcceptingIsLast' /\ Held'
    BY <1>1, <2>1, EntriesKept
  <2>5. QED
    BY <1>2, <2>3, <2>4 DEF IdsInv
<1>5. QED
  BY <1>2, <1>3, <1>4 DEF ClosureInPlace

LEMMA IdsStep == TypeOK /\ IdsInv /\ [Next]_vars => IdsInv'
<1> SUFFICES ASSUME TypeOK, IdsInv, [Next]_vars PROVE IdsInv'
  OBVIOUS
<1>1. ASSUME NEW c \in Conn, Construct(c) PROVE IdsInv'
  BY <1>1, IdsConstruct
<1>2. CASE \A c \in Conn : ~Construct(c)
  <2>1. /\ UNCHANGED <<threadCount, id, home>> /\ Loop' = Loop
        /\ \A c \in Conn : Came(c)' <=> Came(c)
    BY <1>2, OthersBringNone DEF poolVars, Loop, Worker
  <2>2. ASSUME UNCHANGED <<nextId, conns, accepting, step>>,
               \A l \in Loop : timers'[l] \subseteq timers[l],
               UNCHANGED queue
                 \/ queue' = [queue EXCEPT ![Base] = Append(@, <<"timer", None>>)]
        PROVE  IdsInv'
    <3>1. DrawnIds' /\ TimerIds'
      BY <2>1, <2>2, TimersKept
    <3>2. EntryIds' /\ AcceptingIsLast' /\ Held'
      BY <2>1, <2>2, EntriesKept
    <3>3. ClosuresInPlace'
      <4>1. Base \in Loop /\ <<"timer", None>> \in Closure
            /\ ClosureInPlace(Base, <<"timer", None>>)
        BY DEF Loop, Closure, ClosureInPlace
      <4>2. QED
        BY <2>1, <2>2, <4>1, ClosuresKept, ClosureAppended DEF IdsInv
    <3>5. QED
      BY <3>1, <3>2, <3>3 DEF IdsInv
  <2>3. CASE Enable \/ Establish
    <3>1. accepting \in Conn /\ step # "insert" /\ UNCHANGED <<nextId, conns, accepting>>
      BY <2>3 DEF Enable, Establish, TypeOK
    <3>2. RunInLoop("enable", accepting) \/ RunInLoop("established", accepting)
      BY <2>3 DEF Enable, Establish
    <3>3. QED
      BY <2>1, <3>1, <3>2, IdsRun
  <2>4. CASE Insert
    BY <2>4, IdsInsert
  <2>5. CASE AddTimerTask
    <3>1. CASE HandOverTimerTask
      BY <2>2, <2>5, <3>1 DEF AddTimerTask, HandOverTimerTask, newVars
    <3>2. CASE UserCodeInBase /\ AddTimerTaskInLoop /\ UNCHANGED queue
      <4>1. ClosuresInPlace'
        BY <2>1, <3>2, ClosuresKept DEF IdsInv
      <4>2. QED
        BY <2>1, <2>5, <3>2, <4>1, IdsDraw DEF AddTimerTask, newVars
    <3>3. QED
      BY <2>5, <3>1, <3>2 DEF AddTimerTask
  <2>6. ASSUME NEW l \in Loop, Execute(l) PROVE IdsInv'
    BY <2>1, <2>6, IdsExecute
  <2>7. ASSUME NEW c \in Conn, ReleaseInLoop(c) PROVE IdsInv'
    BY <2>2, <2>7 DEF ReleaseInLoop, newVars, TypeOK
  <2>8. CASE Expire
    BY <2>2, <2>8 DEF Expire, newVars, TypeOK
  <2>9. CASE UNCHANGED vars
    BY <2>2, <2>9 DEF vars, newVars
  <2>10. QED
    BY NextCases, <1>2, <2>3, <2>4, <2>5, <2>6, <2>7, <2>8, <2>9
<1>3. QED
  BY <1>1, <1>2

LEMMA IdsInvariant == Spec => [](TypeOK /\ IdsInv)
  BY TypeInit, TypeStep, IdsInit, IdsStep, PTL DEF Spec

(* No two tasks of a wheel and no two entries of _conns share an id, though *)
(* connections and timer tasks draw from one counter, the latter from other *)
(* threads and from callbacks inside NewConnection (TcpServer.hpp,          *)
(* NewConnection and AddTimerTaskInLoop).                                   *)
THEOREM IdsAreDistinct == Spec => []IdsDistinct
  BY IdsInvariant, IdsInvMeans, PTL

(* A served connection is kept alive by _conns (TcpServer.hpp,              *)
(* NewConnection: established before it is entered, then entered for good): *)
(* under its own id when a worker serves it, and under some key whatever    *)
(* its connected callback adds when the base loop does.                     *)
THEOREM ServedIsHeld == Spec => []ConnectedIsHeld
  BY IdsInvariant, IdsInvMeans, PTL

-------------------------------------------------------------------------------
(* Why a served connection has its timer: NewConnection hands the closure   *)
(* that sets it over before the one that establishes the connection, to the *)
(* same loop, whose queue keeps their order; a timer that is gone has       *)
(* released its connection.                                                 *)
Timed(c)   == <<id[c], c>> \in timers[home[c]]
Settled(c) == Timed(c) \/ statu[c] = "DISCONNECTED"

EnabledBefore(c, n) == \E j \in 1 .. n - 1 : queue[home[c]][j] = <<"enable", c>>

EstablishedLast ==
  \A c \in Conn : \A i \in 1 .. Len(queue[home[c]]) :
    queue[home[c]][i] = <<"established", c>> => Settled(c) \/ EnabledBefore(c, i)

EstablishingLast ==
  \A c \in Conn : accepting = c /\ step = "establish" =>
    Settled(c) \/ (home[c] # Base /\ EnabledBefore(c, Len(queue[home[c]]) + 1))

InOwnLoop ==
  \A l \in Loop : \A i \in 1 .. Len(queue[l]) : \A c \in Conn :
    queue[l][i] = <<"established", c>> => l = home[c]

TimedInv ==
  /\ InOwnLoop
  /\ Inactive => ConnectedIsTimed /\ EstablishedLast /\ EstablishingLast

LEMMA TimedInit == Init => TimedInv
<1> SUFFICES ASSUME Init PROVE TimedInv
  OBVIOUS
<1>1. /\ \A l \in Loop : queue[l] = <<>>
      /\ \A c \in Conn : home[c] = Base /\ statu[c] = "absent"
      /\ Base \in Loop /\ accepting = None
  BY DEF Init, Loop
<1>2. InOwnLoop /\ EstablishedLast
  BY <1>1 DEF InOwnLoop, EstablishedLast
<1>3. ConnectedIsTimed /\ EstablishingLast
  BY <1>1, ServerAssumption DEF ConnectedIsTimed, EstablishingLast
<1>4. QED
  BY <1>2, <1>3 DEF TimedInv

(* NewConnection brings in a connection of which no closure is queued.      *)
LEMMA TimedConstruct ==
  ASSUME TypeOK, TypeOK', IdsInv, TimedInv, NEW c \in Conn, Construct(c)
  PROVE  TimedInv'
<1>1. /\ UNCHANGED <<timers, queue>> /\ Loop' = Loop
      /\ ~Came(c) /\ statu'[c] = "CONNECTING" /\ c # None
      /\ accepting' = c /\ (Inactive => step' = "enable")
      /\ \A d \in Conn \ {c} : id'[d] = id[d] /\ home'[d] = home[d] /\ statu'[d] = statu[d]
  BY ServerAssumption DEF Construct, NextLoop, TakeId, Came, TypeOK, Loop, Worker
<1>2. \A l \in Loop : \A i \in 1 .. Len(queue[l]) : queue[l][i] # <<"established", c>>
  BY <1>1 DEF IdsInv, ClosuresInPlace, ClosureInPlace
<1>3. InOwnLoop'
  <2>1. ASSUME NEW l \in Loop, NEW i \in 1 .. Len(queue[l]), NEW d \in Conn,
               queue[l][i] = <<"established", d>>
        PROVE  l = home'[d]
    <3>1. d \in Conn \ {c}
      BY <1>2, <2>1
    <3>2. QED
      BY <1>1, <2>1, <3>1 DEF TimedInv, InOwnLoop
  <2>2. QED
    BY <1>1, <2>1 DEF InOwnLoop
<1>4. ASSUME Inactive PROVE ConnectedIsTimed'
  <2>1. ASSUME NEW d \in Conn, statu'[d] = "CONNECTED"
        PROVE  <<id'[d], d>> \in timers'[home'[d]]
    <3>1. d \in Conn \ {c}
      BY <1>1, <2>1
    <3>2. QED
      BY <1>1, <1>4, <2>1, <3>1 DEF TimedInv, ConnectedIsTimed
  <2>2. QED
    BY <2>1 DEF ConnectedIsTimed
<1>5. ASSUME Inactive PROVE EstablishedLast'
  <2>1. ASSUME NEW d \in Conn, NEW i \in 1 .. Len(queue'[home'[d]]),
               queue'[home'[d]][i] = <<"established", d>>
        PROVE  Settled(d)' \/ EnabledBefore(d, i)'
    <3>1. d # c
      <4>1. home'[c] \in Loop
        BY <1>1 DEF TypeOK
      <4>2. QED
        BY <1>1, <1>2, <2>1, <4>1
    <3>2. QED
      BY <1>1, <1>5, <2>1, <3>1
      DEF TimedInv, EstablishedLast, Settled, Timed, EnabledBefore
  <2>2. QED
    BY <2>1 DEF EstablishedLast
<1>6. ASSUME Inactive PROVE EstablishingLast'
  BY <1>1, <1>6 DEF EstablishingLast
<1>7. QED
  BY <1>3, <1>4, <1>5, <1>6 DEF TimedInv

(* A timer goes only with its connection.                                   *)
LEMMA SettledStays ==
  ASSUME TypeOK, [Next]_vars, \A c \in Conn : ~Construct(c), NEW c \in Conn, Settled(c)
  PROVE  Settled(c)'
<1>0. /\ UNCHANGED <<id, home>> /\ home[c] \in Loop /\ DOMAIN timers = Loop /\ c # None
      /\ statu[c] # "CONNECTING" => \A d \in Conn : EstablishedInLoop(d) => statu'[c] = statu[c]
  BY OthersBringNone, ServerAssumption DEF TypeOK, EstablishedInLoop
<1>1. ASSUME NEW d, EnableInactiveReleaseInLoop(d) PROVE Settled(c)'
  <2>1. timers[home[c]] \subseteq timers'[home[c]] /\ UNCHANGED statu
    BY <1>0, <1>1 DEF EnableInactiveReleaseInLoop
  <2>2. QED
    BY <1>0, <2>1 DEF Settled, Timed
<1>2. ASSUME NEW d \in Conn, EstablishedInLoop(d) PROVE Settled(c)'
  BY <1>0, <1>2 DEF Settled, Timed, EstablishedInLoop
<1>3. ASSUME UNCHANGED <<statu, timers>> PROVE Settled(c)'
  BY <1>0, <1>3 DEF Settled, Timed
<1>4. CASE Enable \/ Establish
  <2>1. accepting \in Conn
    BY <1>4 DEF Enable, Establish, TypeOK
  <2>2. QED
    BY <1>1, <1>2, <1>3, <1>4, <2>1 DEF Enable, Establish, RunInLoop
<1>5. CASE Insert \/ HandOverTimerTask \/ UNCHANGED vars
  BY <1>3, <1>5 DEF Insert, HandOverTimerTask, vars
<1>6. CASE AddTimerTaskInLoop
  <2>1. timers[home[c]] \subseteq timers'[home[c]] /\ UNCHANGED statu
    BY <1>0, <1>6 DEF AddTimerTaskInLoop
  <2>2. QED
    BY <1>0, <2>1 DEF Settled, Timed
<1>7. ASSUME NEW l \in Loop, Execute(l) PROVE Settled(c)'
  <2>1. Head(queue[l]) \in Closure
    BY <1>7, HeadClosure DEF Execute
  <2>2. CASE Head(queue[l])[1] = "timer"
    BY <1>7, <1>6, <2>2 DEF Execute
  <2>3. CASE Head(queue[l])[1] # "timer"
    <3>1. Head(queue[l])[2] \in Conn
      BY <2>1, <2>3 DEF Closure
    <3>2. QED
      BY <1>1, <1>2, <1>7, <2>3, <3>1 DEF Execute
  <2>4. QED
    BY <2>2, <2>3
<1>8. ASSUME NEW d \in Conn, ReleaseInLoop(d) PROVE Settled(c)'
  <2>1. CASE d = c
    BY <1>8, <2>1 DEF ReleaseInLoop, Settled, TypeOK
  <2>2. CASE d # c
    <3>1. statu'[c] = statu[c] /\ (<<id[c], c>> \in timers[home[c]] => <<id[c], c>> \in timers'[home[c]])
      BY <1>0, <1>8, <2>2 DEF ReleaseInLoop, TypeOK
    <3>2. QED
      BY <1>0, <3>1 DEF Settled, Timed
  <2>3. QED
    BY <2>1, <2>2
<1>9. CASE Expire
  <2>1. PICK e \in timers[Base] : e[2] = None /\ timers' = [timers EXCEPT ![Base] = @ \ {e}]
    BY <1>9 DEF Expire
  <2>2. <<id[c], c>> # e
    BY <1>0, <2>1
  <2>3. UNCHANGED statu /\ (<<id[c], c>> \in timers[home[c]] => <<id[c], c>> \in timers'[home[c]])
    BY <1>0, <1>9, <2>1, <2>2 DEF Expire
  <2>4. QED
    BY <1>0, <2>3 DEF Settled, Timed
<1>10. QED
  BY NextCases, <1>4, <1>5, <1>6, <1>7, <1>8, <1>9 DEF AddTimerTask

(* A connection becomes CONNECTED only by its EstablishedInLoop.            *)
LEMMA WhoConnects ==
  ASSUME TypeOK, [Next]_vars, \A c \in Conn : ~Construct(c), NEW c \in Conn,
         statu'[c] = "CONNECTED"
  PROVE  \/ statu[c] = "CONNECTED"
         \/ accepting = c /\ step = "establish" /\ home[c] = Base
         \/ \E l \in Loop : queue[l] # <<>> /\ Head(queue[l]) = <<"established", c>>
<1>1. CASE Enable \/ Establish
  <2>1. accepting \in Conn
    BY <1>1 DEF Enable, Establish, TypeOK
  <2>2. QED
    BY <1>1, <2>1
    DEF Enable, Establish, RunInLoop, EnableInactiveReleaseInLoop, EstablishedInLoop, TypeOK
<1>2. CASE Insert \/ AddTimerTask \/ Expire \/ UNCHANGED vars
  BY <1>2 DEF Insert, AddTimerTask, HandOverTimerTask, AddTimerTaskInLoop, Expire, vars
<1>3. ASSUME NEW l \in Loop, Execute(l)
      PROVE  statu[c] = "CONNECTED" \/ (queue[l] # <<>> /\ Head(queue[l]) = <<"established", c>>)
  <2>1. queue[l] # <<>> /\ Head(queue[l]) \in Closure
    BY <1>3, HeadClosure DEF Execute
  <2>2. CASE Head(queue[l])[1] = "established"
    <3>1. PICK d \in Conn : Head(queue[l]) = <<"established", d>>
      BY <2>1, <2>2 DEF Closure
    <3>2. EstablishedInLoop(d)
      BY <1>3, <3>1 DEF Execute
    <3>3. d = c \/ statu'[c] = statu[c]
      BY <3>2 DEF EstablishedInLoop, TypeOK
    <3>4. QED
      BY <2>1, <3>1, <3>3
  <2>3. CASE Head(queue[l])[1] # "established"
    BY <1>3, <2>3 DEF Execute, AddTimerTaskInLoop, EnableInactiveReleaseInLoop
  <2>4. QED
    BY <2>2, <2>3
<1>4. ASSUME NEW d \in Conn, ReleaseInLoop(d) PROVE statu[c] = "CONNECTED"
  BY <1>4 DEF ReleaseInLoop, TypeOK
<1>5. QED
  BY NextCases, <1>1, <1>2, <1>3, <1>4

LEMMA ConnectedStep ==
  ASSUME TypeOK, TimedInv, Inactive, [Next]_vars, \A c \in Conn : ~Construct(c)
  PROVE  ConnectedIsTimed'
<1>1. ASSUME NEW c \in Conn, statu'[c] = "CONNECTED" PROVE Settled(c)
  <2>1. CASE statu[c] = "CONNECTED"
    BY <2>1 DEF TimedInv, ConnectedIsTimed, Settled, Timed
  <2>2. CASE accepting = c /\ step = "establish" /\ home[c] = Base
    BY <2>2, ServerAssumption DEF TimedInv, EstablishingLast
  <2>3. ASSUME NEW l \in Loop, queue[l] # <<>>, Head(queue[l]) = <<"established", c>>
        PROVE  Settled(c)
    <3>1. queue[l] \in Seq(Closure)
      BY DEF TypeOK
    <3>2. 1 \in 1 .. Len(queue[l]) /\ queue[l][1] = <<"established", c>>
      BY <2>3, <3>1, HeadTailProperties
    <3>3. l = home[c]
      BY <3>2 DEF TimedInv, InOwnLoop
    <3>4. Settled(c) \/ EnabledBefore(c, 1)
      BY <3>2, <3>3 DEF TimedInv, EstablishedLast
    <3>5. QED
      BY <3>4 DEF EnabledBefore
  <2>4. QED
    BY <1>1, <2>1, <2>2, <2>3, WhoConnects
<1>2. ASSUME NEW c \in Conn, statu'[c] = "CONNECTED" PROVE Timed(c)'
  <2>1. Settled(c)'
    BY <1>1, <1>2, SettledStays
  <2>2. QED
    BY <1>2, <2>1 DEF Settled
<1>3. QED
  BY <1>2 DEF ConnectedIsTimed, Timed

(* The ways a queue changes, entry by entry.                                *)
LEMMA ClosureAtEnd ==
  ASSUME TypeOK, NEW h \in Loop, NEW x \in Closure,
         queue' = [queue EXCEPT ![h] = Append(@, x)]
  PROVE  /\ \A l \in Loop \ {h} : queue'[l] = queue[l]
         /\ Len(queue[h]) \in Nat /\ Len(queue'[h]) = Len(queue[h]) + 1
         /\ queue'[h][Len(queue[h]) + 1] = x
         /\ \A i \in 1 .. Len(queue[h]) : queue'[h][i] = queue[h][i]
<1>1. queue[h] \in Seq(Closure) /\ queue'[h] = Append(queue[h], x)
  BY DEF TypeOK
<1>2. /\ Len(Append(queue[h], x)) = Len(queue[h]) + 1 /\ Len(queue[h]) \in Nat
      /\ Append(queue[h], x)[Len(queue[h]) + 1] = x
      /\ \A j \in 1 .. Len(queue[h]) : Append(queue[h], x)[j] = queue[h][j]
  BY <1>1, AppendProperties
<1>3. QED
  BY <1>1, <1>2 DEF TypeOK

LEMMA ClosureAtFront ==
  ASSUME TypeOK, NEW h \in Loop, queue[h] # <<>>, queue' = [queue EXCEPT ![h] = Tail(@)]
  PROVE  /\ \A l \in Loop \ {h} : queue'[l] = queue[l]
         /\ Len(queue[h]) \in Nat \ {0} /\ Len(queue'[h]) = Len(queue[h]) - 1
         /\ queue[h][1] = Head(queue[h])
         /\ \A i \in 1 .. Len(queue'[h]) : queue'[h][i] = queue[h][i + 1]
<1>1. queue[h] \in Seq(Closure) /\ queue'[h] = Tail(queue[h])
  BY DEF TypeOK
<1>2. /\ Len(queue[h]) \in Nat \ {0} /\ Head(queue[h]) = queue[h][1]
      /\ Len(Tail(queue[h])) = Len(queue[h]) - 1
      /\ \A j \in 1 .. Len(Tail(queue[h])) : Tail(queue[h])[j] = queue[h][j + 1]
  BY <1>1, HeadTailProperties
<1>3. QED
  BY <1>1, <1>2 DEF TypeOK

(* Handing over a closure of the connection being accepted, or a timer task.*)
LEMMA TimedAppend ==
  ASSUME TypeOK, TimedInv, Loop' = Loop, UNCHANGED <<id, home>>,
         \A c \in Conn : Settled(c) => Settled(c)',
         NEW h \in Loop, NEW x \in Closure,
         queue' = [queue EXCEPT ![h] = Append(@, x)],
         \A c \in Conn : x = <<"established", c>> =>
           h = home[c] /\ accepting = c /\ step = "establish"
  PROVE  InOwnLoop' /\ (Inactive => EstablishedLast')
<1>1. /\ \A l \in Loop \ {h} : queue'[l] = queue[l]
      /\ Len(queue[h]) \in Nat /\ Len(queue'[h]) = Len(queue[h]) + 1
      /\ queue'[h][Len(queue[h]) + 1] = x
      /\ \A i \in 1 .. Len(queue[h]) : queue'[h][i] = queue[h][i]
  BY ClosureAtEnd
<1>2. \A c \in Conn : home[c] \in Loop
  BY DEF TypeOK
<1>3. ASSUME NEW l \in Loop, NEW i \in 1 .. Len(queue'[l])
      PROVE  \/ i \in 1 .. Len(queue[l]) /\ queue'[l][i] = queue[l][i]
             \/ l = h /\ i = Len(queue[l]) + 1 /\ queue'[l][i] = x
  <2>1. CASE l = h
    BY <1>1, <1>3, <2>1
  <2>2. CASE l # h
    BY <1>1, <1>3, <2>2
  <2>3. QED
    BY <2>1, <2>2
<1>4. InOwnLoop'
  <2>1. ASSUME NEW l \in Loop, NEW i \in 1 .. Len(queue'[l]), NEW c \in Conn,
               queue'[l][i] = <<"established", c>>
        PROVE  l = home[c]
    <3>1. CASE i \in 1 .. Len(queue[l]) /\ queue'[l][i] = queue[l][i]
      BY <2>1, <3>1 DEF TimedInv, InOwnLoop
    <3>2. CASE l = h /\ i = Len(queue[l]) + 1 /\ queue'[l][i] = x
      BY <2>1, <3>2
    <3>3. QED
      BY <1>3, <3>1, <3>2
  <2>2. QED
    BY <2>1 DEF InOwnLoop
<1>5. ASSUME Inactive PROVE EstablishedLast'
  <2>1. ASSUME NEW c \in Conn, NEW i \in 1 .. Len(queue'[home[c]]),
               queue'[home[c]][i] = <<"established", c>>, ~Settled(c)
        PROVE  EnabledBefore(c, i)'
    <3>0. EnabledBefore(c, i) /\ i - 1 <= Len(queue[home[c]])
      <4>1. CASE i \in 1 .. Len(queue[home[c]]) /\ queue'[home[c]][i] = queue[home[c]][i]
        BY <1>5, <2>1, <4>1 DEF TimedInv, EstablishedLast
      <4>2. CASE home[c] = h /\ i = Len(queue[home[c]]) + 1 /\ queue'[home[c]][i] = x
        <5>1. accepting = c /\ step = "establish"
          BY <2>1, <4>2
        <5>2. QED
          BY <1>1, <1>5, <2>1, <4>2, <5>1 DEF TimedInv, EstablishingLast
      <4>3. QED
        BY <1>2, <1>3, <2>1, <4>1, <4>2
    <3>1. PICK j \in 1 .. i - 1 : queue[home[c]][j] = <<"enable", c>>
      BY <3>0 DEF EnabledBefore
    <3>2. queue'[home[c]][j] = queue[home[c]][j]
      <4>1. CASE home[c] = h
        BY <1>1, <3>0, <3>1, <4>1
      <4>2. CASE home[c] # h
        BY <1>1, <1>2, <4>2
      <4>3. QED
        BY <4>1, <4>2
    <3>3. QED
      BY <3>1, <3>2 DEF EnabledBefore
  <2>2. ASSUME NEW c \in Conn, NEW i \in 1 .. Len(queue'[home[c]]),
               queue'[home[c]][i] = <<"established", c>>
        PROVE  Settled(c)' \/ EnabledBefore(c, i)'
    BY <2>1, <2>2
  <2>3. QED
    BY <2>2 DEF EstablishedLast
<1>6. QED
  BY <1>4, <1>5

LEMMA TimedExecute ==
  ASSUME TypeOK, TimedInv, NEW h \in Loop, Execute(h),
         \A c \in Conn : Settled(c) => Settled(c)'
  PROVE  /\ InOwnLoop'
         /\ Inactive => EstablishedLast' /\ EstablishingLast'
<1>0. /\ queue[h] # <<>> /\ queue' = [queue EXCEPT ![h] = Tail(@)]
      /\ UNCHANGED <<id, home, accepting, step>> /\ Loop' = Loop
      /\ h = Base => accepting = None
      /\ \A c \in Conn : home[c] \in Loop
  BY DEF Execute, poolVars, newVars, Loop, Worker, TypeOK
<1>1. /\ \A l \in Loop \ {h} : queue'[l] = queue[l]
      /\ Len(queue[h]) \in Nat \ {0} /\ Len(queue'[h]) = Len(queue[h]) - 1
      /\ queue[h][1] = Head(queue[h])
      /\ \A i \in 1 .. Len(queue'[h]) : queue'[h][i] = queue[h][i + 1]
  BY <1>0, ClosureAtFront
<1>2. InOwnLoop'
  <2>1. ASSUME NEW l \in Loop, NEW i \in 1 .. Len(queue'[l]), NEW c \in Conn,
               queue'[l][i] = <<"established", c>>
        PROVE  l = home[c]
    <3>1. CASE l = h
      <4>1. i + 1 \in 1 .. Len(queue[h]) /\ queue[h][i + 1] = <<"established", c>>
        BY <1>1, <2>1, <3>1
      <4>2. QED
        BY <3>1, <4>1 DEF TimedInv, InOwnLoop
    <3>2. CASE l # h
      <4>1. queue'[l] = queue[l]
        BY <1>1, <3>2
      <4>2. QED
        BY <2>1, <4>1 DEF TimedInv, InOwnLoop
    <3>3. QED
      BY <3>1, <3>2
  <2>2. QED
    BY <1>0, <2>1 DEF InOwnLoop
(* A closure that goes first has set the timer; the others move up.         *)
<1>3. ASSUME NEW c \in Conn, Head(queue[h]) = <<"enable", c>> PROVE Settled(c)'
  <2>1. EnableInactiveReleaseInLoop(c)
    BY <1>3 DEF Execute
  <2>2. <<id[c], c>> \in timers'[home[c]]
    BY <1>0, <2>1 DEF EnableInactiveReleaseInLoop, TypeOK
  <2>3. QED
    BY <1>0, <2>2 DEF Settled, Timed
<1>4. ASSUME NEW c \in Conn, NEW i \in Nat, i \in 1 .. Len(queue[home[c]]) + 1, EnabledBefore(c, i)
      PROVE  \/ Settled(c)'
             \/ home[c] # h /\ EnabledBefore(c, i)'
             \/ home[c] = h /\ EnabledBefore(c, i - 1)'
  <2>1. PICK j \in 1 .. i - 1 : queue[home[c]][j] = <<"enable", c>>
    BY <1>4 DEF EnabledBefore
  <2>2. CASE home[c] # h
    <3>1. queue'[home[c]] = queue[home[c]]
      BY <1>0, <1>1, <2>2
    <3>2. QED
      BY <1>0, <2>1, <2>2, <3>1 DEF EnabledBefore
  <2>3. CASE home[c] = h /\ j = 1
    BY <1>1, <1>3, <2>1, <2>3
  <2>4. CASE home[c] = h /\ j # 1
    <3>1. j - 1 \in 1 .. Len(queue'[h]) /\ j - 1 \in 1 .. (i - 1) - 1
      BY <1>1, <1>4, <2>1, <2>4
    <3>2. queue'[h][j - 1] = <<"enable", c>>
      BY <1>1, <2>1, <2>4, <3>1
    <3>3. QED
      BY <1>0, <2>4, <3>1, <3>2 DEF EnabledBefore
  <2>5. QED
    BY <2>2, <2>3, <2>4
<1>5. ASSUME Inactive PROVE EstablishedLast'
  <2>1. ASSUME NEW c \in Conn, NEW i \in 1 .. Len(queue'[home[c]]),
               queue'[home[c]][i] = <<"established", c>>
        PROVE  Settled(c)' \/ EnabledBefore(c, i)'
    <3>1. CASE home[c] = h
      <4>1. i \in Nat /\ i + 1 \in 1 .. Len(queue[h]) /\ queue[h][i + 1] = <<"established", c>>
        BY <1>1, <2>1, <3>1
      <4>2. Settled(c) \/ EnabledBefore(c, i + 1)
        BY <1>5, <3>1, <4>1 DEF TimedInv, EstablishedLast
      <4>3. i + 1 \in Nat /\ i + 1 \in 1 .. Len(queue[home[c]]) + 1 /\ (i + 1) - 1 = i
        BY <1>1, <3>1, <4>1
      <4>4. Settled(c)' \/ EnabledBefore(c, (i + 1) - 1)'
        BY <1>4, <3>1, <4>2, <4>3
      <4>5. QED
        BY <4>3, <4>4 DEF EnabledBefore
    <3>2. CASE home[c] # h
      <4>1. queue'[home[c]] = queue[home[c]]
        BY <1>0, <1>1, <3>2
      <4>2. Settled(c) \/ EnabledBefore(c, i)
        BY <1>5, <2>1, <4>1 DEF TimedInv, EstablishedLast
      <4>3. QED
        BY <1>0, <4>1, <4>2 DEF EnabledBefore
    <3>3. QED
      BY <3>1, <3>2
  <2>2. QED
    BY <1>0, <2>1 DEF EstablishedLast
<1>6. ASSUME Inactive PROVE EstablishingLast'
  <2>1. ASSUME NEW c \in Conn, accepting = c, step = "establish", ~Settled(c)'
        PROVE  /\ home[c] # Base
               /\ EnabledBefore(c, Len(queue[home[c]]) + 1)'
    <3>1. queue[home[c]] \in Seq(Closure)
      BY <1>0 DEF TypeOK
    <3>2. PICK n \in Nat : n = Len(queue[home[c]])
      BY <3>1
    <3>3. home[c] # Base /\ EnabledBefore(c, n + 1)
      BY <1>6, <2>1, <3>2 DEF TimedInv, EstablishingLast
    <3>4. \/ home[c] # h /\ EnabledBefore(c, n + 1)'
          \/ home[c] = h /\ EnabledBefore(c, (n + 1) - 1)'
      <4>1. n + 1 \in Nat /\ n + 1 \in 1 .. Len(queue[home[c]]) + 1
        BY <3>2
      <4>2. QED
        BY <1>4, <2>1, <3>3, <4>1
    <3>5. CASE home[c] # h
      <4>1. queue'[home[c]] = queue[home[c]]
        BY <1>0, <1>1, <3>5
      <4>2. QED
        BY <1>0, <3>2, <3>3, <3>4, <3>5, <4>1 DEF EnabledBefore
    <3>6. CASE home[c] = h
      <4>1. Len(queue'[h]) + 1 = n /\ (n + 1) - 1 = n
        BY <1>1, <3>2, <3>6
      <4>2. QED
        BY <1>0, <3>3, <3>4, <3>6, <4>1 DEF EnabledBefore
    <3>7. QED
      BY <3>5, <3>6
  <2>2. QED
    BY <1>0, <2>1 DEF EstablishingLast
<1>7. QED
  BY <1>2, <1>5, <1>6

LEMMA TimedStep == TypeOK /\ TypeOK' /\ IdsInv /\ TimedInv /\ [Next]_vars => TimedInv'
<1> SUFFICES ASSUME TypeOK, TypeOK', IdsInv, TimedInv, [Next]_vars PROVE TimedInv'
  OBVIOUS
<1>1. ASSUME NEW c \in Conn, Construct(c) PROVE TimedInv'
  BY <1>1, TimedConstruct
<1>2. CASE \A c \in Conn : ~Construct(c)
  <2>0. /\ UNCHANGED <<id, home>> /\ Loop' = Loop
        /\ \A c \in Conn : Settled(c) => Settled(c)'
        /\ \A c \in Conn : home[c] \in Loop
    BY <1>2, OthersBringNone, SettledStays DEF poolVars, Loop, Worker, TypeOK
  <2>1. Inactive => ConnectedIsTimed'
    BY <1>2, ConnectedStep
  <2>2. ASSUME UNCHANGED <<queue, accepting, step>> PROVE TimedInv'
    <3>1. InOwnLoop'
      BY <2>0, <2>2 DEF TimedInv, InOwnLoop
    <3>2. ASSUME Inactive PROVE EstablishedLast'
      BY <2>0, <2>2, <3>2 DEF TimedInv, EstablishedLast, EnabledBefore
    <3>3. ASSUME Inactive PROVE EstablishingLast'
      BY <2>0, <2>2, <3>3 DEF TimedInv, EstablishingLast, EnabledBefore
    <3>4. QED
      BY <2>1, <3>1, <3>2, <3>3 DEF TimedInv
  <2>3. CASE Enable
    <3>1. /\ accepting \in Conn /\ accepting # None /\ UNCHANGED accepting
          /\ step = "enable" /\ step' = "establish"
          /\ RunInLoop("enable", accepting)
      BY <2>3 DEF Enable, TypeOK
    <3>2. home[accepting] \in Loop /\ <<"enable", accepting>> \in Closure
      BY <2>0, <3>1 DEF Closure
    <3>3. CASE home[accepting] = Base
      <4>1. UNCHANGED queue /\ EnableInactiveReleaseInLoop(accepting)
        BY <3>1, <3>3 DEF RunInLoop
      <4>2. \A c \in Conn : accepting = c => Settled(c)'
        BY <2>0, <3>1, <3>2, <4>1 DEF EnableInactiveReleaseInLoop, Settled, Timed, TypeOK
      <4>3. EstablishingLast'
        BY <3>1, <4>2 DEF EstablishingLast
      <4>4. InOwnLoop' /\ (Inactive => EstablishedLast')
        BY <2>0, <4>1 DEF TimedInv, InOwnLoop, EstablishedLast, EnabledBefore
      <4>5. QED
        BY <2>1, <4>3, <4>4 DEF TimedInv
    <3>4. CASE home[accepting] # Base
      <4> DEFINE h == home[accepting]
                 x == <<"enable", accepting>>
      <4>1. queue' = [queue EXCEPT ![h] = Append(@, x)]
        BY <3>1, <3>4 DEF RunInLoop
      <4>2. \A c \in Conn : x # <<"established", c>>
        OBVIOUS
      <4>3. /\ Len(queue[h]) \in Nat /\ Len(queue'[h]) = Len(queue[h]) + 1
            /\ queue'[h][Len(queue[h]) + 1] = x
        <5> HIDE DEF h, x
        <5>1. h \in Loop /\ x \in Closure
          BY <3>2 DEF h, x
        <5>2. QED
          BY <4>1, <5>1, ClosureAtEnd
      <4>4. InOwnLoop' /\ (Inactive => EstablishedLast')
        <5>1. h \in Loop /\ x \in Closure
          BY <3>2
        <5> HIDE DEF h, x
        <5>2. QED
          BY <2>0, <4>1, <4>2, <5>1, TimedAppend
      <4>5. EstablishingLast'
        <5>1. Len(queue[h]) + 1 \in 1 .. (Len(queue'[h]) + 1) - 1
          BY <4>3
        <5>2. \E j \in 1 .. (Len(queue'[h]) + 1) - 1 : queue'[h][j] = <<"enable", accepting>>
          BY <4>3, <5>1
        <5>3. QED
          BY <2>0, <3>1, <3>4, <5>2 DEF EstablishingLast, EnabledBefore
      <4>6. QED
        BY <2>1, <4>4, <4>5 DEF TimedInv
    <3>5. QED
      BY <3>3, <3>4
  <2>4. CASE Establish
    <3>1. /\ accepting \in Conn /\ accepting # None /\ UNCHANGED accepting
          /\ step = "establish" /\ step' = "insert"
          /\ RunInLoop("established", accepting)
      BY <2>4 DEF Establish, TypeOK
    <3>2. EstablishingLast'
      BY <3>1 DEF EstablishingLast
    <3>3. home[accepting] \in Loop /\ <<"established", accepting>> \in Closure
      BY <2>0, <3>1 DEF Closure
    <3>4. CASE home[accepting] = Base
      <4>1. UNCHANGED queue
        BY <3>1, <3>4 DEF RunInLoop
      <4>2. InOwnLoop' /\ (Inactive => EstablishedLast')
        BY <2>0, <4>1 DEF TimedInv, InOwnLoop, EstablishedLast, EnabledBefore
      <4>3. QED
        BY <2>1, <3>2, <4>2 DEF TimedInv
    <3>5. CASE home[accepting] # Base
      <4> DEFINE h == home[accepting]
                 x == <<"established", accepting>>
      <4>1. queue' = [queue EXCEPT ![h] = Append(@, x)]
        BY <3>1, <3>5 DEF RunInLoop
      <4>2. \A c \in Conn : x = <<"established", c>> =>
              h = home[c] /\ accepting = c /\ step = "establish"
        BY <3>1
      <4>3. h \in Loop /\ x \in Closure
        BY <3>3
      <4> HIDE DEF h, x
      <4>4. InOwnLoop' /\ (Inactive => EstablishedLast')
        BY <2>0, <4>1, <4>2, <4>3, TimedAppend
      <4>5. QED
        BY <2>1, <3>2, <4>4 DEF TimedInv
    <3>6. QED
      BY <3>4, <3>5
  <2>5. CASE Insert
    <3>1. EstablishingLast'
      BY <2>5 DEF Insert, EstablishingLast
    <3>2. UNCHANGED queue
      BY <2>5 DEF Insert
    <3>3. InOwnLoop' /\ (Inactive => EstablishedLast')
      BY <2>0, <3>2 DEF TimedInv, InOwnLoop, EstablishedLast, EnabledBefore
    <3>4. QED
      BY <2>1, <3>1, <3>3 DEF TimedInv
  <2>6. CASE AddTimerTask /\ UNCHANGED queue
    BY <2>2, <2>6 DEF AddTimerTask, newVars
  <2>7. CASE AddTimerTask /\ HandOverTimerTask
    <3>1. /\ queue' = [queue EXCEPT ![Base] = Append(@, <<"timer", None>>)]
          /\ UNCHANGED <<accepting, step>>
      BY <2>7 DEF AddTimerTask, HandOverTimerTask, newVars
    <3>2. Base \in Loop /\ <<"timer", None>> \in Closure
      BY DEF Loop, Closure
    <3>3. \A c \in Conn : <<"timer", None>> # <<"established", c>>
      OBVIOUS
    <3>4. InOwnLoop' /\ (Inactive => EstablishedLast')
      BY <2>0, <3>1, <3>2, <3>3, TimedAppend
    <3>5. ASSUME Inactive PROVE EstablishingLast'
      <4>1. \A l \in Loop \ {Base} : queue'[l] = queue[l]
        BY <3>1, <3>2, ClosureAtEnd
      <4>2. QED
        BY <2>0, <3>1, <3>5, <4>1 DEF TimedInv, EstablishingLast, EnabledBefore
    <3>6. QED
      BY <2>1, <3>4, <3>5 DEF TimedInv
  <2>8. ASSUME NEW l \in Loop, Execute(l) PROVE TimedInv'
    <3>1. InOwnLoop' /\ (Inactive => EstablishedLast' /\ EstablishingLast')
      BY <2>0, <2>8, TimedExecute
    <3>2. QED
      BY <2>1, <3>1 DEF TimedInv
  <2>9. ASSUME NEW c \in Conn, ReleaseInLoop(c) PROVE TimedInv'
    BY <2>2, <2>9 DEF ReleaseInLoop, newVars
  <2>10. CASE Expire
    BY <2>2, <2>10 DEF Expire, newVars
  <2>11. CASE UNCHANGED vars
    BY <2>2, <2>11 DEF vars, newVars
  <2>12. QED
    BY NextCases, <1>2, <2>3, <2>4, <2>5, <2>6, <2>7, <2>8, <2>9, <2>10, <2>11
    DEF AddTimerTask
<1>3. QED
  BY <1>1, <1>2

(* With EnableInactiveRelease every served connection has its timer: no     *)
(* other thread's closures, releases or expiring tasks come between         *)
(* (TcpServer.hpp, NewConnection; Connection.hpp, EstablishedInLoop).       *)
THEOREM ServedIsTimed == Spec => []ConnectedIsTimed
<1>1. TimedInv => ConnectedIsTimed
  BY DEF TimedInv, ConnectedIsTimed
<1>2. Init => TypeOK /\ IndexInPool /\ IdsInv /\ TimedInv
  BY TypeInit, IdsInit, TimedInit
<1>3. TypeOK /\ IndexInPool /\ IdsInv /\ TimedInv /\ [Next]_vars
        => (TypeOK /\ IndexInPool /\ IdsInv /\ TimedInv)'
  BY TypeStep, IdsStep, TimedStep
<1>4. QED
  BY <1>1, <1>2, <1>3, PTL DEF Spec
===============================================================================
