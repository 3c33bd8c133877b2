---------------------------- MODULE CountdownTimers ----------------------------
(***************************************************************************)
(* What the timer wheel promises, without slots and shared pointers: each  *)
(* armed timer counts ticks down from its period, refreshing it starts the *)
(* count again, and it expires at zero, never before and never later.  One *)
(* timer expires at a time; a cancelled one expires without its callback.  *)
(***************************************************************************)
EXTENDS Naturals

CONSTANTS
  Id,      (* the timers' names                                            *)
  Timeout, (* the periods they may be armed with                           *)
  NoTimer  (* a name that is not armed; no callback in execution           *)

VARIABLES
  timer,   (* per name: NoTimer or its count, period and cancellation      *)
  firing   (* the name whose expiry is being carried out                   *)

abstractVars == <<timer, firing>>

Armed(id) == timer[id] # NoTimer

AbstractInit ==
  /\ timer = [id \in Id |-> NoTimer]
  /\ firing = NoTimer

Arm(id, n) ==
  /\ ~Armed(id)
  /\ firing # id
  /\ timer' = [timer EXCEPT ![id] = [left |-> n, period |-> n, canceled |-> FALSE]]
  /\ UNCHANGED firing

Rearm(id) ==
  /\ Armed(id)
  /\ timer' = [timer EXCEPT ![id].left = timer[id].period]
  /\ UNCHANGED firing

Cancel(id) ==
  /\ Armed(id)
  /\ timer' = [timer EXCEPT ![id].canceled = TRUE]
  /\ UNCHANGED firing

Expire(id) ==
  /\ firing = NoTimer
  /\ Armed(id)
  /\ timer[id].left = 0
  /\ timer' = [timer EXCEPT ![id] = NoTimer]
  /\ firing' = id

Finish ==
  /\ firing # NoTimer
  /\ firing' = NoTimer
  /\ UNCHANGED timer

(* A tick passes only when everything that was due has expired.             *)
CountDown ==
  /\ firing = NoTimer
  /\ \A id \in Id : Armed(id) => timer[id].left > 0
  /\ timer' = [id \in Id |-> IF Armed(id) THEN [timer[id] EXCEPT !.left = @ - 1]
                                          ELSE NoTimer]
  /\ UNCHANGED firing

AbstractNext ==
  \/ \E id \in Id : Rearm(id) \/ Cancel(id) \/ Expire(id)
  \/ \E id \in Id, n \in Timeout : Arm(id, n)
  \/ Finish
  \/ CountDown

SafeTimers == AbstractInit /\ [][AbstractNext]_abstractVars

===============================================================================
